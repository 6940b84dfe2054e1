-------------------------------- MODULE MCKv --------------------------------
(* Instances of Kv: files that are changed, and a directory that is read. *)
EXTENDS Kv

CONSTANTS f1, f2, f3

MCWorkloads == {[ops |-> {"mknod", "unlink", "setattr", "write"}, files |-> {f1}],
                [ops |-> {"getattr", "read"}, files |-> {f1}],
                [ops |-> {"readdir"}, files |-> {f1, f2, f3}]}
MCDirentLen(f, plus) == (IF f = f1 THEN 1 ELSE IF f = f2 THEN 2 ELSE 3) + (IF plus THEN 1 ELSE 0)
MCIovecs == {<<2>>, <<3, 6>>, <<1, 1, 3, 4>>, <<7>>}
=============================================================================
