--------------------------- MODULE MCFuseSession ---------------------------
(* Model checking the FUSE layer: three kernels, and a file system that     *)
(* asks for nothing, or for a capability some of them do not have.         *)
EXTENDS FuseSession

KernelOffers == {Flags \ {"BIG_WRITES"},
                 {"ASYNC_READ", "WRITEBACK_CACHE"},
                 {"ASYNC_READ", "PARALLEL_DIROPS", "MAX_PAGES"}}
Asks == {{}, {"WRITEBACK_CACHE"}}
=============================================================================
