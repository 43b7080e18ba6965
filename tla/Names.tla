-------------------------------- MODULE Names --------------------------------
(***************************************************************************)
(* What the components of the project refer to in common.                  *)
(***************************************************************************)
CONSTANTS Procs,    \* processes of podman-bootc
          Images,   \* images, named by their full id
          None      \* the absent value: no domain, no handle, no file
=============================================================================
