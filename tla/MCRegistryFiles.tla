----------------------------- MODULE MCRegistryFiles ---------------------------
(***************************************************************************)
(* The two files of a PeerRegistry for TLC: the peers, saved some time     *)
(* after a change, and the allowlist beside it, written at once.  They     *)
(* are changed under locks of their own and share no state, so a behaviour *)
(* exercises one of them, chosen at the start.                             *)
(***************************************************************************)
EXTENDS RegistrySave, Allowlist

VARIABLE file

filesVars == <<file, vars, allowVars>>

FilesInit == file \in {"peers", "allowlist"} /\ Init /\ AllowInit

FilesNext ==
    \/ file = "peers" /\ Next /\ UNCHANGED <<file, allowVars>>
    \/ file = "allowlist" /\ AllowNext /\ UNCHANGED <<file, vars>>

FilesSpec == FilesInit /\ [][FilesNext]_filesVars /\ Fairness
================================================================================
