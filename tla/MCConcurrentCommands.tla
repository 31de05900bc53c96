------------------------ MODULE MCConcurrentCommands ------------------------
(***************************************************************************)
(* Two terminals, two environments.                                        *)
(***************************************************************************)
EXTENDS ConcurrentCommands, TLC

Terminals == Permutations(Procs)

(* The names of the environments are interchangeable, and a symmetry set    *)
(* cannot say so because of AnyEnv, the value of a field that is not in     *)
(* use.  So as long as no command has named an environment, the first one   *)
(* that does names AnyEnv: any other behaviour is one of these with the     *)
(* names exchanged.                                                        *)
NoneNamed ==
  /\ \A j \in Jobs : ledger[j].status = "none"
  /\ \A p \in Procs : ~Mutating(p)
FirstNamesAnyEnv == NoneNamed => env' = env

(* Bound: no command begins once commands have overlapped and, besides,     *)
(* writes have collided, which are the premises of FilesAreReadable and of  *)
(* VerdictsAreRecorded.                                                    *)
BeginsInOrder == overlap /\ collided => commands' = commands

MCSpec == Init /\ [][Next /\ FirstNamesAnyEnv /\ BeginsInOrder]_vars
=============================================================================
