---------------------- MODULE ConcurrentCommandsProofs ----------------------
(***************************************************************************)
(* The safety properties of ConcurrentCommands, for every number of        *)
(* processes, environments, commands and crashes.                          *)
(*                                                                         *)
(* None of them is inductive.  That every file can be read rests on there  *)
(* being one save and one append at a time (SaveInv, AppendInv); that a    *)
(* quiet cancel is final, on nobody having the job in hand (QuietInv).     *)
(* That a verdict of the ledger is in the state file rests on nearly all   *)
(* of what a command relies on between the moment it loads the state and   *)
(* the moment it closes its job: that it is alone (AloneInv), that the     *)
(* lines it holds are its own (HeldInv), that a new job is the last of the *)
(* ledger (OrderInv), that nothing was saved since it loaded (MemoryInv),  *)
(* and that no creation of its environment is left unfinished behind its   *)
(* back (LineageInv).  FreshInv is what makes a new identifier exist.      *)
(*                                                                         *)
(* The proof has a lemma for each branch that a step can take (Dies, Loads,*)
(* Picks, ...), with what the step does to the position of the process     *)
(* first, and then one step for each part of the invariant.                *)
(***************************************************************************)
EXTENDS ConcurrentCommands, FiniteSetTheorems, SequenceTheorems, WellFoundedInduction, TLAPS

USE DEF Mutations, Deletions

-----------------------------------------------------------------------------
(* The inductive invariant.                                                *)

(* The processes that will still take a new identifier, and the jobs that  *)
(* have one: the identifiers do not run out before the commands do.        *)
Waiting == {p \in Procs : Mutating(p) /\ job[p] = NoJob}
Used == {j \in Jobs : ledger[j].status # "none" \/ \E p \in Procs : job[p] = j}

(* Every identifier that is taken, or will be, was paid for by a command.  *)
FreshInv ==
  /\ IsFiniteSet(Waiting)
  /\ Cardinality(Used) + Cardinality(Waiting) <= commands

(* Where a process is, and what it can hold there.                         *)
Control(p) ==
  /\ ~Active(p) => at[p] = 1 /\ ok[p] /\ job[p] = NoJob
  /\ Active(p) => at[p] \in 1..Len(Path(cmd[p], ok[p]))
  /\ Active(p) => (job[p] = NoJob <=> Label(p) \in {"load", "pick"})
  /\ Label(p) \in {"load", "pick", "announce", "open", "begin", "work", "bind", "reconcile"}
       => ok[p]
  /\ cmd[p] \notin Deletions \/ job[p] = NoJob => cleanup[p] = {}
  /\ fd[p] # "none" => Label(p) \in SaveLabels
  /\ p \in written => fd[p] # "none"
  /\ p \in appending => Label(p) \in AppendLabels
  /\ p \in appending /\ Label(p) = "reconcile" => cleanup[p] # {}

ControlInv == \A p \in Procs : Control(p)

(* One save at a time, which leaves the state file alone until it renames. *)
SaveInv ==
  ~collided \/ ~overlap =>
    /\ \A p, q \in Procs : fd[p] # "none" /\ fd[q] # "none" => p = q
    /\ \A p \in Procs : /\ fd[p] \in {"none", "tmp"}
                        /\ fd[p] = "tmp" => tmpFile = IF p \in written THEN memory[p]
                                                      ELSE Unread("empty")
    /\ stateFile \in States

(* One append at a time, as long as no two have met and none was cut.      *)
AppendInv == ~collided => ~damaged /\ \A p, q \in appending : p = q

(* Nobody has a job in hand that was canceled while nobody had.            *)
QuietInv ==
  \A j \in quiet : /\ ledger[j].status \in {"canceled", "reconciled"}
                   /\ \A p \in Procs : job[p] # j

(* Commands that ran one after the other.                                  *)
AloneInv == ~overlap => \A p, q \in Procs : Mutating(p) /\ Mutating(q) => p = q

(* The lines of the ledger that processes hold are there, and are theirs.  *)
Held(p) ==
  /\ \A j \in cleanup[p] : ledger[j].status # "none"
  /\ cmd[p] = "cancel" /\ job[p] # NoJob => ledger[job[p]].status # "none"
  /\ Mutating(p) /\ Label(p) \notin {"load", "pick", "announce"} => ledger[job[p]].status # "none"
  /\ ~overlap /\ Mutating(p) /\ job[p] # NoJob /\ ledger[job[p]].status # "none" =>
       ledger[job[p]].env = env[p] /\ ledger[job[p]].kind = cmd[p]

HeldInv == \A p \in Procs : Held(p)

(* Identifiers are used in the order of their creation.                    *)
OrderInv ==
  ~overlap =>
    /\ \A j, k \in Jobs : ledger[j].status # "none" /\ k < j => ledger[k].status # "none"
    /\ \A p \in Procs, k \in Jobs : Mutating(p) /\ k < job[p] => ledger[k].status # "none"

(* What a command has in memory is what the file says, its environment set *)
(* aside; and the verdict it closes its job with is in the file.           *)
MemoryInv ==
  ~overlap =>
    \A p \in Procs : Mutating(p) =>
      /\ Label(p) # "load" => \A e \in Envs \ {env[p]} : memory[p][e] = stateFile[e]
      /\ fd[p] # "none" => memory[p][env[p]] = Recorded(p)
      /\ Label(p) = "pick" => memory[p][env[p]] = stateFile[env[p]]
      /\ cmd[p] = "delete_keep" /\ job[p] # NoJob => stateFile[env[p]] # "absent"
      /\ Label(p) = "close" /\ ok[p] => RecordFits(cmd[p], env[p])

(* The last job of an environment has succeeded.                           *)
Settled(e) == \E j \in LatestJob(e) : ledger[j].status = "succeeded"

(* The unfinished creations of an environment are in the hands of the      *)
(* command that works on it, and its last job is not a finished one.       *)
LineageInv ==
  ~overlap =>
    /\ \A e \in Envs : Lineages(e) # {} => ~Settled(e)
    /\ \A p \in Procs : Mutating(p) /\ job[p] # NoJob =>
         /\ ledger[job[p]].status # "none" => ~Settled(env[p])
         /\ Lineages(env[p]) \subseteq cleanup[p] \cup {job[p]}
         /\ cmd[p] \in Deletions /\ ok[p] /\ Label(p) \in {"settle", "close"} => cleanup[p] = {}

(* All of it, with the property it is there for.                           *)
IInv ==
  /\ TypeOK /\ FreshInv /\ ControlInv /\ SaveInv /\ AppendInv /\ QuietInv
  /\ AloneInv /\ HeldInv /\ OrderInv /\ MemoryInv /\ LineageInv
  /\ VerdictsAreRecorded

-----------------------------------------------------------------------------
(* The paths of the commands, position by position.                        *)

(* The labels of all the paths.                                            *)
Names == {"load", "pick", "announce", "open", "begin", "work", "bind", "report",
          "reconcile", "settle", "close"}

(* A sequence with one more element at its end.                            *)
LEMMA OneMore ==
  ASSUME NEW s \in Seq(Names), NEW t \in Seq(Names), Len(t) = 1
  PROVE  /\ s \o t \in Seq(Names) /\ Len(s \o t) = Len(s) + 1
         /\ \A i \in 1..Len(s) : (s \o t)[i] = s[i]
         /\ (s \o t)[Len(s) + 1] = t[1]
  <1>1. /\ s \o t \in Seq(Names)
        /\ Len(s \o t) = Len(s) + Len(t)
        /\ \A i \in 1..Len(s) + Len(t) :
             (s \o t)[i] = IF i <= Len(s) THEN s[i] ELSE t[i - Len(s)]
    BY ConcatProperties
  <1>2. /\ Len(s) + 1 \in 1..Len(s) + Len(t) /\ ~(Len(s) + 1 <= Len(s))
        /\ (Len(s) + 1) - Len(s) = 1
    BY LenProperties
  <1> QED
    BY <1>1, <1>2, LenProperties

(* A sequence with the two steps of the verdict at its end.                *)
LEMMA VerdictFollows ==
  ASSUME NEW s \in Seq(Names)
  PROVE  /\ s \o Verdict \in Seq(Names) /\ Len(s \o Verdict) = Len(s) + 2
         /\ \A i \in 1..Len(s) : (s \o Verdict)[i] = s[i]
         /\ (s \o Verdict)[Len(s) + 1] = "settle"
         /\ (s \o Verdict)[Len(s) + 2] = "close"
  <1>1. /\ Verdict \in Seq(Names) /\ Len(Verdict) = 2
        /\ Verdict[1] = "settle" /\ Verdict[2] = "close"
    BY DEF Verdict, Names
  <1>2. /\ s \o Verdict \in Seq(Names)
        /\ Len(s \o Verdict) = Len(s) + Len(Verdict)
        /\ \A i \in 1..Len(s) + Len(Verdict) :
             (s \o Verdict)[i] = IF i <= Len(s) THEN s[i] ELSE Verdict[i - Len(s)]
    BY <1>1, ConcatProperties
  <1>3. /\ Len(s) + 1 \in 1..Len(s) + Len(Verdict) /\ ~(Len(s) + 1 <= Len(s))
        /\ (Len(s) + 1) - Len(s) = 1
        /\ Len(s) + 2 \in 1..Len(s) + Len(Verdict) /\ ~(Len(s) + 2 <= Len(s))
        /\ (Len(s) + 2) - Len(s) = 2
    BY <1>1, LenProperties
  <1> QED
    BY <1>1, <1>2, <1>3, LenProperties

(* The labels of each path, position by position.                          *)
LEMMA CreateSucceeds ==
  LET path == Path("create", TRUE)
  IN  /\ Len(path) = 10
      /\ path[1] = "load" /\ path[2] = "pick" /\ path[3] = "announce"
      /\ path[4] = "open" /\ path[5] = "begin" /\ path[6] = "work" /\ path[7] = "bind"
      /\ path[8] = "report" /\ path[9] = "settle" /\ path[10] = "close"
  <1> DEFINE a == <<"load", "pick", "announce", "open", "begin", "work">>
             b == <<"bind">>
             c == <<"report">>
             ab == a \o b
             abc == ab \o c
             path == abc \o Verdict
  <1>1. Path("create", TRUE) = path
    BY DEF Path
  <1>2. /\ a \in Seq(Names) /\ Len(a) = 6
        /\ b \in Seq(Names) /\ Len(b) = 1 /\ b[1] = "bind"
        /\ c \in Seq(Names) /\ Len(c) = 1 /\ c[1] = "report"
        /\ a[1] = "load" /\ a[2] = "pick" /\ a[3] = "announce"
        /\ a[4] = "open" /\ a[5] = "begin" /\ a[6] = "work"
    BY DEF Names
  <1> HIDE DEF a, b, c, path
  <1>3. /\ ab \in Seq(Names) /\ Len(ab) = Len(a) + 1 /\ ab[Len(a) + 1] = b[1]
        /\ \A i \in 1..Len(a) : ab[i] = a[i]
    BY <1>2, OneMore
  <1>4. /\ ab \in Seq(Names) /\ Len(ab) = 7 /\ ab[7] = "bind"
        /\ \A i \in 1..6 : ab[i] = a[i]
    BY <1>2, <1>3
  <1> HIDE DEF ab
  <1>5. /\ abc \in Seq(Names) /\ Len(abc) = Len(ab) + 1 /\ abc[Len(ab) + 1] = c[1]
        /\ \A i \in 1..Len(ab) : abc[i] = ab[i]
    BY <1>2, <1>4, OneMore
  <1> HIDE DEF abc
  <1>6. /\ abc \in Seq(Names) /\ Len(abc) = 8 /\ abc[8] = "report"
        /\ \A i \in 1..7 : abc[i] = ab[i]
    <2>1. Len(ab) = 7 /\ c[1] = "report"
      BY <1>2, <1>4
    <2> QED
      BY <1>5, <2>1
  <1>7. /\ Len(path) = Len(abc) + 2
        /\ path[Len(abc) + 1] = "settle" /\ path[Len(abc) + 2] = "close"
        /\ \A i \in 1..Len(abc) : path[i] = abc[i]
    BY <1>6, VerdictFollows DEF path
  <1>8. /\ Len(path) = 10 /\ path[9] = "settle" /\ path[10] = "close"
        /\ \A i \in 1..8 : path[i] = abc[i]
    BY <1>6, <1>7
  <1>9. ASSUME NEW i \in 1..6
        PROVE  path[i] = a[i]
    <2>1. i \in 1..7 /\ i \in 1..8
      OBVIOUS
    <2>2. path[i] = abc[i] /\ abc[i] = ab[i] /\ ab[i] = a[i]
      BY <1>4, <1>6, <1>8, <2>1
    <2> QED
      BY <2>2
  <1>10. /\ path[1] = a[1] /\ path[2] = a[2] /\ path[3] = a[3]
        /\ path[4] = a[4] /\ path[5] = a[5] /\ path[6] = a[6]
    BY <1>9
  <1>11. path[7] = ab[7] /\ path[8] = abc[8]
    BY <1>6, <1>8
  <1>12. /\ path[1] = "load" /\ path[2] = "pick" /\ path[3] = "announce"
         /\ path[4] = "open" /\ path[5] = "begin" /\ path[6] = "work" /\ path[7] = "bind"
         /\ path[8] = "report"
    BY <1>2, <1>4, <1>6, <1>10, <1>11
  <1> QED
    BY <1>1, <1>8, <1>12

LEMMA CreateFails ==
  LET path == Path("create", FALSE)
  IN  /\ Len(path) = 9
      /\ path[1] = "load" /\ path[2] = "pick" /\ path[3] = "announce"
      /\ path[4] = "open" /\ path[5] = "begin" /\ path[6] = "work"
      /\ path[7] = "report" /\ path[8] = "settle" /\ path[9] = "close"
  <1> DEFINE a == <<"load", "pick", "announce", "open", "begin", "work">>
             c == <<"report">>
             ac == a \o c
             path == ac \o Verdict
  <1>1. Path("create", FALSE) = path
    <2>1. Path("create", FALSE) = ((a \o << >>) \o c) \o Verdict
      BY DEF Path
    <2>2. a \o << >> = a
      <3>1. a \in Seq(Names)
        BY DEF Names
      <3> QED
        BY <3>1, ConcatEmptySeq
    <2> QED
      BY <2>1, <2>2
  <1>2. /\ a \in Seq(Names) /\ Len(a) = 6
        /\ c \in Seq(Names) /\ Len(c) = 1 /\ c[1] = "report"
        /\ a[1] = "load" /\ a[2] = "pick" /\ a[3] = "announce"
        /\ a[4] = "open" /\ a[5] = "begin" /\ a[6] = "work"
    BY DEF Names
  <1> HIDE DEF a, c, path
  <1>3. /\ ac \in Seq(Names) /\ Len(ac) = Len(a) + 1 /\ ac[Len(a) + 1] = c[1]
        /\ \A i \in 1..Len(a) : ac[i] = a[i]
    BY <1>2, OneMore
  <1>4. /\ ac \in Seq(Names) /\ Len(ac) = 7 /\ ac[7] = "report"
        /\ \A i \in 1..6 : ac[i] = a[i]
    BY <1>2, <1>3
  <1> HIDE DEF ac
  <1>5. /\ Len(path) = Len(ac) + 2
        /\ path[Len(ac) + 1] = "settle" /\ path[Len(ac) + 2] = "close"
        /\ \A i \in 1..Len(ac) : path[i] = ac[i]
    BY <1>4, VerdictFollows DEF path
  <1>6. /\ Len(path) = 9 /\ path[8] = "settle" /\ path[9] = "close"
        /\ \A i \in 1..7 : path[i] = ac[i]
    BY <1>4, <1>5
  <1>7. /\ path[1] = a[1] /\ path[2] = a[2] /\ path[3] = a[3]
        /\ path[4] = a[4] /\ path[5] = a[5] /\ path[6] = a[6]
    BY <1>4, <1>6
  <1>8. path[7] = ac[7]
    BY <1>6
  <1> QED
    BY <1>1, <1>2, <1>4, <1>6, <1>7, <1>8

LEMMA DeleteSucceeds ==
  LET path == Path("delete", TRUE)
  IN  /\ Len(path) = 9
      /\ path[1] = "load" /\ path[2] = "pick" /\ path[3] = "announce"
      /\ path[4] = "begin" /\ path[5] = "work" /\ path[6] = "report"
      /\ path[7] = "reconcile" /\ path[8] = "settle" /\ path[9] = "close"
  <1> DEFINE a == <<"load", "pick", "announce", "begin", "work", "report">>
             b == <<"reconcile">>
             end == b \o Verdict
             path == a \o end
  <1>1. Path("delete", TRUE) = path
    BY DEF Path
  <1>2. /\ a \in Seq(Names) /\ Len(a) = 6
        /\ b \in Seq(Names) /\ Len(b) = 1 /\ b[1] = "reconcile"
        /\ a[1] = "load" /\ a[2] = "pick" /\ a[3] = "announce"
        /\ a[4] = "begin" /\ a[5] = "work" /\ a[6] = "report"
    BY DEF Names
  <1> HIDE DEF a, b, path
  <1>3. /\ end \in Seq(Names) /\ Len(end) = Len(b) + 2
        /\ end[Len(b) + 1] = "settle" /\ end[Len(b) + 2] = "close"
        /\ \A i \in 1..Len(b) : end[i] = b[i]
    BY <1>2, VerdictFollows
  <1>4. /\ end \in Seq(Names) /\ Len(end) = 3
        /\ end[1] = "reconcile" /\ end[2] = "settle" /\ end[3] = "close"
    BY <1>2, <1>3
  <1> HIDE DEF end
  <1>5. /\ Len(path) = Len(a) + Len(end)
        /\ \A i \in 1..Len(a) + Len(end) :
             path[i] = IF i <= Len(a) THEN a[i] ELSE end[i - Len(a)]
    BY <1>2, <1>4, ConcatProperties DEF path
  <1>6. /\ Len(path) = 9
        /\ \A i \in 1..9 : path[i] = IF i <= 6 THEN a[i] ELSE end[i - 6]
    BY <1>2, <1>4, <1>5
  <1>7. path[7] = end[1] /\ path[8] = end[2] /\ path[9] = end[3]
    <2>1. path[7] = end[7 - 6] /\ path[8] = end[8 - 6] /\ path[9] = end[9 - 6]
      BY <1>6
    <2> QED
      BY <2>1
  <1>8. /\ path[1] = a[1] /\ path[2] = a[2] /\ path[3] = a[3]
        /\ path[4] = a[4] /\ path[5] = a[5] /\ path[6] = a[6]
    BY <1>6
  <1> QED
    BY <1>1, <1>2, <1>4, <1>6, <1>7, <1>8

LEMMA DeleteFails ==
  LET path == Path("delete", FALSE)
  IN  /\ Len(path) = 7
      /\ path[1] = "load" /\ path[2] = "pick" /\ path[3] = "announce"
      /\ path[4] = "begin" /\ path[5] = "work" /\ path[6] = "report" /\ path[7] = "close"
  <1> DEFINE a == <<"load", "pick", "announce", "begin", "work", "report">>
             b == <<"close">>
             path == a \o b
  <1>1. Path("delete", FALSE) = path
    BY DEF Path
  <1>2. /\ a \in Seq(Names) /\ Len(a) = 6
        /\ b \in Seq(Names) /\ Len(b) = 1 /\ b[1] = "close"
        /\ a[1] = "load" /\ a[2] = "pick" /\ a[3] = "announce"
        /\ a[4] = "begin" /\ a[5] = "work" /\ a[6] = "report"
    BY DEF Names
  <1> HIDE DEF a, b
  <1>3. /\ Len(path) = Len(a) + 1 /\ path[Len(a) + 1] = b[1]
        /\ \A i \in 1..Len(a) : path[i] = a[i]
    BY <1>2, OneMore
  <1>4. Len(path) = 7 /\ path[7] = "close" /\ \A i \in 1..6 : path[i] = a[i]
    BY <1>2, <1>3
  <1>5. /\ path[1] = a[1] /\ path[2] = a[2] /\ path[3] = a[3]
        /\ path[4] = a[4] /\ path[5] = a[5] /\ path[6] = a[6]
    BY <1>4
  <1> QED
    BY <1>1, <1>2, <1>4, <1>5

LEMMA KeepSucceeds ==
  LET path == Path("delete_keep", TRUE)
  IN  /\ Len(path) = 8
      /\ path[1] = "load" /\ path[2] = "pick" /\ path[3] = "announce"
      /\ path[4] = "begin" /\ path[5] = "work" /\ path[6] = "report"
      /\ path[7] = "reconcile" /\ path[8] = "close"
  <1> DEFINE a == <<"load", "pick", "announce", "begin", "work", "report">>
             end == <<"reconcile", "close">>
             path == a \o end
  <1>1. Path("delete_keep", TRUE) = path
    BY DEF Path
  <1>2. /\ a \in Seq(Names) /\ Len(a) = 6
        /\ end \in Seq(Names) /\ Len(end) = 2 /\ end[1] = "reconcile" /\ end[2] = "close"
        /\ a[1] = "load" /\ a[2] = "pick" /\ a[3] = "announce"
        /\ a[4] = "begin" /\ a[5] = "work" /\ a[6] = "report"
    BY DEF Names
  <1> HIDE DEF a, end, path
  <1>3. /\ Len(path) = Len(a) + Len(end)
        /\ \A i \in 1..Len(a) + Len(end) :
             path[i] = IF i <= Len(a) THEN a[i] ELSE end[i - Len(a)]
    BY <1>2, ConcatProperties DEF path
  <1>4. /\ Len(path) = 8
        /\ \A i \in 1..8 : path[i] = IF i <= 6 THEN a[i] ELSE end[i - 6]
    BY <1>2, <1>3
  <1>5. path[7] = end[1] /\ path[8] = end[2]
    <2>1. path[7] = end[7 - 6] /\ path[8] = end[8 - 6]
      BY <1>4
    <2> QED
      BY <2>1
  <1>6. /\ path[1] = a[1] /\ path[2] = a[2] /\ path[3] = a[3]
        /\ path[4] = a[4] /\ path[5] = a[5] /\ path[6] = a[6]
    BY <1>4
  <1> QED
    BY <1>1, <1>2, <1>4, <1>5, <1>6

LEMMA KeepFails ==
  LET path == Path("delete_keep", FALSE)
  IN  /\ Len(path) = 7
      /\ path[1] = "load" /\ path[2] = "pick" /\ path[3] = "announce"
      /\ path[4] = "begin" /\ path[5] = "work" /\ path[6] = "report" /\ path[7] = "close"
  <1> DEFINE a == <<"load", "pick", "announce", "begin", "work", "report">>
             b == <<"close">>
             path == a \o b
  <1>1. Path("delete_keep", FALSE) = path
    BY DEF Path
  <1>2. /\ a \in Seq(Names) /\ Len(a) = 6
        /\ b \in Seq(Names) /\ Len(b) = 1 /\ b[1] = "close"
        /\ a[1] = "load" /\ a[2] = "pick" /\ a[3] = "announce"
        /\ a[4] = "begin" /\ a[5] = "work" /\ a[6] = "report"
    BY DEF Names
  <1> HIDE DEF a, b
  <1>3. /\ Len(path) = Len(a) + 1 /\ path[Len(a) + 1] = b[1]
        /\ \A i \in 1..Len(a) : path[i] = a[i]
    BY <1>2, OneMore
  <1>4. Len(path) = 7 /\ path[7] = "close" /\ \A i \in 1..6 : path[i] = a[i]
    BY <1>2, <1>3
  <1>5. /\ path[1] = a[1] /\ path[2] = a[2] /\ path[3] = a[3]
        /\ path[4] = a[4] /\ path[5] = a[5] /\ path[6] = a[6]
    BY <1>4
  <1> QED
    BY <1>1, <1>2, <1>4, <1>5

LEMMA CancelPath ==
  ASSUME NEW success
  PROVE  LET path == Path("cancel", success)
         IN  Len(path) = 2 /\ path[1] = "pick" /\ path[2] = "close"
  BY DEF Path

-----------------------------------------------------------------------------
(* Where a command goes from each label.                                   *)

(* What a process can be doing.                                            *)
Commands == Mutations \cup {"cancel"}

Follows(c, success, label) ==
  CASE label = "load" -> "pick"
    [] label = "pick" -> IF c = "cancel" THEN "close" ELSE "announce"
    [] label = "announce" -> IF c = "create" THEN "open" ELSE "begin"
    [] label = "open" -> "begin"
    [] label = "begin" -> "work"
    [] label = "work" -> IF c = "create" /\ success THEN "bind" ELSE "report"
    [] label = "bind" -> "report"
    [] label = "report" -> IF c = "create" THEN "settle"
                           ELSE IF success THEN "reconcile" ELSE "close"
    [] label = "reconcile" -> IF c = "delete" THEN "settle" ELSE "close"
    [] label = "settle" -> "close"
    [] OTHER -> "idle"

(* A path ends with "close" and nowhere else, and what comes after a label *)
(* is what Follows says.                                                   *)
LEMMA PathFollows ==
  ASSUME NEW c \in Commands, NEW success \in BOOLEAN,
         NEW path, path = Path(c, success), NEW i \in 1..Len(path)
  PROVE  /\ Len(path) \in 2..10
         /\ path[i] \in Names
         /\ c = "cancel" => path[i] \in {"pick", "close"}
         /\ c # "create" => path[i] \notin {"open", "bind"}
         /\ c \notin Deletions => path[i] # "reconcile"
         /\ c = "delete_keep" => path[i] # "settle"
         /\ ~success => path[i] \notin {"bind", "reconcile"}
         /\ i = Len(path) => path[i] = "close"
         /\ i < Len(path) => path[i] # "close" /\ path[i + 1] = Follows(c, success, path[i])
  <1>1. CASE c = "create" /\ success = TRUE
    <2>1. Path("create", TRUE) = path
      BY <1>1
    <2>2. /\ Len(path) = 10
          /\ path[1] = "load" /\ path[2] = "pick" /\ path[3] = "announce"
          /\ path[4] = "open" /\ path[5] = "begin" /\ path[6] = "work"
          /\ path[7] = "bind" /\ path[8] = "report" /\ path[9] = "settle"
          /\ path[10] = "close"
      BY <2>1, CreateSucceeds
    <2>3. i = 1 \/ i = 2 \/ i = 3 \/ i = 4 \/ i = 5 \/ i = 6 \/ i = 7 \/ i = 8 \/ i = 9 \/ i = 10
      BY <2>2
    <2>4. \/ i < Len(path) /\ path[i] = "load" /\ path[i + 1] = "pick"
          \/ i < Len(path) /\ path[i] = "pick" /\ path[i + 1] = "announce"
          \/ i < Len(path) /\ path[i] = "announce" /\ path[i + 1] = "open"
          \/ i < Len(path) /\ path[i] = "open" /\ path[i + 1] = "begin"
          \/ i < Len(path) /\ path[i] = "begin" /\ path[i + 1] = "work"
          \/ i < Len(path) /\ path[i] = "work" /\ path[i + 1] = "bind"
          \/ i < Len(path) /\ path[i] = "bind" /\ path[i + 1] = "report"
          \/ i < Len(path) /\ path[i] = "report" /\ path[i + 1] = "settle"
          \/ i < Len(path) /\ path[i] = "settle" /\ path[i + 1] = "close"
          \/ i = Len(path) /\ path[i] = "close"
      BY <2>2, <2>3
    <2>5. i < Len(path) => path[i] # "close" /\ path[i + 1] = Follows("create", TRUE, path[i])
      BY <2>4 DEF Follows
    <2>6. /\ Len(path) \in 2..10 /\ path[i] \in Names
          /\ i = Len(path) => path[i] = "close"
      BY <2>2, <2>4 DEF Names
    <2>7. /\ c = "cancel" => path[i] \in {"pick", "close"}
          /\ c # "create" => path[i] \notin {"open", "bind"}
          /\ c \notin Deletions => path[i] # "reconcile"
          /\ c = "delete_keep" => path[i] # "settle"
      BY <1>1, <2>4
    <2>8. ~success => path[i] \notin {"bind", "reconcile"}
      BY <1>1, <2>4
    <2> QED
      BY <1>1, <2>5, <2>6, <2>7, <2>8
  <1>2. CASE c = "create" /\ success = FALSE
    <2>1. Path("create", FALSE) = path
      BY <1>2
    <2>2. /\ Len(path) = 9
          /\ path[1] = "load" /\ path[2] = "pick" /\ path[3] = "announce"
          /\ path[4] = "open" /\ path[5] = "begin" /\ path[6] = "work"
          /\ path[7] = "report" /\ path[8] = "settle" /\ path[9] = "close"
      BY <2>1, CreateFails
    <2>3. i = 1 \/ i = 2 \/ i = 3 \/ i = 4 \/ i = 5 \/ i = 6 \/ i = 7 \/ i = 8 \/ i = 9
      BY <2>2
    <2>4. \/ i < Len(path) /\ path[i] = "load" /\ path[i + 1] = "pick"
          \/ i < Len(path) /\ path[i] = "pick" /\ path[i + 1] = "announce"
          \/ i < Len(path) /\ path[i] = "announce" /\ path[i + 1] = "open"
          \/ i < Len(path) /\ path[i] = "open" /\ path[i + 1] = "begin"
          \/ i < Len(path) /\ path[i] = "begin" /\ path[i + 1] = "work"
          \/ i < Len(path) /\ path[i] = "work" /\ path[i + 1] = "report"
          \/ i < Len(path) /\ path[i] = "report" /\ path[i + 1] = "settle"
          \/ i < Len(path) /\ path[i] = "settle" /\ path[i + 1] = "close"
          \/ i = Len(path) /\ path[i] = "close"
      BY <2>2, <2>3
    <2>5. i < Len(path) => path[i] # "close" /\ path[i + 1] = Follows("create", FALSE, path[i])
      BY <2>4 DEF Follows
    <2>6. /\ Len(path) \in 2..10 /\ path[i] \in Names
          /\ i = Len(path) => path[i] = "close"
      BY <2>2, <2>4 DEF Names
    <2>7. /\ c = "cancel" => path[i] \in {"pick", "close"}
          /\ c # "create" => path[i] \notin {"open", "bind"}
          /\ c \notin Deletions => path[i] # "reconcile"
          /\ c = "delete_keep" => path[i] # "settle"
      BY <1>2, <2>4
    <2>8. ~success => path[i] \notin {"bind", "reconcile"}
      BY <1>2, <2>4
    <2> QED
      BY <1>2, <2>5, <2>6, <2>7, <2>8
  <1>3. CASE c = "delete" /\ success = TRUE
    <2>1. Path("delete", TRUE) = path
      BY <1>3
    <2>2. /\ Len(path) = 9
          /\ path[1] = "load" /\ path[2] = "pick" /\ path[3] = "announce"
          /\ path[4] = "begin" /\ path[5] = "work" /\ path[6] = "report"
          /\ path[7] = "reconcile" /\ path[8] = "settle" /\ path[9] = "close"
      BY <2>1, DeleteSucceeds
    <2>3. i = 1 \/ i = 2 \/ i = 3 \/ i = 4 \/ i = 5 \/ i = 6 \/ i = 7 \/ i = 8 \/ i = 9
      BY <2>2
    <2>4. \/ i < Len(path) /\ path[i] = "load" /\ path[i + 1] = "pick"
          \/ i < Len(path) /\ path[i] = "pick" /\ path[i + 1] = "announce"
          \/ i < Len(path) /\ path[i] = "announce" /\ path[i + 1] = "begin"
          \/ i < Len(path) /\ path[i] = "begin" /\ path[i + 1] = "work"
          \/ i < Len(path) /\ path[i] = "work" /\ path[i + 1] = "report"
          \/ i < Len(path) /\ path[i] = "report" /\ path[i + 1] = "reconcile"
          \/ i < Len(path) /\ path[i] = "reconcile" /\ path[i + 1] = "settle"
          \/ i < Len(path) /\ path[i] = "settle" /\ path[i + 1] = "close"
          \/ i = Len(path) /\ path[i] = "close"
      BY <2>2, <2>3
    <2>5. i < Len(path) => path[i] # "close" /\ path[i + 1] = Follows("delete", TRUE, path[i])
      BY <2>4 DEF Follows
    <2>6. /\ Len(path) \in 2..10 /\ path[i] \in Names
          /\ i = Len(path) => path[i] = "close"
      BY <2>2, <2>4 DEF Names
    <2>7. /\ c = "cancel" => path[i] \in {"pick", "close"}
          /\ c # "create" => path[i] \notin {"open", "bind"}
          /\ c \notin Deletions => path[i] # "reconcile"
          /\ c = "delete_keep" => path[i] # "settle"
      BY <1>3, <2>4
    <2>8. ~success => path[i] \notin {"bind", "reconcile"}
      BY <1>3, <2>4
    <2> QED
      BY <1>3, <2>5, <2>6, <2>7, <2>8
  <1>4. CASE c = "delete" /\ success = FALSE
    <2>1. Path("delete", FALSE) = path
      BY <1>4
    <2>2. /\ Len(path) = 7
          /\ path[1] = "load" /\ path[2] = "pick" /\ path[3] = "announce"
          /\ path[4] = "begin" /\ path[5] = "work" /\ path[6] = "report"
          /\ path[7] = "close"
      BY <2>1, DeleteFails
    <2>3. i = 1 \/ i = 2 \/ i = 3 \/ i = 4 \/ i = 5 \/ i = 6 \/ i = 7
      BY <2>2
    <2>4. \/ i < Len(path) /\ path[i] = "load" /\ path[i + 1] = "pick"
          \/ i < Len(path) /\ path[i] = "pick" /\ path[i + 1] = "announce"
          \/ i < Len(path) /\ path[i] = "announce" /\ path[i + 1] = "begin"
          \/ i < Len(path) /\ path[i] = "begin" /\ path[i + 1] = "work"
          \/ i < Len(path) /\ path[i] = "work" /\ path[i + 1] = "report"
          \/ i < Len(path) /\ path[i] = "report" /\ path[i + 1] = "close"
          \/ i = Len(path) /\ path[i] = "close"
      BY <2>2, <2>3
    <2>5. i < Len(path) => path[i] # "close" /\ path[i + 1] = Follows("delete", FALSE, path[i])
      BY <2>4 DEF Follows
    <2>6. /\ Len(path) \in 2..10 /\ path[i] \in Names
          /\ i = Len(path) => path[i] = "close"
      BY <2>2, <2>4 DEF Names
    <2>7. /\ c = "cancel" => path[i] \in {"pick", "close"}
          /\ c # "create" => path[i] \notin {"open", "bind"}
          /\ c \notin Deletions => path[i] # "reconcile"
          /\ c = "delete_keep" => path[i] # "settle"
      BY <1>4, <2>4
    <2>8. ~success => path[i] \notin {"bind", "reconcile"}
      BY <1>4, <2>4
    <2> QED
      BY <1>4, <2>5, <2>6, <2>7, <2>8
  <1>5. CASE c = "cancel"
    <2>1. Path("cancel", success) = path
      BY <1>5
    <2>2. /\ Len(path) = 2
          /\ path[1] = "pick" /\ path[2] = "close"
      BY <2>1, CancelPath
    <2>3. i = 1 \/ i = 2
      BY <2>2
    <2>4. \/ i < Len(path) /\ path[i] = "pick" /\ path[i + 1] = "close"
          \/ i = Len(path) /\ path[i] = "close"
      BY <2>2, <2>3
    <2>5. i < Len(path) => path[i] # "close" /\ path[i + 1] = Follows("cancel", success, path[i])
      BY <2>4 DEF Follows
    <2>6. /\ Len(path) \in 2..10 /\ path[i] \in Names
          /\ i = Len(path) => path[i] = "close"
      BY <2>2, <2>4 DEF Names
    <2>7. /\ c = "cancel" => path[i] \in {"pick", "close"}
          /\ c # "create" => path[i] \notin {"open", "bind"}
          /\ c \notin Deletions => path[i] # "reconcile"
          /\ c = "delete_keep" => path[i] # "settle"
      BY <1>5, <2>4
    <2>8. ~success => path[i] \notin {"bind", "reconcile"}
      BY <1>5, <2>4
    <2> QED
      BY <1>5, <2>5, <2>6, <2>7, <2>8
  <1>6. CASE c = "delete_keep" /\ success = TRUE
    <2>1. Path("delete_keep", TRUE) = path
      BY <1>6
    <2>2. /\ Len(path) = 8
          /\ path[1] = "load" /\ path[2] = "pick" /\ path[3] = "announce"
          /\ path[4] = "begin" /\ path[5] = "work" /\ path[6] = "report"
          /\ path[7] = "reconcile" /\ path[8] = "close"
      BY <2>1, KeepSucceeds
    <2>3. i = 1 \/ i = 2 \/ i = 3 \/ i = 4 \/ i = 5 \/ i = 6 \/ i = 7 \/ i = 8
      BY <2>2
    <2>4. \/ i < Len(path) /\ path[i] = "load" /\ path[i + 1] = "pick"
          \/ i < Len(path) /\ path[i] = "pick" /\ path[i + 1] = "announce"
          \/ i < Len(path) /\ path[i] = "announce" /\ path[i + 1] = "begin"
          \/ i < Len(path) /\ path[i] = "begin" /\ path[i + 1] = "work"
          \/ i < Len(path) /\ path[i] = "work" /\ path[i + 1] = "report"
          \/ i < Len(path) /\ path[i] = "report" /\ path[i + 1] = "reconcile"
          \/ i < Len(path) /\ path[i] = "reconcile" /\ path[i + 1] = "close"
          \/ i = Len(path) /\ path[i] = "close"
      BY <2>2, <2>3
    <2>5. i < Len(path) => path[i] # "close" /\ path[i + 1] = Follows("delete_keep", TRUE, path[i])
      BY <2>4 DEF Follows
    <2>6. /\ Len(path) \in 2..10 /\ path[i] \in Names
          /\ i = Len(path) => path[i] = "close"
      BY <2>2, <2>4 DEF Names
    <2>7. /\ c = "cancel" => path[i] \in {"pick", "close"}
          /\ c # "create" => path[i] \notin {"open", "bind"}
          /\ c \notin Deletions => path[i] # "reconcile"
          /\ c = "delete_keep" => path[i] # "settle"
      BY <1>6, <2>4
    <2>8. ~success => path[i] \notin {"bind", "reconcile"}
      BY <1>6, <2>4
    <2> QED
      BY <1>6, <2>5, <2>6, <2>7, <2>8
  <1>7. CASE c = "delete_keep" /\ success = FALSE
    <2>1. Path("delete_keep", FALSE) = path
      BY <1>7
    <2>2. /\ Len(path) = 7
          /\ path[1] = "load" /\ path[2] = "pick" /\ path[3] = "announce"
          /\ path[4] = "begin" /\ path[5] = "work" /\ path[6] = "report"
          /\ path[7] = "close"
      BY <2>1, KeepFails
    <2>3. i = 1 \/ i = 2 \/ i = 3 \/ i = 4 \/ i = 5 \/ i = 6 \/ i = 7
      BY <2>2
    <2>4. \/ i < Len(path) /\ path[i] = "load" /\ path[i + 1] = "pick"
          \/ i < Len(path) /\ path[i] = "pick" /\ path[i + 1] = "announce"
          \/ i < Len(path) /\ path[i] = "announce" /\ path[i + 1] = "begin"
          \/ i < Len(path) /\ path[i] = "begin" /\ path[i + 1] = "work"
          \/ i < Len(path) /\ path[i] = "work" /\ path[i + 1] = "report"
          \/ i < Len(path) /\ path[i] = "report" /\ path[i + 1] = "close"
          \/ i = Len(path) /\ path[i] = "close"
      BY <2>2, <2>3
    <2>5. i < Len(path) => path[i] # "close" /\ path[i + 1] = Follows("delete_keep", FALSE, path[i])
      BY <2>4 DEF Follows
    <2>6. /\ Len(path) \in 2..10 /\ path[i] \in Names
          /\ i = Len(path) => path[i] = "close"
      BY <2>2, <2>4 DEF Names
    <2>7. /\ c = "cancel" => path[i] \in {"pick", "close"}
          /\ c # "create" => path[i] \notin {"open", "bind"}
          /\ c \notin Deletions => path[i] # "reconcile"
          /\ c = "delete_keep" => path[i] # "settle"
      BY <1>7, <2>4
    <2>8. ~success => path[i] \notin {"bind", "reconcile"}
      BY <1>7, <2>4
    <2> QED
      BY <1>7, <2>5, <2>6, <2>7, <2>8
  <1> QED
    BY <1>1, <1>2, <1>3, <1>4, <1>5, <1>6, <1>7 DEF Commands

(* The outcome of the work changes the path, and only what is ahead of it. *)
LEMMA WorkFollows ==
  ASSUME NEW c \in Mutations, NEW outcome \in BOOLEAN,
         NEW i \in 1..Len(Path(c, TRUE)), Path(c, TRUE)[i] = "work"
  PROVE  /\ i + 1 \in 1..Len(Path(c, outcome))
         /\ Path(c, outcome)[i + 1] = Follows(c, outcome, "work")
  <1>1. CASE c = "create"
    <2>1. Len(Path("create", TRUE)) = 10 /\ i \in 1..10 /\ Path("create", TRUE)[i] = "work"
      BY <1>1, CreateSucceeds
    <2>2. i = 6
      <3>1. \/ i = 1 \/ i = 2 \/ i = 3 \/ i = 4 \/ i = 5 \/ i = 6 \/ i = 7 \/ i = 8 \/ i = 9
            \/ i = 10
        BY <2>1
      <3> QED
        BY <2>1, <3>1, CreateSucceeds
    <2>3. /\ Path("create", TRUE)[7] = Follows("create", TRUE, "work")
          /\ Path("create", FALSE)[7] = Follows("create", FALSE, "work")
          /\ Len(Path("create", FALSE)) = 9
      BY CreateSucceeds, CreateFails DEF Follows
    <2>4. i + 1 = 7 /\ 7 \in 1..10 /\ 7 \in 1..9
      BY <2>2
    <2>5. CASE outcome = TRUE
      BY <1>1, <2>1, <2>3, <2>4, <2>5
    <2>6. CASE outcome = FALSE
      BY <1>1, <2>3, <2>4, <2>6
    <2> QED
      BY <2>5, <2>6
  <1>2. CASE c = "delete"
    <2>1. Len(Path("delete", TRUE)) = 9 /\ i \in 1..9 /\ Path("delete", TRUE)[i] = "work"
      BY <1>2, DeleteSucceeds
    <2>2. i = 5
      <3>1. \/ i = 1 \/ i = 2 \/ i = 3 \/ i = 4 \/ i = 5 \/ i = 6 \/ i = 7 \/ i = 8 \/ i = 9
        BY <2>1
      <3> QED
        BY <2>1, <3>1, DeleteSucceeds
    <2>3. /\ Path("delete", TRUE)[6] = Follows("delete", TRUE, "work")
          /\ Path("delete", FALSE)[6] = Follows("delete", FALSE, "work")
          /\ Len(Path("delete", FALSE)) = 7
      BY DeleteSucceeds, DeleteFails DEF Follows
    <2>4. i + 1 = 6 /\ 6 \in 1..9 /\ 6 \in 1..7
      BY <2>2
    <2>5. CASE outcome = TRUE
      BY <1>2, <2>1, <2>3, <2>4, <2>5
    <2>6. CASE outcome = FALSE
      BY <1>2, <2>3, <2>4, <2>6
    <2> QED
      BY <2>5, <2>6
  <1>3. CASE c = "delete_keep"
    <2>1. Len(Path("delete_keep", TRUE)) = 8 /\ i \in 1..8 /\ Path("delete_keep", TRUE)[i] = "work"
      BY <1>3, KeepSucceeds
    <2>2. i = 5
      <3>1. \/ i = 1 \/ i = 2 \/ i = 3 \/ i = 4 \/ i = 5 \/ i = 6 \/ i = 7 \/ i = 8
        BY <2>1
      <3> QED
        BY <2>1, <3>1, KeepSucceeds
    <2>3. /\ Path("delete_keep", TRUE)[6] = Follows("delete_keep", TRUE, "work")
          /\ Path("delete_keep", FALSE)[6] = Follows("delete_keep", FALSE, "work")
          /\ Len(Path("delete_keep", FALSE)) = 7
      BY KeepSucceeds, KeepFails DEF Follows
    <2>4. i + 1 = 6 /\ 6 \in 1..8 /\ 6 \in 1..7
      BY <2>2
    <2>5. CASE outcome = TRUE
      BY <1>3, <2>1, <2>3, <2>4, <2>5
    <2>6. CASE outcome = FALSE
      BY <1>3, <2>3, <2>4, <2>6
    <2> QED
      BY <2>5, <2>6
  <1> QED
    BY <1>1, <1>2, <1>3

(* Where a command starts.                                                 *)
LEMMA PathBegins ==
  ASSUME NEW c \in Commands
  PROVE  /\ 1 \in 1..Len(Path(c, TRUE))
         /\ Path(c, TRUE)[1] = IF c = "cancel" THEN "pick" ELSE "load"
  <1>1. CASE c = "create"
    <2>1. Len(Path("create", TRUE)) = 10 /\ Path("create", TRUE)[1] = "load"
      BY CreateSucceeds
    <2>2. 1 \in 1..10
      OBVIOUS
    <2> QED
      BY <1>1, <2>1, <2>2
  <1>2. CASE c = "delete"
    <2>1. Len(Path("delete", TRUE)) = 9 /\ Path("delete", TRUE)[1] = "load"
      BY DeleteSucceeds
    <2>2. 1 \in 1..9
      OBVIOUS
    <2> QED
      BY <1>2, <2>1, <2>2
  <1>3. CASE c = "cancel"
    <2>1. Len(Path("cancel", TRUE)) = 2 /\ Path("cancel", TRUE)[1] = "pick"
      BY CancelPath
    <2>2. 1 \in 1..2
      OBVIOUS
    <2> QED
      BY <1>3, <2>1, <2>2
  <1>4. CASE c = "delete_keep"
    <2>1. Len(Path("delete_keep", TRUE)) = 8 /\ Path("delete_keep", TRUE)[1] = "load"
      BY KeepSucceeds
    <2>2. 1 \in 1..8
      OBVIOUS
    <2> QED
      BY <1>4, <2>1, <2>2
  <1> QED
    BY <1>1, <1>2, <1>3, <1>4 DEF Commands

-----------------------------------------------------------------------------
(* What a step does to the position of the process that takes it.          *)

(* The position of a process is one of its path.                           *)
At(p) == at[p] \in 1..Len(Path(cmd[p], ok[p]))

(* What the label of a process says of its command.                        *)
LEMMA LabelFacts ==
  ASSUME TypeOK, ControlInv, NEW p \in Procs
  PROVE  /\ Active(p) <=> Label(p) # "idle"
         /\ Active(p) => At(p) /\ Label(p) \in Names
         /\ cmd[p] = "cancel" => Label(p) \in {"pick", "close"}
         /\ cmd[p] # "create" => Label(p) \notin {"open", "bind"}
         /\ cmd[p] \notin Deletions => Label(p) # "reconcile"
         /\ cmd[p] = "delete_keep" => Label(p) # "settle"
         /\ ~ok[p] => Label(p) \notin {"bind", "reconcile"}
  <1>1. CASE ~Active(p)
    BY <1>1 DEF Active, Label
  <1>2. CASE Active(p)
    <2> DEFINE path == Path(cmd[p], ok[p])
    <2>1. cmd[p] \in Commands /\ ok[p] \in BOOLEAN /\ at[p] \in 1..Len(path)
      BY <1>2 DEF TypeOK, ControlInv, Control, Active, Commands
    <2>2. Label(p) = path[at[p]]
      BY <1>2 DEF Label, Active
    <2> HIDE DEF path
    <2>3. /\ path[at[p]] \in Names
          /\ cmd[p] = "cancel" => path[at[p]] \in {"pick", "close"}
          /\ cmd[p] # "create" => path[at[p]] \notin {"open", "bind"}
          /\ cmd[p] \notin Deletions => path[at[p]] # "reconcile"
          /\ cmd[p] = "delete_keep" => path[at[p]] # "settle"
          /\ ~ok[p] => path[at[p]] \notin {"bind", "reconcile"}
      BY <2>1, PathFollows DEF path
    <2>4. "idle" \notin Names
      BY DEF Names
    <2> QED
      BY <1>2, <2>1, <2>2, <2>3, <2>4 DEF At, path
  <1> QED
    BY <1>1, <1>2

LEMMA LabelsStay ==
  ASSUME UNCHANGED <<cmd, at, ok>>
  PROVE  \A q \in Procs : Label(q)' = Label(q)
  BY DEF Label

(* A process that ends is idle; no other process moves.                    *)
LEMMA Leaving ==
  ASSUME TypeOK, NEW p \in Procs, Ends(p)
  PROVE  Label(p)' = "idle" /\ \A q \in Procs \ {p} : Label(q)' = Label(q)
  BY DEF TypeOK, Ends, Label

(* A process that goes one position further has the label that follows.    *)
LEMMA Walking ==
  ASSUME TypeOK, ControlInv, NEW p \in Procs, Active(p), Label(p) # "close",
         at' = [at EXCEPT ![p] = @ + 1], UNCHANGED <<cmd, ok>>
  PROVE  /\ Label(p)' = Follows(cmd[p], ok[p], Label(p)) /\ At(p)'
         /\ at' \in [Procs -> 1..10]
         /\ \A q \in Procs \ {p} : Label(q)' = Label(q)
  <1> DEFINE path == Path(cmd[p], ok[p])
  <1>1. cmd[p] \in Commands /\ ok[p] \in BOOLEAN /\ at[p] \in 1..Len(path)
    BY DEF TypeOK, ControlInv, Control, Active, Commands
  <1>2. Label(p) = path[at[p]] /\ Label(p)' = path[at'[p]] /\ at'[p] = at[p] + 1
    BY DEF Label, Active, TypeOK
  <1>3. At(p)' <=> at'[p] \in 1..Len(path)
    BY DEF At
  <1> HIDE DEF path
  <1>4. /\ Len(path) \in 2..10
        /\ at[p] = Len(path) => path[at[p]] = "close"
        /\ at[p] < Len(path) => path[at[p] + 1] = Follows(cmd[p], ok[p], path[at[p]])
    BY <1>1, PathFollows DEF path
  <1>5. at[p] < Len(path) /\ at[p] + 1 \in 1..Len(path) /\ at[p] + 1 \in 1..10
    BY <1>1, <1>2, <1>4
  <1>6. at' \in [Procs -> 1..10]
    BY <1>5 DEF TypeOK
  <1>7. \A q \in Procs \ {p} : Label(q)' = Label(q)
    BY DEF Label, TypeOK
  <1> QED
    BY <1>2, <1>3, <1>4, <1>5, <1>6, <1>7

(* Advance ends a command exactly at "close".                              *)
LEMMA Advancing ==
  ASSUME TypeOK, ControlInv, NEW p \in Procs, Active(p), Advance(p)
  PROVE  \/ Label(p) = "close" /\ Ends(p)
         \/ /\ Label(p) # "close" /\ at' = [at EXCEPT ![p] = @ + 1]
            /\ UNCHANGED <<cmd, env, ok, job, cleanup, memory>>
  <1> DEFINE path == Path(cmd[p], ok[p])
  <1>1. cmd[p] \in Commands /\ ok[p] \in BOOLEAN /\ at[p] \in 1..Len(path)
    BY DEF TypeOK, ControlInv, Control, Active, Commands
  <1>2. Label(p) = path[at[p]]
    BY DEF Label, Active
  <1>3. \/ at[p] < Len(path) /\ at' = [at EXCEPT ![p] = @ + 1]
           /\ UNCHANGED <<cmd, env, ok, job, cleanup, memory>>
        \/ ~(at[p] < Len(path)) /\ Ends(p)
    BY DEF Advance, Ends
  <1> HIDE DEF path
  <1>4. /\ Len(path) \in 2..10
        /\ at[p] = Len(path) => path[at[p]] = "close"
        /\ at[p] < Len(path) => path[at[p]] # "close"
    BY <1>1, PathFollows DEF path
  <1>5. at[p] < Len(path) \/ at[p] = Len(path)
    BY <1>1, <1>4
  <1> QED
    BY <1>2, <1>3, <1>4, <1>5

(* After the work, the label that follows on the path of its outcome.      *)
LEMMA Working ==
  ASSUME TypeOK, ControlInv, NEW p \in Procs, NEW success \in BOOLEAN, Work(p, success)
  PROVE  /\ Label(p)' = Follows(cmd[p], success, "work") /\ At(p)' /\ Mutating(p)
         /\ at' \in [Procs -> 1..10]
         /\ \A q \in Procs \ {p} : Label(q)' = Label(q)
  <1>1. Active(p) /\ ok[p] = TRUE /\ cmd[p] \in Mutations
    BY LabelFacts DEF Work, TypeOK, ControlInv, Control, Active
  <1>2. at[p] \in 1..Len(Path(cmd[p], TRUE)) /\ Path(cmd[p], TRUE)[at[p]] = "work"
    BY <1>1 DEF ControlInv, Control, Label, Active, Work
  <1>3. /\ at[p] + 1 \in 1..Len(Path(cmd[p], success))
        /\ Path(cmd[p], success)[at[p] + 1] = Follows(cmd[p], success, "work")
    BY <1>1, <1>2, WorkFollows
  <1>4. /\ cmd'[p] = cmd[p] /\ ok'[p] = success /\ at'[p] = at[p] + 1
        /\ at' = [at EXCEPT ![p] = @ + 1]
    BY DEF Work, TypeOK
  <1>5. Label(p)' = Follows(cmd[p], success, "work") /\ At(p)'
    BY <1>1, <1>3, <1>4 DEF Label, At, Active
  <1>6. Len(Path(cmd[p], success)) \in 2..10
    BY <1>1, <1>3, PathFollows DEF Commands
  <1>7. at' \in [Procs -> 1..10]
    <2>1. at[p] + 1 \in 1..10
      BY <1>3, <1>6
    <2>2. at \in [Procs -> 1..10]
      BY DEF TypeOK
    <2> QED
      BY <1>4, <2>1, <2>2
  <1>8. \A q \in Procs \ {p} : Label(q)' = Label(q)
    BY DEF Label, TypeOK, Work
  <1> QED
    BY <1>1, <1>5, <1>7, <1>8 DEF Mutating

(* A command that starts is at the beginning of its path.                  *)
LEMMA Starting ==
  ASSUME TypeOK, ControlInv, NEW p \in Procs, NEW c \in Commands, NEW e \in Envs, Start(p, c, e)
  PROVE  /\ Label(p)' = IF c = "cancel" THEN "pick" ELSE "load"
         /\ At(p)'
         /\ \A q \in Procs \ {p} : Label(q)' = Label(q)
  <1>1. at'[p] = 1 /\ ok'[p] = TRUE /\ cmd'[p] = c
    BY DEF Start, TypeOK, ControlInv, Control
  <1>2. c # "none"
    BY DEF Commands
  <1>3. \A q \in Procs \ {p} : Label(q)' = Label(q)
    BY DEF Label, TypeOK, Start
  <1>4. Path(cmd[p], ok[p])' = Path(c, TRUE)
    BY <1>1
  <1>5. 1 \in 1..Len(Path(c, TRUE)) /\ Path(c, TRUE)[1] = IF c = "cancel" THEN "pick" ELSE "load"
    BY PathBegins
  <1> QED
    BY <1>1, <1>2, <1>3, <1>4, <1>5 DEF Label, At

-----------------------------------------------------------------------------
(* New identifiers.                                                        *)

(* A set of numbers that is not empty has a least one.                     *)
LEMMA LeastExists ==
  ASSUME NEW S \in SUBSET Nat, S # {}
  PROVE  \E m \in S : \A k \in S : m <= k
  <1> DEFINE R == OpToRel(<, Nat)
  <1>1. \E x \in S : \A y \in S : ~ (<<y, x>> \in R)
    BY NatLessThanWellFounded, WFMin
  <1>2. \A x, y \in Nat : <<y, x>> \in R <=> y < x
    BY DEF OpToRel
  <1> HIDE DEF R
  <1>3. PICK m \in S : \A y \in S : ~ (<<y, m>> \in R)
    BY <1>1
  <1>4. ASSUME NEW k \in S PROVE m <= k
    <2>1. ~(k < m)
      BY <1>2, <1>3
    <2> QED
      BY <2>1
  <1> QED
    BY <1>4

(* The identifiers in use are finitely many.                               *)
LEMMA UsedIsFinite ==
  ASSUME TypeOK
  PROVE  /\ Used \subseteq Jobs /\ IsFiniteSet(Jobs) /\ Cardinality(Jobs) = MaxCommands
         /\ IsFiniteSet(Used) /\ Cardinality(Used) \in Nat
  <1>1. IsFiniteSet(Jobs) /\ Cardinality(Jobs) = MaxCommands
    <2>1. /\ IsFiniteSet(1..MaxCommands)
          /\ Cardinality(1..MaxCommands) = IF 1 > MaxCommands THEN 0 ELSE MaxCommands - 1 + 1
      BY BoundsAssumption, FS_Interval
    <2> QED
      BY <2>1, BoundsAssumption DEF Jobs
  <1>2. Used \subseteq Jobs
    BY DEF Used
  <1> QED
    BY <1>1, <1>2, FS_Subset, FS_CardinalityType

(* A command that will take an identifier finds one, and the CHOOSE of     *)
(* Fresh is justified.                                                     *)
LEMMA FreshExists ==
  ASSUME TypeOK, FreshInv, NEW p \in Waiting
  PROVE  /\ Fresh \in Jobs /\ ledger[Fresh].status = "none" /\ \A q \in Procs : job[q] # Fresh
         /\ \A k \in Jobs : k < Fresh => ledger[k].status # "none" \/ \E q \in Procs : job[q] = k
  <1>1. Cardinality(Waiting) \in Nat /\ Cardinality(Waiting) # 0
    BY FS_CardinalityType, FS_EmptySet DEF FreshInv
  <1>2. Cardinality(Used) < MaxCommands
    <2>1. /\ Cardinality(Used) + Cardinality(Waiting) <= commands
          /\ commands \in 0..MaxCommands
      BY DEF FreshInv, TypeOK
    <2>2. Cardinality(Used) \in Nat /\ MaxCommands \in Nat
      BY UsedIsFinite, BoundsAssumption
    <2> QED
      BY <1>1, <2>1, <2>2
  <1>3. Used # Jobs
    BY <1>2, UsedIsFinite, BoundsAssumption
  <1>4. Jobs \ Used \in SUBSET Nat /\ Jobs \ Used # {}
    <2>1. Jobs \subseteq Nat
      BY BoundsAssumption DEF Jobs
    <2>2. Used \subseteq Jobs
      BY UsedIsFinite
    <2> QED
      BY <1>3, <2>1, <2>2
  <1>5. PICK m \in Jobs \ Used : \A k \in Jobs \ Used : m <= k
    BY <1>4, LeastExists
  <1>6. /\ m \in Jobs /\ ledger[m].status = "none" /\ \A q \in Procs : job[q] # m
        /\ \A k \in Jobs : k < m => ledger[k].status # "none" \/ \E q \in Procs : job[q] = k
    <2>1. ASSUME NEW k \in Jobs, k < m
          PROVE  k \in Used
      BY <1>5, <2>1, BoundsAssumption DEF Jobs
    <2> QED
      BY <1>5, <2>1 DEF Used
  <1> QED
    BY <1>6 DEF Fresh

(* Nothing is taken, nobody waits who did not.                             *)
LEMMA FreshStays ==
  ASSUME TypeOK, TypeOK', FreshInv, Used' \subseteq Used, Waiting' \subseteq Waiting,
         commands' >= commands
  PROVE  FreshInv'
  <1>1. Cardinality(Used') <= Cardinality(Used) /\ Cardinality(Used') \in Nat
    BY UsedIsFinite, FS_Subset, FS_CardinalityType
  <1>2. /\ IsFiniteSet(Waiting') /\ Cardinality(Waiting') \in Nat
        /\ Cardinality(Waiting') <= Cardinality(Waiting) /\ Cardinality(Waiting) \in Nat
    BY FS_Subset, FS_CardinalityType DEF FreshInv
  <1> QED
    BY <1>1, <1>2, UsedIsFinite, BoundsAssumption DEF FreshInv, TypeOK

(* One more waits, and one more command has started.                       *)
LEMMA FreshStarts ==
  ASSUME TypeOK, TypeOK', FreshInv, NEW p, Used' \subseteq Used, Waiting' \subseteq Waiting \cup {p},
         commands' = commands + 1
  PROVE  FreshInv'
  <1>1. Cardinality(Used') <= Cardinality(Used) /\ Cardinality(Used') \in Nat
    BY UsedIsFinite, FS_Subset, FS_CardinalityType
  <1>2. /\ IsFiniteSet(Waiting \cup {p})
        /\ Cardinality(Waiting \cup {p}) <= Cardinality(Waiting) + 1
        /\ Cardinality(Waiting \cup {p}) \in Nat /\ Cardinality(Waiting) \in Nat
    <2>1. IsFiniteSet(Waiting) /\ Cardinality(Waiting) \in Nat
      BY FS_CardinalityType DEF FreshInv
    <2>2. /\ IsFiniteSet(Waiting \cup {p})
          /\ Cardinality(Waiting \cup {p})
               = IF p \in Waiting THEN Cardinality(Waiting) ELSE Cardinality(Waiting) + 1
      BY <2>1, FS_AddElement
    <2> QED
      BY <2>1, <2>2
  <1>3. /\ IsFiniteSet(Waiting') /\ Cardinality(Waiting') \in Nat
        /\ Cardinality(Waiting') <= Cardinality(Waiting \cup {p})
    BY <1>2, FS_Subset, FS_CardinalityType
  <1> QED
    BY <1>1, <1>2, <1>3, UsedIsFinite, BoundsAssumption DEF FreshInv, TypeOK

(* One identifier is taken by one that waited for it.                      *)
LEMMA FreshPicks ==
  ASSUME TypeOK, TypeOK', FreshInv, NEW p \in Waiting, NEW j, Used' \subseteq Used \cup {j},
         Waiting' \subseteq Waiting \ {p}, commands' = commands
  PROVE  FreshInv'
  <1>1. /\ IsFiniteSet(Used \cup {j}) /\ Cardinality(Used \cup {j}) <= Cardinality(Used) + 1
        /\ Cardinality(Used \cup {j}) \in Nat
    <2>1. IsFiniteSet(Used) /\ Cardinality(Used) \in Nat
      BY UsedIsFinite
    <2>2. /\ IsFiniteSet(Used \cup {j})
          /\ Cardinality(Used \cup {j})
               = IF j \in Used THEN Cardinality(Used) ELSE Cardinality(Used) + 1
      BY <2>1, FS_AddElement
    <2> QED
      BY <2>1, <2>2
  <1>2. Cardinality(Used') <= Cardinality(Used \cup {j}) /\ Cardinality(Used') \in Nat
    BY <1>1, FS_Subset, FS_CardinalityType
  <1>3. /\ IsFiniteSet(Waiting \ {p}) /\ Cardinality(Waiting \ {p}) = Cardinality(Waiting) - 1
        /\ Cardinality(Waiting \ {p}) \in Nat /\ Cardinality(Waiting) \in Nat
    BY FS_RemoveElement, FS_CardinalityType DEF FreshInv
  <1>4. /\ IsFiniteSet(Waiting') /\ Cardinality(Waiting') \in Nat
        /\ Cardinality(Waiting') <= Cardinality(Waiting \ {p})
    BY <1>3, FS_Subset, FS_CardinalityType
  <1> QED
    BY <1>1, <1>2, <1>3, <1>4, UsedIsFinite, BoundsAssumption DEF FreshInv, TypeOK

-----------------------------------------------------------------------------
(* The branches of the actions.                                            *)

(* The process is gone, and what it had open with it.                      *)
Dies(p) ==
  /\ Active(p) /\ Ends(p)
  /\ appending' = appending \ {p} /\ written' = written \ {p}
  /\ fd' = [fd EXCEPT ![p] = "none"]
  /\ damaged' = (damaged \/ p \in appending) /\ collided' = (collided \/ p \in appending)
  /\ crashes' \in 0..MaxCrashes
  /\ UNCHANGED <<ledger, stateFile, tmpFile, commands, overlap, canceledOnce, quiet>>

(* The state is loaded.                                                    *)
Loads(p) ==
  /\ Label(p) = "load" /\ stateFile \in States
  /\ memory' = [memory EXCEPT ![p] = stateFile] /\ at' = [at EXCEPT ![p] = @ + 1]
  /\ UNCHANGED <<cmd, env, ok, job, cleanup, files, appending, fd, written, counters, history>>

(* A job j to write, and for a delete the jobs it has taken to reconcile.  *)
Picks(p, j, taken) ==
  /\ Label(p) = "pick"
  /\ \/ cmd[p] = "create" /\ j = Fresh /\ Unreconciled(env[p]) = {} /\ taken = {}
     \/ cmd[p] = "create" /\ j \in Lineages(env[p]) /\ Lineages(env[p]) = {j} /\ taken = {}
     \/ cmd[p] \in Deletions /\ memory[p][env[p]] # "absent" /\ j = Fresh
        /\ taken = Unreconciled(env[p])
     \/ cmd[p] = "cancel" /\ j \in Jobs /\ ledger[j].status \in {"running", "degraded"}
        /\ taken = {}
  /\ job' = [job EXCEPT ![p] = j] /\ at' = [at EXCEPT ![p] = @ + 1]
  /\ cleanup' = [cleanup EXCEPT ![p] = taken]
  /\ UNCHANGED <<cmd, env, ok, memory, files, appending, fd, written, counters, history>>

(* A line is complete: the command goes on,                                *)
Reports(p) ==
  /\ p \in appending /\ Label(p) \in {"announce", "begin", "report"}
  /\ ledger' = [ledger EXCEPT ![job[p]] = [env |-> env[p], kind |-> cmd[p], status |-> "running"]]
  /\ at' = [at EXCEPT ![p] = @ + 1] /\ appending' = appending \ {p}
  /\ UNCHANGED <<damaged, stateFile, tmpFile, cmd, env, ok, job, cleanup, memory, fd, written,
                 counters, history>>

(* or has reconciled one more job,                                         *)
Reconciles(p, j) ==
  /\ p \in appending /\ Label(p) = "reconcile" /\ j \in cleanup[p]
  /\ ledger' = [ledger EXCEPT ![j].status = "reconciled"]
  /\ cleanup' = [cleanup EXCEPT ![p] = @ \ {j}] /\ appending' = appending \ {p}
  /\ UNCHANGED <<damaged, stateFile, tmpFile, cmd, env, at, ok, job, memory, fd, written,
                 counters, history>>

(* or is over.                                                             *)
Closes(p) ==
  /\ p \in appending /\ Label(p) = "close" /\ Mutating(p) /\ Ends(p)
  /\ ledger' = [ledger EXCEPT ![job[p]] = [env |-> env[p], kind |-> cmd[p],
                  status |-> IF ok[p] THEN "succeeded" ELSE "degraded"]]
  /\ appending' = appending \ {p}
  /\ UNCHANGED <<damaged, stateFile, tmpFile, fd, written, counters, history>>

(* A line says that a job is canceled.                                     *)
Cancels(p) ==
  /\ p \in appending /\ Label(p) = "close" /\ cmd[p] = "cancel" /\ Ends(p)
  /\ ledger' = [ledger EXCEPT ![job[p]] = [env |-> ledger[job[p]].env,
                  kind |-> ledger[job[p]].kind, status |-> "canceled"]]
  /\ appending' = appending \ {p}
  /\ canceledOnce' = canceledOnce \cup {job[p]}
  /\ quiet' = quiet \cup {j \in {job[p]} : Holders(j) = {p}}
  /\ UNCHANGED <<damaged, stateFile, tmpFile, fd, written, counters, overlap, collided>>

(* The file that was saved has the name of the state file.                 *)
Renames(p) ==
  /\ p \in written /\ Active(p) /\ Label(p) \in SaveLabels /\ tmpFile # Unread("missing")
  /\ stateFile' = tmpFile /\ tmpFile' = Unread("missing")
  /\ written' = written \ {p}
  /\ fd' = [q \in Procs |-> IF q = p THEN "none" ELSE Moved[fd[q]]]
  /\ at' = [at EXCEPT ![p] = @ + 1]
  /\ UNCHANGED <<ledger, damaged, cmd, env, ok, job, cleanup, memory, appending, counters, history>>

(* Only a process inside an append, or a save, has one begun.              *)
LEMMA Idles ==
  ASSUME IInv, NEW p \in Procs
  PROVE  /\ Label(p) \notin AppendLabels => p \notin appending
         /\ Label(p) \notin SaveLabels => fd[p] = "none" /\ p \notin written
  BY DEF IInv, ControlInv, Control

(* The branches of each action: Load,                                      *)
LEMMA LoadCases ==
  ASSUME IInv, NEW p \in Procs, Load(p)
  PROVE  Loads(p) \/ Dies(p)
  <1>1. Active(p) /\ p \notin appending /\ fd[p] = "none" /\ p \notin written
    BY Idles, LabelFacts DEF IInv, Load, AppendLabels, SaveLabels
  <1> QED
    BY <1>1 DEF Load, Loads, Dies, IInv, TypeOK, files, counters, history

(* the three picks,                                                        *)
LEMMA PickCases ==
  ASSUME IInv, NEW p \in Procs, PickCreate(p) \/ PickDelete(p) \/ PickCancel(p)
  PROVE  Dies(p) \/ \E j, taken : Picks(p, j, taken)
  <1>1. Active(p) /\ p \notin appending /\ fd[p] = "none" /\ p \notin written
    BY Idles, LabelFacts DEF IInv, PickCreate, PickDelete, PickCancel, AppendLabels, SaveLabels
  <1>2. cmd[p] \notin Deletions => [cleanup EXCEPT ![p] = {}] = cleanup
    BY DEF IInv, ControlInv, Control, TypeOK
  <1>3. CASE Ends(p) /\ UNCHANGED <<files, appending, fd, written, counters, history>>
    BY <1>1, <1>3 DEF Dies, IInv, TypeOK, files, counters, history
  <1>4. ASSUME PickCreate(p), ~Ends(p)
        PROVE  \E j, taken : Picks(p, j, taken)
    <2>1. CASE Unreconciled(env[p]) = {} /\ Take(p, Fresh) /\ UNCHANGED cleanup
      <3>1. Picks(p, Fresh, {})
        BY <1>2, <1>4, <2>1 DEF PickCreate, Picks, Take
      <3> QED
        BY <3>1
    <2>2. ASSUME NEW j \in Lineages(env[p]), Take(p, j), UNCHANGED cleanup,
                 \A k, l \in Lineages(env[p]) : k = l
          PROVE  Picks(p, j, {})
      <3>1. Lineages(env[p]) = {j}
        BY <2>2
      <3> QED
        BY <1>2, <1>4, <2>2, <3>1 DEF PickCreate, Picks, Take
    <2> QED
      BY <1>4, <2>1, <2>2 DEF PickCreate
  <1>5. ASSUME PickDelete(p), ~Ends(p)
        PROVE  Picks(p, Fresh, Unreconciled(env[p]))
    BY <1>5 DEF PickDelete, Picks, Take
  <1>6. ASSUME PickCancel(p), ~Ends(p)
        PROVE  \E j : Picks(p, j, {})
    <2>1. PICK j \in Jobs : ledger[j].status \in {"running", "degraded"} /\ Take(p, j)
      BY <1>6 DEF PickCancel
    <2>2. Picks(p, j, {})
      BY <1>2, <1>6, <2>1 DEF PickCancel, Picks, Take
    <2> QED
      BY <2>2
  <1> QED
    BY <1>3, <1>4, <1>5, <1>6 DEF PickCreate, PickDelete, PickCancel

(* the end of an append,                                                   *)
LEMMA AppendCases ==
  ASSUME IInv, NEW p \in Procs, AppendEnds(p)
  PROVE  Reports(p) \/ (\E j : Reconciles(p, j)) \/ Closes(p) \/ Cancels(p)
  <1>1. /\ Active(p) /\ Label(p) \in AppendLabels /\ p \in appending
        /\ Label(p) = "reconcile" => cleanup[p] # {} /\ cmd[p] \in Deletions
        /\ cmd[p] = "cancel" => Label(p) = "close"
    BY LabelFacts DEF IInv, ControlInv, Control, AppendEnds, AppendLabels
  <1>2. cmd[p] # "cancel" => Mutating(p)
    BY <1>1 DEF IInv, TypeOK, Active, Mutating
  <1>3. CASE Label(p) = "reconcile"
    <2>1. cleanup[p] \in SUBSET Nat /\ cleanup[p] # {}
      BY <1>1, <1>3, BoundsAssumption DEF IInv, TypeOK, Jobs
    <2>2. Reconciled(p) \in cleanup[p]
      BY <2>1, LeastExists DEF Reconciled
    <2>3. Reconciles(p, Reconciled(p))
      BY <1>1, <1>3, <2>2 DEF AppendEnds, Reconciles, IInv, TypeOK, history
    <2> QED
      BY <2>3
  <1>4. CASE Label(p) = "close"
    <2>1. Ends(p)
      BY <1>1, <1>4, Advancing DEF IInv, AppendEnds
    <2>2. CASE cmd[p] = "cancel"
      <3>1. Snapshot(p) = [env |-> ledger[job[p]].env, kind |-> ledger[job[p]].kind,
                           status |-> "canceled"]
        BY <2>2 DEF Snapshot
      <3>2. /\ ledger' = [ledger EXCEPT ![job[p]] = Snapshot(p)]
            /\ appending' = appending \ {p}
            /\ UNCHANGED <<damaged, stateFile, tmpFile, fd, written, counters, overlap, collided>>
        BY <1>4 DEF AppendEnds
      <3>3. /\ canceledOnce' = canceledOnce \cup {job[p]}
            /\ quiet' = quiet \cup {j \in {job[p]} : Holders(j) = {p}}
        BY <2>2 DEF AppendEnds
      <3> QED
        BY <1>1, <1>4, <2>1, <2>2, <3>1, <3>2, <3>3 DEF Cancels
    <2>3. CASE cmd[p] # "cancel"
      <3>1. UNCHANGED <<canceledOnce, quiet>>
        BY <2>3 DEF AppendEnds
      <3> QED
        BY <1>1, <1>2, <1>4, <2>1, <2>3, <3>1 DEF AppendEnds, Closes, Snapshot, history
    <2> QED
      BY <2>2, <2>3
  <1>5. CASE Label(p) \in {"announce", "begin", "report"}
    <2>1. at' = [at EXCEPT ![p] = @ + 1] /\ UNCHANGED <<cmd, env, ok, job, cleanup, memory>>
      BY <1>1, <1>5, Advancing DEF IInv, AppendEnds
    <2>2. cmd[p] # "cancel" /\ UNCHANGED <<canceledOnce, quiet>>
      BY <1>1, <1>5 DEF AppendEnds
    <2>3. Snapshot(p) = [env |-> env[p], kind |-> cmd[p], status |-> "running"]
      BY <1>5, <2>2 DEF Snapshot
    <2>4. /\ ledger' = [ledger EXCEPT ![job[p]] = Snapshot(p)]
          /\ appending' = appending \ {p}
          /\ UNCHANGED <<damaged, stateFile, tmpFile, fd, written, counters, overlap, collided>>
      BY <1>5 DEF AppendEnds
    <2> QED
      BY <1>1, <1>5, <2>1, <2>2, <2>3, <2>4 DEF Reports, history
  <1> QED
    BY <1>1, <1>3, <1>4, <1>5 DEF AppendLabels

(* the rename of a save,                                                   *)
LEMMA RenameCases ==
  ASSUME IInv, NEW p \in Procs, SaveRenames(p)
  PROVE  Renames(p) \/ Dies(p)
  <1>1. /\ Label(p) \in SaveLabels /\ Label(p) # "close" /\ Active(p) /\ p \notin appending
    BY Idles, LabelFacts DEF IInv, ControlInv, Control, SaveRenames, SaveLabels, AppendLabels
  <1>2. CASE tmpFile = Unread("missing")
    BY <1>1, <1>2 DEF SaveRenames, Dies, IInv, TypeOK, counters, history
  <1>3. CASE tmpFile # Unread("missing")
    <2>1. at' = [at EXCEPT ![p] = @ + 1] /\ UNCHANGED <<cmd, env, ok, job, cleanup, memory>>
      BY <1>1, <1>3, Advancing DEF IInv, SaveRenames
    <2> QED
      BY <1>1, <1>3, <2>1 DEF SaveRenames, Renames
  <1> QED
    BY <1>2, <1>3

(* and a crash.                                                            *)
LEMMA CrashCases ==
  ASSUME IInv, NEW p \in Procs, Crash(p)
  PROVE  Dies(p)
  BY BoundsAssumption DEF Crash, Dies, IInv, TypeOK

(* What is derived from the ledger changes with it.                        *)
LEMMA LedgerStays ==
  ASSUME UNCHANGED ledger
  PROVE  \A e \in Envs : /\ Lineages(e)' = Lineages(e) /\ LatestJob(e)' = LatestJob(e)
                         /\ Settled(e)' = Settled(e)
  BY DEF Lineages, LatestJob, Settled

(* The constants of a process that does nothing.                           *)
LEMMA Blanks ==
  /\ AnyEnv \in Envs /\ NothingYet \in States
  /\ NoJob \notin Jobs /\ \A k \in Jobs : ~(k < NoJob)
  BY EnvsAssumption, BoundsAssumption DEF AnyEnv, NothingYet, States, NoJob, Jobs

(* What a process would save depends on its position, command and outcome. *)
LEMMA RecordedStays ==
  ASSUME TypeOK, NEW q \in Procs, Label(q)' = Label(q), cmd'[q] = cmd[q], ok'[q] = ok[q]
  PROVE  Recorded(q)' = Recorded(q)
  BY DEF Recorded

(* A line written for a job: other environments see nothing of it; a job   *)
(* that had a line is the last of its environment if it was before.        *)
LEMMA LedgerWritten ==
  ASSUME TypeOK, NEW j \in Jobs, NEW line \in [env : Envs, kind : Mutations, status : Statuses],
         ledger' = [ledger EXCEPT ![j] = line], line.status # "none",
         ledger[j].status # "none" => ledger[j].env = line.env
  PROVE  /\ \A e \in Envs \ {line.env} : /\ Lineages(e)' = Lineages(e) /\ LatestJob(e)' = LatestJob(e)
                                      /\ Settled(e)' = Settled(e)
         /\ Lineages(line.env)' \subseteq Lineages(line.env) \cup {j}
         /\ line.kind # "create" \/ line.status \notin {"running", "degraded"} =>
              Lineages(line.env)' \subseteq Lineages(line.env) \ {j}
         /\ ledger[j].status # "none" => LatestJob(line.env)' = LatestJob(line.env)
         /\ (\A k \in Jobs : ledger[k].status # "none" => k < j) => LatestJob(line.env)' \subseteq {j}
  <1>1. /\ ledger'[j] = line
        /\ \A k \in Jobs \ {j} : ledger'[k] = ledger[k]
    BY DEF TypeOK
  <1>2. \A e \in Envs \ {line.env} : Lineages(e)' = Lineages(e)
    BY <1>1 DEF Lineages
  <1>3. /\ Lineages(line.env)' \subseteq Lineages(line.env) \cup {j}
        /\ line.kind # "create" \/ line.status \notin {"running", "degraded"} =>
             Lineages(line.env)' \subseteq Lineages(line.env) \ {j}
    BY <1>1 DEF Lineages
  <1>4. \A e \in Envs \ {line.env}, k \in Jobs :
          (ledger'[k].env = e /\ ledger'[k].status # "none")
            <=> (ledger[k].env = e /\ ledger[k].status # "none")
    BY <1>1
  <1>5. \A e \in Envs \ {line.env} : LatestJob(e)' = LatestJob(e)
    BY <1>4 DEF LatestJob
  <1>6. \A e \in Envs \ {line.env} : Settled(e)' = Settled(e)
    <2>1. ASSUME NEW e \in Envs \ {line.env}, NEW k \in LatestJob(e)
          PROVE  k # j /\ k \in Jobs
      BY <1>4, <2>1, <1>1 DEF LatestJob
    <2> QED
      BY <1>1, <1>5, <2>1 DEF Settled
  <1>7. ASSUME ledger[j].status # "none"
        PROVE  LatestJob(line.env)' = LatestJob(line.env)
    <2>1. \A k \in Jobs :
            (ledger'[k].env = line.env /\ ledger'[k].status # "none")
              <=> (ledger[k].env = line.env /\ ledger[k].status # "none")
      BY <1>1, <1>7
    <2> QED
      BY <2>1 DEF LatestJob
  <1>8. ASSUME \A k \in Jobs : ledger[k].status # "none" => k < j
        PROVE  LatestJob(line.env)' \subseteq {j}
    <2>1. ASSUME NEW k \in LatestJob(line.env)', k # j
          PROVE  FALSE
      <3>1. k \in Jobs /\ ledger'[k].status # "none" /\ j <= k
        BY <1>1, <2>1 DEF LatestJob
      <3>2. k < j
        BY <1>1, <1>8, <2>1, <3>1
      <3> QED
        BY <3>1, <3>2, BoundsAssumption DEF Jobs
    <2> QED
      BY <2>1
  <1> QED
    BY <1>2, <1>3, <1>5, <1>6, <1>7, <1>8

(* A line written again as canceled or reconciled can only take away an    *)
(* unfinished creation, or a success.                                      *)
LEMMA LineWithdrawn ==
  ASSUME TypeOK, NEW j \in Jobs, ledger[j].status # "none", NEW status \in {"canceled", "reconciled"},
         ledger' = [ledger EXCEPT ![j] = [env |-> ledger[j].env, kind |-> ledger[j].kind,
                                          status |-> status]]
  PROVE  /\ ledger' \in [Jobs -> [env : Envs, kind : Mutations, status : Statuses]]
         /\ \A k \in Jobs : /\ ledger'[k].env = ledger[k].env /\ ledger'[k].kind = ledger[k].kind
                            /\ ledger'[k].status = IF k = j THEN status ELSE ledger[k].status
         /\ \A e \in Envs : /\ Lineages(e)' \subseteq Lineages(e) \ {j}
                            /\ LatestJob(e)' = LatestJob(e)
                            /\ Settled(e)' => Settled(e)
  <1>1. ledger' \in [Jobs -> [env : Envs, kind : Mutations, status : Statuses]]
    <2>1. [env |-> ledger[j].env, kind |-> ledger[j].kind, status |-> status]
            \in [env : Envs, kind : Mutations, status : Statuses]
      BY DEF TypeOK, Statuses
    <2> QED
      BY <2>1 DEF TypeOK
  <1>2. \A k \in Jobs : /\ ledger'[k].env = ledger[k].env /\ ledger'[k].kind = ledger[k].kind
                        /\ ledger'[k].status = IF k = j THEN status ELSE ledger[k].status
    BY DEF TypeOK
  <1>3. \A e \in Envs : Lineages(e)' \subseteq Lineages(e) \ {j}
    BY <1>2 DEF Lineages
  <1>4. \A e \in Envs : LatestJob(e)' = LatestJob(e)
    BY <1>2 DEF LatestJob
  <1>5. ASSUME NEW e \in Envs, Settled(e)'
        PROVE  Settled(e)
    <2>1. PICK k \in LatestJob(e)' : ledger'[k].status = "succeeded"
      BY <1>5 DEF Settled
    <2>2. k \in LatestJob(e) /\ k \in Jobs
      BY <1>4, <2>1 DEF LatestJob
    <2> QED
      BY <1>2, <2>1, <2>2 DEF Settled
  <1> QED
    BY <1>1, <1>2, <1>3, <1>4, <1>5

-----------------------------------------------------------------------------
(* One lemma for each branch.                                              *)

(* A process that is killed or stops with an error.                        *)
LEMMA DiesKeeps ==
  ASSUME IInv, NEW p \in Procs, Dies(p)
  PROVE  IInv'
  <1>1. /\ Label(p)' = "idle"
        /\ \A q \in Procs \ {p} : Label(q)' = Label(q)
    BY Leaving DEF IInv, Dies
  <1>2. \A e \in Envs : /\ Lineages(e)' = Lineages(e) /\ LatestJob(e)' = LatestJob(e)
                      /\ Settled(e)' = Settled(e)
    BY LedgerStays DEF Dies
  <1>3. \A q \in Procs \ {p} : Recorded(q)' = Recorded(q)
    BY <1>1, RecordedStays DEF IInv, TypeOK, Dies, Ends
  <1>4. TypeOK'
    BY Blanks, <1>1, <1>2, <1>3 DEF IInv, TypeOK, Statuses, Dies, Ends
  <1>5. FreshInv'
    <2>1. Used' \subseteq Used /\ Waiting' \subseteq Waiting /\ commands' >= commands
      BY Blanks, <1>1, <1>2, <1>3 DEF IInv, TypeOK, Used, Waiting, Mutating, Dies, Ends
    <2> QED
      BY <2>1, <1>4, FreshStays DEF IInv
  <1>6. ControlInv'
    BY Blanks, <1>1, <1>2, <1>3 DEF IInv, ControlInv, Control, TypeOK, Active, Dies, Ends
  <1>7. SaveInv'
    BY Blanks, <1>1, <1>2, <1>3 DEF IInv, SaveInv, TypeOK, Dies, Ends
  <1>8. AppendInv'
    BY Blanks, <1>1, <1>2, <1>3 DEF IInv, AppendInv, TypeOK, Dies, Ends
  <1>9. QuietInv'
    BY Blanks, <1>1, <1>2, <1>3 DEF IInv, QuietInv, TypeOK, Dies, Ends
  <1>10. AloneInv'
    BY Blanks, <1>1, <1>2, <1>3 DEF IInv, AloneInv, Mutating, TypeOK, Dies, Ends
  <1>11. HeldInv'
    BY Blanks, <1>1, <1>2, <1>3 DEF IInv, HeldInv, Held, AloneInv, Mutating, TypeOK, Dies,
           Ends
  <1>12. OrderInv'
    BY Blanks, <1>1, <1>2, <1>3 DEF IInv, OrderInv, AloneInv, Mutating, TypeOK, Dies, Ends
  <1>13. MemoryInv'
    BY Blanks, <1>1, <1>2, <1>3
       DEF IInv, MemoryInv, RecordFits, AloneInv, Mutating, TypeOK, Dies, Ends
  <1>14. LineageInv'
    BY Blanks, <1>1, <1>2, <1>3 DEF IInv, LineageInv, AloneInv, Mutating, TypeOK, Dies, Ends
  <1>15. VerdictsAreRecorded'
    BY Blanks, <1>1, <1>2, <1>3 DEF IInv, VerdictsAreRecorded, RecordFits, Dies, Ends
  <1> QED
    BY <1>4, <1>5, <1>6, <1>7, <1>8, <1>9, <1>10, <1>11, <1>12, <1>13, <1>14, <1>15 DEF IInv

(* A command starts: it has nothing in hand.                               *)
LEMMA StartKeeps ==
  ASSUME IInv, NEW p \in Procs, NEW c \in Commands, NEW e \in Envs, Start(p, c, e)
  PROVE  IInv'
  <1>1. /\ Label(p)' = IF c = "cancel" THEN "pick" ELSE "load"
        /\ At(p)'
        /\ \A q \in Procs \ {p} : Label(q)' = Label(q)
    BY Starting DEF IInv
  <1>2. \A f \in Envs : /\ Lineages(f)' = Lineages(f) /\ LatestJob(f)' = LatestJob(f)
                      /\ Settled(f)' = Settled(f)
    BY LedgerStays DEF Start, files
  <1>3. \A q \in Procs \ {p} : Recorded(q)' = Recorded(q)
    BY <1>1, RecordedStays DEF IInv, TypeOK, Start
  <1>4. /\ Label(p) = "idle" /\ job[p] = NoJob /\ cleanup[p] = {} /\ fd[p] = "none"
        /\ p \notin written /\ p \notin appending
    BY LabelFacts, Idles DEF IInv, ControlInv, Control, Start, AppendLabels, SaveLabels
  <1>5. TypeOK'
    <2>1. cmd' \in [Procs -> Mutations \cup {"none", "cancel"}] /\ env' \in [Procs -> Envs]
      BY DEF IInv, TypeOK, Start, Commands
    <2>2. commands' \in 0..MaxCommands
      BY BoundsAssumption DEF IInv, TypeOK, Start
    <2>3. overlap' \in BOOLEAN
      BY DEF Start
    <2> QED
      BY <2>1, <2>2, <2>3 DEF IInv, TypeOK, Start, files
  <1>6. FreshInv'
    <2>1. Used' \subseteq Used /\ Waiting' \subseteq Waiting \cup {p} /\ commands' = commands + 1
      BY DEF IInv, TypeOK, Used, Waiting, Mutating, Start, files
    <2> QED
      BY <2>1, <1>5, FreshStarts DEF IInv
  <1>7. ControlInv'
    BY Blanks, <1>1, <1>2, <1>3, <1>4 DEF IInv, ControlInv, Control, TypeOK, Active, Start,
           files, Commands, At
  <1>8. SaveInv'
    BY Blanks, <1>1, <1>2, <1>3, <1>4 DEF IInv, SaveInv, TypeOK, Start, files, Commands, At
  <1>9. AppendInv'
    BY Blanks, <1>1, <1>2, <1>3, <1>4 DEF IInv, AppendInv, TypeOK, Start, files, Commands,
           At
  <1>10. QuietInv'
    BY Blanks, <1>1, <1>2, <1>3, <1>4 DEF IInv, QuietInv, TypeOK, Start, files, Commands, At
  <1>11. AloneInv'
    <2>1. ~overlap' => ~overlap /\ (c = "cancel" \/ \A q \in Procs : ~Mutating(q))
      BY DEF Start
    <2>2. \A q \in Procs : Mutating(q)' => Mutating(q) \/ (q = p /\ c # "cancel")
      BY DEF IInv, TypeOK, Start, Mutating, Commands
    <2> QED
      BY <2>1, <2>2 DEF IInv, AloneInv
  <1>12. HeldInv'
    BY Blanks, <1>1, <1>2, <1>3, <1>4 DEF IInv, HeldInv, Held, AloneInv, Mutating, TypeOK,
           Start, files, Commands, At
  <1>13. OrderInv'
    BY Blanks, <1>1, <1>2, <1>3, <1>4 DEF IInv, OrderInv, AloneInv, Mutating, TypeOK, Start,
           files, Commands, At
  <1>14. MemoryInv'
    BY Blanks, <1>1, <1>2, <1>3, <1>4
       DEF IInv, MemoryInv, RecordFits, AloneInv, Mutating, TypeOK, Start, files, Commands, At
  <1>15. LineageInv'
    BY Blanks, <1>1, <1>2, <1>3, <1>4 DEF IInv, LineageInv, AloneInv, Mutating, TypeOK,
           Start, files, Commands, At
  <1>16. VerdictsAreRecorded'
    BY Blanks, <1>1, <1>2, <1>3, <1>4
       DEF IInv, VerdictsAreRecorded, RecordFits, Start, files, Commands, At
  <1> QED
    BY <1>5, <1>6, <1>7, <1>8, <1>9, <1>10, <1>11, <1>12, <1>13, <1>14, <1>15, <1>16 DEF
           IInv

(* The memory is the state file.                                           *)
LEMMA LoadsKeeps ==
  ASSUME IInv, NEW p \in Procs, Loads(p)
  PROVE  IInv'
  <1>1. /\ Label(p)' = "pick" /\ At(p)' /\ at' \in [Procs -> 1..10] /\ Mutating(p)
        /\ \A q \in Procs \ {p} : Label(q)' = Label(q)
    <2>1. Active(p) /\ cmd[p] # "cancel"
      BY LabelFacts DEF IInv, Loads
    <2>2. Mutating(p)
      BY <2>1 DEF IInv, TypeOK, Active, Mutating
    <2> QED
      BY <2>1, <2>2, Walking DEF IInv, Loads, Follows
  <1>2. \A e \in Envs : /\ Lineages(e)' = Lineages(e) /\ LatestJob(e)' = LatestJob(e)
                      /\ Settled(e)' = Settled(e)
    BY LedgerStays DEF Loads, files
  <1>3. \A q \in Procs \ {p} : Recorded(q)' = Recorded(q)
    BY <1>1, RecordedStays DEF IInv, TypeOK, Loads
  <1>4. fd[p] = "none" /\ p \notin written /\ p \notin appending
    BY Idles DEF Loads, AppendLabels, SaveLabels
  <1>5. TypeOK'
    BY <1>1, <1>2, <1>3, <1>4 DEF IInv, TypeOK, Statuses, Loads, files, counters, history,
           At
  <1>6. FreshInv'
    <2>1. Used' \subseteq Used /\ Waiting' \subseteq Waiting /\ commands' >= commands
      BY <1>1, <1>2, <1>3, <1>4 DEF IInv, TypeOK, Used, Waiting, Mutating, Loads, files,
             counters, history, At
    <2> QED
      BY <2>1, <1>5, FreshStays DEF IInv
  <1>7. ControlInv'
    <2>1. ASSUME NEW q \in Procs \ {p}
          PROVE  Control(q)'
      <3>1. Control(q)
        BY DEF IInv, ControlInv
      <3>2. /\ Active(q)' = Active(q) /\ cmd'[q] = cmd[q] /\ ok'[q] = ok[q] /\ at'[q] = at[q]
            /\ job'[q] = job[q] /\ cleanup'[q] = cleanup[q]
            /\ fd'[q] = fd[q] /\ (q \in written' <=> q \in written)
            /\ (q \in appending' <=> q \in appending) /\ Label(q)' = Label(q)
        BY <1>1, <1>2, <1>3, <1>4 DEF IInv, TypeOK, Active, Loads, files, counters, history
      <3> QED
        BY <3>1, <3>2 DEF Control
    <2>2. Control(p)'
      BY <1>1, <1>2, <1>3, <1>4 DEF IInv, ControlInv, Control, TypeOK, Active, Mutating,
             Loads, files, counters, history, At
    <2> QED
      BY <2>1, <2>2 DEF ControlInv
  <1>8. SaveInv'
    BY <1>1, <1>2, <1>3, <1>4 DEF IInv, SaveInv, TypeOK, Loads, files, counters, history, At
  <1>9. AppendInv'
    BY <1>1, <1>2, <1>3, <1>4 DEF IInv, AppendInv, TypeOK, Loads, files, counters, history,
           At
  <1>10. QuietInv'
    BY <1>1, <1>2, <1>3, <1>4 DEF IInv, QuietInv, TypeOK, Loads, files, counters, history,
           At
  <1>11. AloneInv'
    BY <1>1, <1>2, <1>3, <1>4 DEF IInv, AloneInv, Mutating, TypeOK, Loads, files, counters,
           history, At
  <1>12. HeldInv'
    BY <1>1, <1>2, <1>3, <1>4 DEF IInv, HeldInv, Held, AloneInv, Mutating, TypeOK, Loads,
           files, counters, history, At
  <1>13. OrderInv'
    BY <1>1, <1>2, <1>3, <1>4 DEF IInv, OrderInv, AloneInv, Mutating, TypeOK, Loads, files,
           counters, history, At
  <1>14. MemoryInv'
    BY <1>1, <1>2, <1>3, <1>4
       DEF IInv, MemoryInv, RecordFits, AloneInv, Mutating, TypeOK, Loads, files, counters,
           history, At
  <1>15. LineageInv'
    BY <1>1, <1>2, <1>3, <1>4 DEF IInv, LineageInv, AloneInv, Mutating, TypeOK, Loads,
           files, counters, history, At
  <1>16. VerdictsAreRecorded'
    BY <1>1, <1>2, <1>3, <1>4 DEF IInv, VerdictsAreRecorded, RecordFits, Loads, files, counters,
           history, At
  <1> QED
    BY <1>5, <1>6, <1>7, <1>8, <1>9, <1>10, <1>11, <1>12, <1>13, <1>14, <1>15, <1>16 DEF
           IInv

(* A new identifier, or the unfinished job of the environment.             *)
LEMMA PicksKeeps ==
  ASSUME IInv, NEW p \in Procs, NEW j, NEW taken, Picks(p, j, taken)
  PROVE  IInv'
  <1>1. /\ Label(p)' = IF cmd[p] = "cancel" THEN "close" ELSE "announce"
        /\ At(p)' /\ at' \in [Procs -> 1..10] /\ Active(p)
        /\ \A q \in Procs \ {p} : Label(q)' = Label(q)
    <2>1. Active(p)
      BY LabelFacts DEF IInv, Picks
    <2> QED
      BY <2>1, Walking DEF IInv, Picks, Follows
  <1>2. \A e \in Envs : /\ Lineages(e)' = Lineages(e) /\ LatestJob(e)' = LatestJob(e)
                      /\ Settled(e)' = Settled(e)
    BY LedgerStays DEF Picks, files
  <1>3. /\ job[p] = NoJob /\ ok[p] /\ fd[p] = "none" /\ p \notin written /\ p \notin appending
    BY <1>1, Idles DEF IInv, ControlInv, Control, Picks, AppendLabels, SaveLabels
  <1>4. /\ cmd[p] \in Mutations /\ j = Fresh =>
             /\ p \in Waiting /\ j \in Jobs /\ ledger[j].status = "none"
             /\ \A q \in Procs : job[q] # j
             /\ \A k \in Jobs : k < j => ledger[k].status # "none" \/ \E q \in Procs : job[q] = k
    <2>1. cmd[p] \in Mutations => p \in Waiting
      BY <1>3 DEF Waiting, Mutating
    <2> QED
      BY <2>1, FreshExists DEF IInv
  <1>5. /\ j \in Jobs /\ taken \in SUBSET Jobs
        /\ \A k \in taken : ledger[k].status # "none"
        /\ cmd[p] = "cancel" => ledger[j].status \in {"running", "degraded"}
    BY <1>4 DEF Picks, Lineages, Unreconciled
  <1>6. \A q \in Procs \ {p} : Recorded(q)' = Recorded(q)
    BY <1>1, RecordedStays DEF IInv, TypeOK, Picks
  <1>7. TypeOK'
    BY Blanks, <1>1, <1>2, <1>3, <1>4, <1>5, <1>6 DEF IInv, TypeOK, Statuses, Picks, files,
           counters, history, At, Active
  <1>8. FreshInv'
    <2>1. CASE cmd[p] # "cancel"
      <3>1. p \in Waiting
        BY <1>1, <1>3, <2>1 DEF Waiting, Mutating, Active, IInv, TypeOK
      <3>2. Used' \subseteq Used \cup {j} /\ Waiting' \subseteq Waiting \ {p}
        BY Blanks, <1>5 DEF Used, Waiting, Mutating, Picks, files, IInv, TypeOK
      <3> QED
        BY <3>1, <3>2, <1>7, FreshPicks DEF IInv, Picks, counters
    <2>2. CASE cmd[p] = "cancel"
      <3>1. Used' \subseteq Used /\ Waiting' \subseteq Waiting
        BY Blanks, <1>5, <2>2 DEF Used, Waiting, Mutating, Picks, files, IInv, TypeOK
      <3>2. commands' >= commands
        BY BoundsAssumption DEF IInv, TypeOK, Picks, counters
      <3> QED
        BY <3>1, <3>2, <1>7, FreshStays DEF IInv
    <2> QED
      BY <2>1, <2>2
  <1>9. ControlInv'
    <2>1. ASSUME NEW q \in Procs \ {p}
          PROVE  Control(q)'
      <3>1. Control(q)
        BY DEF IInv, ControlInv
      <3>2. /\ Active(q)' = Active(q) /\ cmd'[q] = cmd[q] /\ ok'[q] = ok[q] /\ at'[q] = at[q]
            /\ job'[q] = job[q] /\ cleanup'[q] = cleanup[q]
            /\ fd'[q] = fd[q] /\ (q \in written' <=> q \in written)
            /\ (q \in appending' <=> q \in appending) /\ Label(q)' = Label(q)
        BY Blanks, <1>1, <1>2, <1>3, <1>4, <1>5, <1>6 DEF IInv, TypeOK, Active, Picks,
               files, counters, history
      <3> QED
        BY <3>1, <3>2 DEF Control
    <2>2. Control(p)'
      BY Blanks, <1>1, <1>2, <1>3, <1>4, <1>5, <1>6 DEF IInv, ControlInv, Control, TypeOK,
             Active, Mutating, Picks, files, counters, history, At
    <2> QED
      BY <2>1, <2>2 DEF ControlInv
  <1>10. SaveInv'
    BY Blanks, <1>1, <1>2, <1>3, <1>4, <1>5, <1>6 DEF IInv, SaveInv, TypeOK, Picks, files,
           counters, history, At, Active
  <1>11. AppendInv'
    BY Blanks, <1>1, <1>2, <1>3, <1>4, <1>5, <1>6 DEF IInv, AppendInv, TypeOK, Picks, files,
           counters, history, At, Active
  <1>12. QuietInv'
    <2>1. ledger[j].status \notin {"canceled", "reconciled"}
      BY <1>4 DEF Picks, Lineages
    <2> QED
      BY <2>1 DEF IInv, QuietInv, TypeOK, Picks, files, history
  <1>13. AloneInv'
    BY Blanks, <1>1, <1>2, <1>3, <1>4, <1>5, <1>6 DEF IInv, AloneInv, Mutating, TypeOK,
           Picks, files, counters, history, At, Active
  <1>14. HeldInv'
    <2>1. ASSUME NEW q \in Procs \ {p}
          PROVE  Held(q)'
      BY <1>1, <2>1 DEF IInv, HeldInv, Held, TypeOK, Mutating, Picks, files, history
    <2>2. Mutating(p) /\ ledger[j].status # "none" => ledger[j].env = env[p] /\ ledger[j].kind = cmd[p]
      BY <1>4 DEF Picks, Lineages, Mutating
    <2>3. Held(p)'
      BY <1>1, <1>5, <2>2 DEF IInv, Held, TypeOK, Mutating, Picks, files, history
    <2> QED
      BY <2>1, <2>3 DEF HeldInv
  <1>15. OrderInv'
    <2>1. ASSUME ~overlap, Mutating(p), NEW k \in Jobs, k < j
          PROVE  ledger[k].status # "none"
      <3>1. CASE j = Fresh
        <4>1. ASSUME NEW q \in Procs, job[q] = k
              PROVE  ledger[k].status # "none"
          <5>1. q # p /\ k # NoJob
            BY Blanks, <1>3, <4>1
          <5>2. cmd[q] = "cancel"
            BY <2>1, <4>1, <5>1
               DEF IInv, AloneInv, ControlInv, Control, Active, Mutating, TypeOK
          <5> QED
            BY <4>1, <5>1, <5>2 DEF IInv, HeldInv, Held
        <4> QED
          BY <1>4, <2>1, <3>1, <4>1 DEF Mutating
      <3>2. CASE j \in Lineages(env[p])
        BY <2>1, <3>2 DEF IInv, OrderInv, Lineages
      <3> QED
        BY <2>1, <3>1, <3>2 DEF Picks, Mutating
    <2>2. \A q \in Procs : job'[q] = IF q = p THEN j ELSE job[q]
      BY DEF Picks, IInv, TypeOK
    <2> QED
      BY <2>1, <2>2 DEF IInv, OrderInv, Mutating, Picks, files, history
  <1>16. MemoryInv'
    BY Blanks, <1>1, <1>2, <1>3, <1>4, <1>5, <1>6
       DEF IInv, MemoryInv, RecordFits, AloneInv, Mutating, TypeOK, Picks, files, counters,
           history, At, Active
  <1>17. LineageInv'
    <2>1. ASSUME Mutating(p)
          PROVE  /\ ledger[j].status # "none" => Lineages(env[p]) # {}
                 /\ Lineages(env[p]) \subseteq taken \cup {j}
      BY <1>4, <2>1 DEF Picks, Unreconciled, Mutating
    <2>2. ASSUME ~overlap, NEW q \in Procs, Mutating(q)', job'[q] # NoJob
          PROVE  /\ ledger[job'[q]].status # "none" => ~Settled(env[q])
                 /\ Lineages(env[q]) \subseteq cleanup'[q] \cup {job'[q]}
                 /\ cmd[q] \in Deletions /\ ok[q] /\ Label(q)' \in {"settle", "close"}
                      => cleanup'[q] = {}
      <3>1. CASE q = p
        BY <1>1, <2>1, <2>2, <3>1 DEF IInv, LineageInv, TypeOK, Picks, Mutating
      <3>2. CASE q # p
        BY <1>1, <2>2, <3>2 DEF IInv, LineageInv, TypeOK, Picks, Mutating
      <3> QED
        BY <3>1, <3>2
    <2> QED
      BY <1>2, <2>2 DEF IInv, LineageInv, Picks, files, history, TypeOK
  <1>18. VerdictsAreRecorded'
    BY Blanks, <1>1, <1>2, <1>3, <1>4, <1>5, <1>6
       DEF IInv, VerdictsAreRecorded, RecordFits, Picks, files, counters, history, At, Active
  <1> QED
    BY <1>7, <1>8, <1>9, <1>10, <1>11, <1>12, <1>13, <1>14, <1>15, <1>16, <1>17, <1>18 DEF
           IInv

(* A line is begun: two at once collide.                                   *)
LEMMA AppendBeginsKeeps ==
  ASSUME IInv, NEW p \in Procs, AppendBegins(p)
  PROVE  IInv'
  <1>1. \A q \in Procs : Label(q)' = Label(q)
    BY LabelsStay DEF AppendBegins, process
  <1>2. \A e \in Envs : /\ Lineages(e)' = Lineages(e) /\ LatestJob(e)' = LatestJob(e)
                      /\ Settled(e)' = Settled(e)
    BY LedgerStays DEF AppendBegins
  <1>3. \A q \in Procs : Recorded(q)' = Recorded(q)
    BY <1>1, RecordedStays DEF IInv, TypeOK, AppendBegins, process
  <1>4. TypeOK'
    BY <1>1, <1>2, <1>3 DEF IInv, TypeOK, Statuses, AppendBegins, process, counters
  <1>5. FreshInv'
    <2>1. Used' \subseteq Used /\ Waiting' \subseteq Waiting /\ commands' >= commands
      BY <1>1, <1>2, <1>3 DEF IInv, TypeOK, Used, Waiting, Mutating, AppendBegins, process,
             counters
    <2> QED
      BY <2>1, <1>4, FreshStays DEF IInv
  <1>6. ControlInv'
    BY <1>1, <1>2, <1>3 DEF IInv, ControlInv, Control, TypeOK, Active, AppendBegins,
           process, counters
  <1>7. SaveInv'
    BY <1>1, <1>2, <1>3 DEF IInv, SaveInv, TypeOK, AppendBegins, process, counters
  <1>8. AppendInv'
    BY <1>1, <1>2, <1>3 DEF IInv, AppendInv, TypeOK, AppendBegins, process, counters
  <1>9. QuietInv'
    BY <1>1, <1>2, <1>3 DEF IInv, QuietInv, TypeOK, AppendBegins, process, counters
  <1>10. AloneInv'
    BY <1>1, <1>2, <1>3 DEF IInv, AloneInv, Mutating, TypeOK, AppendBegins, process,
           counters
  <1>11. HeldInv'
    BY <1>1, <1>2, <1>3 DEF IInv, HeldInv, Held, AloneInv, Mutating, TypeOK, AppendBegins,
           process, counters
  <1>12. OrderInv'
    BY <1>1, <1>2, <1>3 DEF IInv, OrderInv, AloneInv, Mutating, TypeOK, AppendBegins,
           process, counters
  <1>13. MemoryInv'
    BY <1>1, <1>2, <1>3
       DEF IInv, MemoryInv, RecordFits, AloneInv, Mutating, TypeOK, AppendBegins, process,
           counters
  <1>14. LineageInv'
    BY <1>1, <1>2, <1>3 DEF IInv, LineageInv, AloneInv, Mutating, TypeOK, AppendBegins,
           process, counters
  <1>15. VerdictsAreRecorded'
    BY <1>1, <1>2, <1>3
       DEF IInv, VerdictsAreRecorded, RecordFits, AppendBegins, process, counters
  <1> QED
    BY <1>4, <1>5, <1>6, <1>7, <1>8, <1>9, <1>10, <1>11, <1>12, <1>13, <1>14, <1>15 DEF IInv

(* The job runs: it is now the last of its environment and not finished.   *)
LEMMA ReportsKeeps ==
  ASSUME IInv, NEW p \in Procs, Reports(p)
  PROVE  IInv'
  <1>1. /\ Active(p) /\ Mutating(p)
        /\ Label(p)' = Follows(cmd[p], ok[p], Label(p))
        /\ At(p)' /\ at' \in [Procs -> 1..10]
        /\ \A q \in Procs \ {p} : Label(q)' = Label(q)
    <2>1. Active(p) /\ Mutating(p)
      BY LabelFacts DEF IInv, Reports, TypeOK, Active, Mutating
    <2> QED
      BY <2>1, Walking DEF IInv, Reports
  <1>2. job[p] \in Jobs
    BY <1>1 DEF IInv, ControlInv, Control, TypeOK, Reports
  <1>3. \A q \in Procs \ {p} : Recorded(q)' = Recorded(q)
    BY <1>1, RecordedStays DEF IInv, TypeOK, Reports
  <1>4. fd[p] = "none" /\ p \notin written
    BY Idles DEF Reports, SaveLabels
  <1>5. PICK line : line = [env |-> env[p], kind |-> cmd[p], status |-> "running"]
    OBVIOUS
  <1>6. PICK j : j = job[p]
    OBVIOUS
  <1>7. /\ line \in [env : Envs, kind : Mutations, status : Statuses]
        /\ line.env = env[p] /\ line.status = "running" /\ env' = env /\ job' = job
        /\ ledger' = [ledger EXCEPT ![j] = line]
        /\ ledger' \in [Jobs -> [env : Envs, kind : Mutations, status : Statuses]]
        /\ ledger'[j] = line /\ j \in Jobs
        /\ \A k \in Jobs \ {j} : ledger'[k] = ledger[k]
    BY <1>1, <1>2, <1>5, <1>6 DEF IInv, TypeOK, Statuses, Reports, Mutating
  <1>8. ASSUME ~overlap
        PROVE  /\ \A e \in Envs \ {line.env} : /\ Lineages(e)' = Lineages(e)
                                               /\ LatestJob(e)' = LatestJob(e)
                                               /\ Settled(e)' = Settled(e)
               /\ Lineages(line.env)' \subseteq Lineages(line.env) \cup {j}
               /\ ~Settled(line.env)'
    <2>1. ledger[j].status # "none" => ledger[j].env = line.env
      BY <1>1, <1>6, <1>7, <1>8, Blanks DEF IInv, HeldInv, Held
    <2>2. /\ \A e \in Envs \ {line.env} : /\ Lineages(e)' = Lineages(e)
                                          /\ LatestJob(e)' = LatestJob(e)
                                          /\ Settled(e)' = Settled(e)
          /\ Lineages(line.env)' \subseteq Lineages(line.env) \cup {j}
          /\ ledger[j].status # "none" => LatestJob(line.env)' = LatestJob(line.env)
          /\ (\A k \in Jobs : ledger[k].status # "none" => k < j)
               => LatestJob(line.env)' \subseteq {j}
      BY <1>7, <2>1, LedgerWritten DEF IInv
    <2>3. ~Settled(line.env)'
      <3>1. CASE ledger[j].status # "none"
        <4>1. ~Settled(line.env)
          BY <1>1, <1>6, <1>7, <1>8, <3>1, Blanks DEF IInv, LineageInv
        <4>2. LatestJob(line.env)' = LatestJob(line.env) /\ LatestJob(line.env) \subseteq Jobs
          BY <2>2, <3>1 DEF LatestJob
        <4>3. \A k \in Jobs : ledger'[k].status = "succeeded" => ledger[k].status = "succeeded"
          BY <1>7
        <4> QED
          BY <4>1, <4>2, <4>3 DEF Settled
      <3>2. CASE ledger[j].status = "none"
        <4>1. ASSUME NEW k \in Jobs, ledger[k].status # "none"
              PROVE  k < j
          <5>1. ~(j < k)
            BY <1>7, <1>8, <3>2, <4>1 DEF IInv, OrderInv
          <5> QED
            BY <1>7, <3>2, <4>1, <5>1, BoundsAssumption DEF Jobs
        <4>2. LatestJob(line.env)' \subseteq {j}
          BY <2>2, <4>1
        <4> QED
          BY <1>7, <4>2 DEF Settled
      <3> QED
        BY <3>1, <3>2
    <2> QED
      BY <2>2, <2>3
  <1>9. TypeOK'
    BY <1>1, <1>7 DEF IInv, TypeOK, Reports, counters, history
  <1>10. FreshInv'
    <2>1. Used' \subseteq Used /\ Waiting' \subseteq Waiting /\ commands' >= commands
      BY <1>1, <1>2, <1>3, <1>4 DEF IInv, TypeOK, Used, Waiting, Mutating, Reports,
             counters, history, At, Active, Follows
    <2> QED
      BY <2>1, <1>9, FreshStays DEF IInv
  <1>11. ControlInv'
    BY <1>1, <1>2, <1>3, <1>4 DEF IInv, ControlInv, Control, TypeOK, Active, Reports,
           counters, history, At, Active, Follows
  <1>12. SaveInv'
    BY <1>1, <1>2, <1>3, <1>4 DEF IInv, SaveInv, TypeOK, Reports, counters, history, At,
           Active, Follows
  <1>13. AppendInv'
    BY <1>1, <1>2, <1>3, <1>4 DEF IInv, AppendInv, TypeOK, Reports, counters, history, At,
           Active, Follows
  <1>14. QuietInv'
    BY <1>1, <1>2, <1>3, <1>4 DEF IInv, QuietInv, TypeOK, Reports, counters, history, At,
           Active, Follows
  <1>15. AloneInv'
    BY <1>1, <1>2, <1>3, <1>4 DEF IInv, AloneInv, Mutating, TypeOK, Reports, counters,
           history, At, Active, Follows
  <1>16. HeldInv'
    BY <1>1, <1>2, <1>3, <1>4 DEF IInv, HeldInv, Held, AloneInv, Mutating, TypeOK, Reports,
           counters, history, At, Active, Follows
  <1>17. OrderInv'
    BY <1>1, <1>2, <1>3, <1>4 DEF IInv, OrderInv, AloneInv, Mutating, TypeOK, Reports,
           counters, history, At, Active, Follows
  <1>18. MemoryInv'
    BY <1>1, <1>2, <1>3, <1>4
       DEF IInv, MemoryInv, RecordFits, AloneInv, Mutating, TypeOK, Reports, counters,
           history, At, Active, Follows
  <1>19. LineageInv'
    <2>1. UNCHANGED <<env, cmd, ok, job, cleanup, overlap>>
      BY DEF Reports, history
    <2>2. ~overlap => \A q \in Procs : Mutating(q)' => q = p
      BY <1>1, <2>1 DEF IInv, AloneInv, Mutating
    <2>3. ASSUME ~overlap, NEW e \in Envs
          PROVE  Lineages(e)' # {} => ~Settled(e)'
      <3>1. CASE e = line.env
        BY <1>8, <2>3, <3>1
      <3>2. CASE e # line.env
        BY <1>8, <2>3, <3>2 DEF IInv, LineageInv
      <3> QED
        BY <3>1, <3>2
    <2>4. ~overlap => Lineages(line.env)' \subseteq cleanup[p] \cup {j}
      BY <1>1, <1>6, <1>7, <1>8, Blanks DEF IInv, LineageInv
    <2>5. cmd[p] \in Deletions /\ ok[p] => Label(p)' \notin {"settle", "close"}
      BY <1>1 DEF Reports, Follows
    <2> QED
      BY <1>6, <1>7, <1>8, <2>1, <2>2, <2>3, <2>4, <2>5 DEF LineageInv
  <1>20. VerdictsAreRecorded'
    <2>1. UNCHANGED <<overlap, stateFile>>
      BY DEF Reports, history
    <2>2. ASSUME ~overlap, NEW e \in Envs, NEW k \in LatestJob(e)', ledger'[k].status = "succeeded"
          PROVE  RecordFits(ledger'[k].kind, e)
      <3>1. e # line.env
        BY <1>8, <2>2 DEF Settled
      <3>2. k \in LatestJob(e) /\ k \in Jobs /\ ledger'[k].env = e
        BY <1>8, <2>2, <3>1 DEF LatestJob
      <3>3. ledger'[k] = ledger[k]
        BY <1>7, <3>1, <3>2
      <3> QED
        BY <2>2, <3>2, <3>3 DEF IInv, VerdictsAreRecorded, RecordFits
    <2> QED
      BY <2>1, <2>2 DEF VerdictsAreRecorded, RecordFits
  <1> QED
    BY <1>9, <1>10, <1>11, <1>12, <1>13, <1>14, <1>15, <1>16, <1>17, <1>18, <1>19, <1>20 DEF
           IInv

(* A delete withdraws one job it had read.                                 *)
LEMMA ReconcilesKeeps ==
  ASSUME IInv, NEW p \in Procs, NEW j, Reconciles(p, j)
  PROVE  IInv'
  <1>1. \A q \in Procs : Label(q)' = Label(q)
    BY LabelsStay DEF Reconciles
  <1>2. /\ cmd[p] \in Deletions /\ j \in Jobs /\ job[p] \in Jobs
        /\ ledger[j].status # "none"
    BY LabelFacts DEF IInv, TypeOK, HeldInv, Held, Reconciles, ControlInv, Control, Active
  <1>3. \A q \in Procs : Recorded(q)' = Recorded(q)
    BY <1>1, RecordedStays DEF IInv, TypeOK, Reconciles
  <1>4. [ledger EXCEPT ![j].status = "reconciled"]
          = [ledger EXCEPT ![j] = [env |-> ledger[j].env, kind |-> ledger[j].kind,
                                   status |-> "reconciled"]]
    <2>1. ledger[j] \in [env : Envs, kind : Mutations, status : Statuses]
      BY <1>2 DEF IInv, TypeOK
    <2>2. [ledger[j] EXCEPT !.status = "reconciled"]
            = [env |-> ledger[j].env, kind |-> ledger[j].kind, status |-> "reconciled"]
      BY <2>1
    <2> QED
      BY <2>2
  <1>5. /\ ledger' \in [Jobs -> [env : Envs, kind : Mutations, status : Statuses]]
        /\ \A k \in Jobs : /\ ledger'[k].env = ledger[k].env /\ ledger'[k].kind = ledger[k].kind
                           /\ ledger'[k].status = IF k = j THEN "reconciled" ELSE ledger[k].status
        /\ \A e \in Envs : /\ Lineages(e)' \subseteq Lineages(e) \ {j}
                           /\ LatestJob(e)' = LatestJob(e)
                           /\ Settled(e)' => Settled(e)
    BY <1>2, <1>4, LineWithdrawn DEF IInv, Reconciles
  <1>6. TypeOK'
    BY <1>1, <1>2, <1>3 DEF IInv, TypeOK, Statuses, Reconciles, counters, history
  <1>7. FreshInv'
    <2>1. Used' \subseteq Used /\ Waiting' \subseteq Waiting /\ commands' >= commands
      BY <1>1, <1>2, <1>3 DEF IInv, TypeOK, Used, Waiting, Mutating, Reconciles, counters,
             history
    <2> QED
      BY <2>1, <1>6, FreshStays DEF IInv
  <1>8. ControlInv'
    BY <1>1, <1>2, <1>3 DEF IInv, ControlInv, Control, TypeOK, Active, Reconciles, counters,
           history
  <1>9. SaveInv'
    BY <1>1, <1>2, <1>3 DEF IInv, SaveInv, TypeOK, Reconciles, counters, history
  <1>10. AppendInv'
    BY <1>1, <1>2, <1>3 DEF IInv, AppendInv, TypeOK, Reconciles, counters, history
  <1>11. QuietInv'
    BY <1>1, <1>2, <1>3 DEF IInv, QuietInv, TypeOK, Reconciles, counters, history
  <1>12. AloneInv'
    BY <1>1, <1>2, <1>3 DEF IInv, AloneInv, Mutating, TypeOK, Reconciles, counters, history
  <1>13. HeldInv'
    BY <1>1, <1>2, <1>3 DEF IInv, HeldInv, Held, AloneInv, Mutating, TypeOK, Reconciles,
           counters, history
  <1>14. OrderInv'
    BY <1>1, <1>2, <1>3 DEF IInv, OrderInv, AloneInv, Mutating, TypeOK, Reconciles,
           counters, history
  <1>15. MemoryInv'
    BY <1>1, <1>2, <1>3 DEF IInv, MemoryInv, RecordFits, AloneInv, Mutating, TypeOK, Reconciles,
           counters, history
  <1>16. LineageInv'
    <2>1. UNCHANGED <<env, cmd, ok, job, overlap>> /\ Mutating(p)
      BY <1>2 DEF Reconciles, history, Mutating
    <2>2. ~overlap => \A q \in Procs : Mutating(q)' => q = p
      BY <2>1 DEF IInv, AloneInv, Mutating
    <2>3. cleanup'[p] = cleanup[p] \ {j}
      BY DEF Reconciles, IInv, TypeOK
    <2>4. PICK e : e = env[p]
      OBVIOUS
    <2>5. e \in Envs
      BY <2>4 DEF IInv, TypeOK
    <2>6. ASSUME ~overlap
          PROVE  /\ ledger'[job[p]].status # "none" => ~Settled(e)'
                 /\ Lineages(e)' \subseteq cleanup'[p] \cup {job[p]}
      <3>1. /\ ledger[job[p]].status # "none" => ~Settled(e)
            /\ Lineages(e) \subseteq cleanup[p] \cup {job[p]}
        BY <1>2, <2>1, <2>4, <2>6, Blanks DEF IInv, LineageInv
      <3> QED
        BY <1>2, <1>5, <2>3, <2>5, <3>1
    <2>7. ~overlap => \A f \in Envs : Lineages(f)' # {} => ~Settled(f)'
      BY <1>5 DEF IInv, LineageInv
    <2>8. Label(p)' = "reconcile"
      BY <1>1 DEF Reconciles
    <2> QED
      BY <2>1, <2>2, <2>4, <2>6, <2>7, <2>8 DEF LineageInv
  <1>17. VerdictsAreRecorded'
    <2>1. UNCHANGED <<overlap, stateFile>>
      BY DEF Reconciles, history
    <2>2. ASSUME ~overlap, NEW e \in Envs, NEW k \in LatestJob(e)', ledger'[k].status = "succeeded"
          PROVE  RecordFits(ledger'[k].kind, e)
      <3>1. k \in LatestJob(e) /\ k \in Jobs
        BY <1>5, <2>2 DEF LatestJob
      <3>2. ledger[k].status = "succeeded" /\ ledger[k].kind = ledger'[k].kind
        BY <1>5, <2>2, <3>1
      <3> QED
        BY <2>2, <3>1, <3>2 DEF IInv, VerdictsAreRecorded, RecordFits
    <2> QED
      BY <2>1, <2>2 DEF VerdictsAreRecorded, RecordFits
  <1> QED
    BY <1>6, <1>7, <1>8, <1>9, <1>10, <1>11, <1>12, <1>13, <1>14, <1>15, <1>16, <1>17 DEF
           IInv

(* The verdict: MemoryInv says that it is in the state file already.       *)
LEMMA ClosesKeeps ==
  ASSUME IInv, NEW p \in Procs, Closes(p)
  PROVE  IInv'
  <1>1. /\ Label(p)' = "idle"
        /\ \A q \in Procs \ {p} : Label(q)' = Label(q)
    BY Leaving DEF IInv, Closes
  <1>2. job[p] \in Jobs /\ Active(p)
    BY DEF IInv, ControlInv, Control, TypeOK, Closes, Active, Mutating
  <1>3. \A q \in Procs \ {p} : Recorded(q)' = Recorded(q)
    BY <1>1, RecordedStays DEF IInv, TypeOK, Closes, Ends
  <1>4. fd[p] = "none" /\ p \notin written
    BY Idles DEF Closes, SaveLabels
  <1>5. PICK line : line = [env |-> env[p], kind |-> cmd[p],
                            status |-> IF ok[p] THEN "succeeded" ELSE "degraded"]
    OBVIOUS
  <1>6. PICK j : j = job[p]
    OBVIOUS
  <1>7. /\ line \in [env : Envs, kind : Mutations, status : Statuses]
        /\ line.env = env[p] /\ line.kind = cmd[p]
        /\ line.status = IF ok[p] THEN "succeeded" ELSE "degraded"
        /\ ledger' = [ledger EXCEPT ![j] = line]
        /\ ledger' \in [Jobs -> [env : Envs, kind : Mutations, status : Statuses]]
        /\ ledger'[j] = line /\ j \in Jobs
        /\ \A k \in Jobs \ {j} : ledger'[k] = ledger[k]
    BY <1>2, <1>5, <1>6 DEF IInv, TypeOK, Statuses, Closes, Mutating
  <1>8. ASSUME ~overlap
        PROVE  /\ \A e \in Envs \ {line.env} : /\ Lineages(e)' = Lineages(e)
                                               /\ LatestJob(e)' = LatestJob(e)
                                               /\ Settled(e)' = Settled(e)
               /\ Lineages(line.env)' \subseteq Lineages(line.env) \cup {j}
               /\ ok[p] => Lineages(line.env)' = {}
               /\ LatestJob(line.env)' = LatestJob(line.env)
               /\ ~Settled(line.env)
    <2>1. ledger[j].status # "none" /\ ledger[j].env = line.env
      BY <1>2, <1>6, <1>7, <1>8, Blanks DEF IInv, HeldInv, Held, Closes
    <2>2. /\ \A e \in Envs \ {line.env} : /\ Lineages(e)' = Lineages(e)
                                          /\ LatestJob(e)' = LatestJob(e)
                                          /\ Settled(e)' = Settled(e)
          /\ Lineages(line.env)' \subseteq Lineages(line.env) \cup {j}
          /\ line.kind # "create" \/ line.status \notin {"running", "degraded"} =>
               Lineages(line.env)' \subseteq Lineages(line.env) \ {j}
          /\ LatestJob(line.env)' = LatestJob(line.env)
      <3>1. line.status # "none"
        BY <1>7
      <3> QED
        BY <1>7, <2>1, <3>1, LedgerWritten DEF IInv
    <2>3. /\ ~Settled(line.env)
          /\ Lineages(line.env) \subseteq cleanup[p] \cup {j}
          /\ cmd[p] \in Deletions /\ ok[p] => cleanup[p] = {}
      BY <1>2, <1>6, <1>7, <1>8, <2>1, Blanks DEF IInv, LineageInv, Closes
    <2>4. ok[p] => cleanup[p] = {}
      BY <2>3 DEF IInv, ControlInv, Control
    <2> QED
      BY <1>7, <2>2, <2>3, <2>4
  <1>9. TypeOK'
    BY Blanks, <1>7 DEF IInv, TypeOK, Closes, Ends, counters, history
  <1>10. FreshInv'
    <2>1. Used' \subseteq Used /\ Waiting' \subseteq Waiting /\ commands' >= commands
      BY Blanks, <1>1, <1>2, <1>3, <1>4 DEF IInv, TypeOK, Used, Waiting, Mutating, Closes,
             Ends, counters, history
    <2> QED
      BY <2>1, <1>9, FreshStays DEF IInv
  <1>11. ControlInv'
    BY Blanks, <1>1, <1>2, <1>3, <1>4 DEF IInv, ControlInv, Control, TypeOK, Active, Closes,
           Ends, counters, history
  <1>12. SaveInv'
    BY Blanks, <1>1, <1>2, <1>3, <1>4 DEF IInv, SaveInv, TypeOK, Closes, Ends, counters,
           history
  <1>13. AppendInv'
    BY Blanks, <1>1, <1>2, <1>3, <1>4 DEF IInv, AppendInv, TypeOK, Closes, Ends, counters,
           history
  <1>14. QuietInv'
    BY Blanks, <1>1, <1>2, <1>3, <1>4 DEF IInv, QuietInv, TypeOK, Closes, Ends, counters,
           history
  <1>15. AloneInv'
    BY Blanks, <1>1, <1>2, <1>3, <1>4 DEF IInv, AloneInv, Mutating, TypeOK, Closes, Ends,
           counters, history
  <1>16. HeldInv'
    BY Blanks, <1>1, <1>2, <1>3, <1>4 DEF IInv, HeldInv, Held, AloneInv, Mutating, TypeOK,
           Closes, Ends, counters, history
  <1>17. OrderInv'
    BY Blanks, <1>1, <1>2, <1>3, <1>4 DEF IInv, OrderInv, AloneInv, Mutating, TypeOK,
           Closes, Ends, counters, history
  <1>18. MemoryInv'
    BY Blanks, <1>1, <1>2, <1>3, <1>4
       DEF IInv, MemoryInv, RecordFits, AloneInv, Mutating, TypeOK, Closes, Ends, counters,
           history
  <1>19. LineageInv'
    <2>1. UNCHANGED overlap /\ Mutating(p)
      BY DEF Closes, history
    <2>2. ~overlap => \A q \in Procs : ~Mutating(q)'
      BY <2>1 DEF IInv, AloneInv, Mutating, Closes, Ends, TypeOK
    <2>3. ASSUME ~overlap, NEW e \in Envs, e = line.env, ~ok[p]
          PROVE  ~Settled(e)'
      <3>1. \A k \in Jobs : ledger'[k].status = "succeeded" => ledger[k].status = "succeeded"
        BY <1>7, <2>3
      <3>2. LatestJob(e)' = LatestJob(e) /\ LatestJob(e) \subseteq Jobs
        BY <1>8, <2>3 DEF LatestJob
      <3> QED
        BY <1>8, <2>3, <3>1, <3>2 DEF Settled
    <2>4. ASSUME ~overlap, NEW e \in Envs
          PROVE  Lineages(e)' # {} => ~Settled(e)'
      <3>1. CASE e = line.env
        BY <1>8, <2>3, <2>4, <3>1
      <3>2. CASE e # line.env
        BY <1>8, <2>4, <3>2 DEF IInv, LineageInv
      <3> QED
        BY <3>1, <3>2
    <2> QED
      BY <2>1, <2>2, <2>4 DEF LineageInv
  <1>20. VerdictsAreRecorded'
    <2>1. UNCHANGED <<overlap, stateFile>>
      BY DEF Closes, history
    <2>2. ASSUME ~overlap, NEW e \in Envs, NEW k \in LatestJob(e)', ledger'[k].status = "succeeded"
          PROVE  RecordFits(ledger'[k].kind, e)
      <3>1. k \in LatestJob(e) /\ k \in Jobs
        BY <1>8, <2>2 DEF LatestJob
      <3>2. CASE k = j
        <4>1. ok[p] /\ ledger'[k].kind = cmd[p]
          BY <1>7, <2>2, <3>2
        <4>2. RecordFits(cmd[p], env[p])
          BY <2>2, <4>1 DEF IInv, MemoryInv, Closes
        <4>3. ledger'[k].env = e /\ ledger'[k].env = env[p]
          BY <1>7, <2>2, <3>2 DEF LatestJob
        <4> QED
          BY <4>1, <4>2, <4>3
      <3>3. CASE k # j
        <4>1. ledger'[k] = ledger[k]
          BY <1>7, <3>1, <3>3
        <4> QED
          BY <2>2, <3>1, <4>1 DEF IInv, VerdictsAreRecorded, RecordFits
      <3> QED
        BY <3>2, <3>3
    <2> QED
      BY <2>1, <2>2 DEF VerdictsAreRecorded, RecordFits
  <1> QED
    BY <1>9, <1>10, <1>11, <1>12, <1>13, <1>14, <1>15, <1>16, <1>17, <1>18, <1>19, <1>20 DEF
           IInv

(* A cancel withdraws a job; it is quiet when nobody else holds it.        *)
LEMMA CancelsKeeps ==
  ASSUME IInv, NEW p \in Procs, Cancels(p)
  PROVE  IInv'
  <1>1. /\ Label(p)' = "idle"
        /\ \A q \in Procs \ {p} : Label(q)' = Label(q)
    BY Leaving DEF IInv, Cancels
  <1>2. job[p] \in Jobs /\ ledger[job[p]].status # "none"
    BY DEF IInv, ControlInv, Control, HeldInv, Held, TypeOK, Cancels, Active
  <1>3. \A q \in Procs \ {p} : Recorded(q)' = Recorded(q)
    BY <1>1, RecordedStays DEF IInv, TypeOK, Cancels, Ends
  <1>4. fd[p] = "none" /\ p \notin written
    BY Idles DEF Cancels, SaveLabels
  <1>5. PICK j : j = job[p]
    OBVIOUS
  <1>6. /\ ledger' \in [Jobs -> [env : Envs, kind : Mutations, status : Statuses]]
        /\ \A k \in Jobs : /\ ledger'[k].env = ledger[k].env /\ ledger'[k].kind = ledger[k].kind
                           /\ ledger'[k].status = IF k = j THEN "canceled" ELSE ledger[k].status
        /\ \A e \in Envs : /\ Lineages(e)' \subseteq Lineages(e) \ {j}
                           /\ LatestJob(e)' = LatestJob(e)
                           /\ Settled(e)' => Settled(e)
    <2>1. j \in Jobs /\ ledger[j].status # "none" /\ "canceled" \in {"canceled", "reconciled"}
      BY <1>2, <1>5
    <2>2. ledger' = [ledger EXCEPT ![j] = [env |-> ledger[j].env, kind |-> ledger[j].kind,
                                           status |-> "canceled"]]
      BY <1>5 DEF Cancels
    <2> QED
      BY <2>1, <2>2, LineWithdrawn DEF IInv
  <1>7. TypeOK'
    BY Blanks, <1>1, <1>2, <1>3, <1>4 DEF IInv, TypeOK, Statuses, Cancels, Ends, counters
  <1>8. FreshInv'
    <2>1. Used' \subseteq Used /\ Waiting' \subseteq Waiting /\ commands' >= commands
      BY Blanks, <1>1, <1>2, <1>3, <1>4 DEF IInv, TypeOK, Used, Waiting, Mutating, Cancels,
             Ends, counters
    <2> QED
      BY <2>1, <1>7, FreshStays DEF IInv
  <1>9. ControlInv'
    BY Blanks, <1>1, <1>2, <1>3, <1>4 DEF IInv, ControlInv, Control, TypeOK, Active,
           Cancels, Ends, counters
  <1>10. SaveInv'
    BY Blanks, <1>1, <1>2, <1>3, <1>4 DEF IInv, SaveInv, TypeOK, Cancels, Ends, counters
  <1>11. AppendInv'
    BY Blanks, <1>1, <1>2, <1>3, <1>4 DEF IInv, AppendInv, TypeOK, Cancels, Ends, counters
  <1>12. QuietInv'
    <2>1. ASSUME NEW k \in quiet'
          PROVE  k \in quiet \/ (k = j /\ Holders(k) = {p})
      <3>1. quiet' = quiet \cup {i \in {job[p]} : Holders(i) = {p}}
        BY DEF Cancels
      <3> QED
        BY <1>5, <2>1, <3>1
    <2>2. ASSUME NEW k \in quiet
          PROVE  /\ ledger'[k].status \in {"canceled", "reconciled"}
                 /\ \A q \in Procs : job'[q] # k
      <3>1. k \in Jobs /\ \A q \in Procs : job'[q] = job[q] \/ job'[q] = NoJob
        BY <2>2 DEF IInv, TypeOK, Cancels, Ends
      <3> QED
        BY <1>6, <2>2, <3>1, Blanks DEF IInv, QuietInv
    <2>3. ASSUME Holders(j) = {p}
          PROVE  /\ ledger'[j].status \in {"canceled", "reconciled"}
                 /\ \A q \in Procs : job'[q] # j
      <3>1. \A q \in Procs \ {p} : job[q] # j
        BY <2>3 DEF Holders
      <3>2. \A q \in Procs : job'[q] = IF q = p THEN NoJob ELSE job[q]
        BY DEF IInv, TypeOK, Cancels, Ends
      <3> QED
        BY <1>2, <1>5, <1>6, <3>1, <3>2, Blanks
    <2> QED
      BY <2>1, <2>2, <2>3 DEF QuietInv
  <1>13. AloneInv'
    BY Blanks, <1>1, <1>2, <1>3, <1>4 DEF IInv, AloneInv, Mutating, TypeOK, Cancels, Ends,
           counters
  <1>14. HeldInv'
    BY Blanks, <1>1, <1>2, <1>3, <1>4 DEF IInv, HeldInv, Held, AloneInv, Mutating, TypeOK,
           Cancels, Ends, counters
  <1>15. OrderInv'
    BY Blanks, <1>1, <1>2, <1>3, <1>4 DEF IInv, OrderInv, AloneInv, Mutating, TypeOK,
           Cancels, Ends, counters
  <1>16. MemoryInv'
    BY Blanks, <1>1, <1>2, <1>3, <1>4
       DEF IInv, MemoryInv, RecordFits, AloneInv, Mutating, TypeOK, Cancels, Ends, counters
  <1>17. LineageInv'
    <2>1. /\ UNCHANGED overlap /\ ~Mutating(p)'
          /\ \A q \in Procs \ {p} : /\ env'[q] = env[q] /\ cmd'[q] = cmd[q] /\ ok'[q] = ok[q]
                                    /\ job'[q] = job[q] /\ cleanup'[q] = cleanup[q]
      BY DEF Cancels, Ends, IInv, TypeOK, Mutating
    <2>2. ~overlap => \A f \in Envs : Lineages(f)' # {} => ~Settled(f)'
      BY <1>6 DEF IInv, LineageInv
    <2>3. ASSUME ~overlap, NEW q \in Procs \ {p}, Mutating(q), job[q] # NoJob
          PROVE  /\ ledger'[job[q]].status # "none" => ~Settled(env[q])'
                 /\ Lineages(env[q])' \subseteq cleanup[q] \cup {job[q]}
                 /\ cmd[q] \in Deletions /\ ok[q] /\ Label(q)' \in {"settle", "close"}
                      => cleanup[q] = {}
      <3>1. PICK e : e = env[q]
        OBVIOUS
      <3>2. e \in Envs /\ e = env'[q] /\ job[q] \in Jobs
        BY <2>1, <2>3, <3>1 DEF IInv, TypeOK
      <3>3. /\ ledger[job[q]].status # "none" => ~Settled(e)
            /\ Lineages(e) \subseteq cleanup[q] \cup {job[q]}
            /\ cmd[q] \in Deletions /\ ok[q] /\ Label(q) \in {"settle", "close"} => cleanup[q] = {}
        BY <2>3, <3>1 DEF IInv, LineageInv
      <3>4. ledger'[job[q]].status # "none" => ledger[job[q]].status # "none"
        BY <1>2, <1>5, <1>6, <3>2
      <3>5. Label(q)' = Label(q)
        BY <1>1
      <3>6. /\ ledger'[job[q]].status # "none" => ~Settled(e)'
            /\ Lineages(e)' \subseteq cleanup[q] \cup {job[q]}
        BY <1>6, <3>2, <3>3, <3>4
      <3> QED
        BY <3>2, <3>3, <3>5, <3>6
    <2> QED
      BY <2>1, <2>2, <2>3 DEF LineageInv, Mutating
  <1>18. VerdictsAreRecorded'
    <2>1. UNCHANGED <<overlap, stateFile>>
      BY DEF Cancels
    <2>2. ASSUME ~overlap, NEW e \in Envs, NEW k \in LatestJob(e)', ledger'[k].status = "succeeded"
          PROVE  RecordFits(ledger'[k].kind, e)
      <3>1. k \in LatestJob(e) /\ k \in Jobs
        BY <1>6, <2>2 DEF LatestJob
      <3>2. ledger[k].status = "succeeded" /\ ledger[k].kind = ledger'[k].kind
        BY <1>6, <2>2, <3>1
      <3> QED
        BY <2>2, <3>1, <3>2 DEF IInv, VerdictsAreRecorded, RecordFits
    <2> QED
      BY <2>1, <2>2 DEF VerdictsAreRecorded, RecordFits
  <1> QED
    BY <1>7, <1>8, <1>9, <1>10, <1>11, <1>12, <1>13, <1>14, <1>15, <1>16, <1>17, <1>18 DEF
           IInv

(* A delete has reconciled what it had read.                               *)
LEMMA NothingToReconcileKeeps ==
  ASSUME IInv, NEW p \in Procs, NothingToReconcile(p)
  PROVE  IInv'
  <1>1. /\ Active(p) /\ cmd[p] \in Deletions /\ p \notin appending
        /\ at' = [at EXCEPT ![p] = @ + 1] /\ UNCHANGED <<cmd, env, ok, job, cleanup, memory>>
    BY LabelFacts, Advancing DEF IInv, ControlInv, Control, NothingToReconcile
  <1>2. /\ Label(p)' = IF cmd[p] = "delete" THEN "settle" ELSE "close"
        /\ At(p)' /\ at' \in [Procs -> 1..10]
        /\ \A q \in Procs \ {p} : Label(q)' = Label(q)
    <2>1. Follows(cmd[p], ok[p], "reconcile") = IF cmd[p] = "delete" THEN "settle" ELSE "close"
      BY DEF Follows
    <2>2. Label(p) = "reconcile"
      BY DEF NothingToReconcile
    <2> QED
      BY <1>1, <2>1, <2>2, Walking DEF IInv
  <1>3. \A e \in Envs : /\ Lineages(e)' = Lineages(e) /\ LatestJob(e)' = LatestJob(e)
                      /\ Settled(e)' = Settled(e)
    BY LedgerStays DEF NothingToReconcile, files
  <1>4. \A q \in Procs \ {p} : Recorded(q)' = Recorded(q)
    BY <1>1, <1>2, RecordedStays DEF IInv, TypeOK, NothingToReconcile
  <1>5. fd[p] = "none" /\ p \notin written
    BY Idles DEF NothingToReconcile, SaveLabels
  <1>6. TypeOK'
    BY <1>1, <1>2, <1>3, <1>4, <1>5 DEF IInv, TypeOK, Statuses, NothingToReconcile, files,
           counters, history, At, Active
  <1>7. FreshInv'
    <2>1. Used' \subseteq Used /\ Waiting' \subseteq Waiting /\ commands' >= commands
      BY <1>1, <1>2, <1>3, <1>4, <1>5 DEF IInv, TypeOK, Used, Waiting, Mutating,
             NothingToReconcile, files, counters, history, At, Active
    <2> QED
      BY <2>1, <1>6, FreshStays DEF IInv
  <1>8. ControlInv'
    BY <1>1, <1>2, <1>3, <1>4, <1>5 DEF IInv, ControlInv, Control, TypeOK, Active,
           NothingToReconcile, files, counters, history, At, Active
  <1>9. SaveInv'
    BY <1>1, <1>2, <1>3, <1>4, <1>5 DEF IInv, SaveInv, TypeOK, NothingToReconcile, files,
           counters, history, At, Active
  <1>10. AppendInv'
    BY <1>1, <1>2, <1>3, <1>4, <1>5 DEF IInv, AppendInv, TypeOK, NothingToReconcile, files,
           counters, history, At, Active
  <1>11. QuietInv'
    BY <1>1, <1>2, <1>3, <1>4, <1>5 DEF IInv, QuietInv, TypeOK, NothingToReconcile, files,
           counters, history, At, Active
  <1>12. AloneInv'
    BY <1>1, <1>2, <1>3, <1>4, <1>5 DEF IInv, AloneInv, Mutating, TypeOK,
           NothingToReconcile, files, counters, history, At, Active
  <1>13. HeldInv'
    BY <1>1, <1>2, <1>3, <1>4, <1>5 DEF IInv, HeldInv, Held, AloneInv, Mutating, TypeOK,
           NothingToReconcile, files, counters, history, At, Active
  <1>14. OrderInv'
    BY <1>1, <1>2, <1>3, <1>4, <1>5 DEF IInv, OrderInv, AloneInv, Mutating, TypeOK,
           NothingToReconcile, files, counters, history, At, Active
  <1>15. MemoryInv'
    <2>1. UNCHANGED <<overlap, stateFile, cmd, env, ok, job, memory, fd>>
      BY <1>1 DEF NothingToReconcile, files, history
    <2>2. ASSUME ~overlap, NEW q \in Procs, Mutating(q)
          PROVE  q = p
      BY <1>1, <2>2 DEF IInv, AloneInv, Mutating
    <2>3. Label(p) = "reconcile" /\ job[p] # NoJob /\ Mutating(p)
      BY <1>1 DEF IInv, ControlInv, Control, NothingToReconcile, Mutating
    <2>4. ~overlap => /\ \A e \in Envs \ {env[p]} : memory[p][e] = stateFile[e]
                      /\ cmd[p] = "delete_keep" => stateFile[env[p]] # "absent"
      BY <2>3 DEF IInv, MemoryInv
    <2>5. Label(p)' # "pick" /\ (Label(p)' = "close" => cmd[p] = "delete_keep")
      BY <1>1, <1>2
    <2>6. ~overlap /\ Label(p)' = "close" => RecordFits(cmd[p], env[p])
      BY <2>4, <2>5 DEF RecordFits
    <2> QED
      BY <1>5, <2>1, <2>2, <2>4, <2>5, <2>6 DEF MemoryInv, RecordFits, Mutating
  <1>16. LineageInv'
    BY <1>1, <1>2, <1>3, <1>4, <1>5 DEF IInv, LineageInv, AloneInv, Mutating, TypeOK,
           NothingToReconcile, files, counters, history, At, Active
  <1>17. VerdictsAreRecorded'
    BY <1>1, <1>2, <1>3, <1>4, <1>5
       DEF IInv, VerdictsAreRecorded, RecordFits, NothingToReconcile, files, counters,
           history, At, Active
  <1> QED
    BY <1>6, <1>7, <1>8, <1>9, <1>10, <1>11, <1>12, <1>13, <1>14, <1>15, <1>16, <1>17 DEF
           IInv

(* The work succeeds or fails.                                             *)
LEMMA WorkKeeps ==
  ASSUME IInv, NEW p \in Procs, NEW success \in BOOLEAN, Work(p, success)
  PROVE  IInv'
  <1>1. /\ Label(p)' = Follows(cmd[p], success, "work")
        /\ At(p)' /\ Mutating(p) /\ at' \in [Procs -> 1..10]
        /\ \A q \in Procs \ {p} : Label(q)' = Label(q)
    BY Working DEF IInv
  <1>2. \A e \in Envs : /\ Lineages(e)' = Lineages(e) /\ LatestJob(e)' = LatestJob(e)
                      /\ Settled(e)' = Settled(e)
    BY LedgerStays DEF Work, files
  <1>3. \A q \in Procs \ {p} : Recorded(q)' = Recorded(q)
    BY <1>1, RecordedStays DEF IInv, TypeOK, Work
  <1>4. fd[p] = "none" /\ p \notin written /\ p \notin appending
    BY Idles DEF Work, AppendLabels, SaveLabels
  <1>5. TypeOK'
    BY <1>1, <1>2, <1>3, <1>4 DEF IInv, TypeOK, Statuses, Work, files, counters, history,
           At, Active, Follows
  <1>6. FreshInv'
    <2>1. Used' \subseteq Used /\ Waiting' \subseteq Waiting /\ commands' >= commands
      BY <1>1, <1>2, <1>3, <1>4 DEF IInv, TypeOK, Used, Waiting, Mutating, Work, files,
             counters, history, At, Active, Follows
    <2> QED
      BY <2>1, <1>5, FreshStays DEF IInv
  <1>7. ControlInv'
    <2>1. ASSUME NEW q \in Procs \ {p}
          PROVE  Control(q)'
      <3>1. Control(q)
        BY DEF IInv, ControlInv
      <3>2. /\ Active(q)' = Active(q) /\ cmd'[q] = cmd[q] /\ ok'[q] = ok[q] /\ at'[q] = at[q]
            /\ job'[q] = job[q] /\ cleanup'[q] = cleanup[q]
            /\ fd'[q] = fd[q] /\ (q \in written' <=> q \in written)
            /\ (q \in appending' <=> q \in appending) /\ Label(q)' = Label(q)
        BY <1>1, <1>2, <1>3, <1>4 DEF IInv, TypeOK, Active, Work, files, counters, history
      <3> QED
        BY <3>1, <3>2 DEF Control
    <2>2. Control(p)'
      BY <1>1, <1>2, <1>3, <1>4 DEF IInv, ControlInv, Control, TypeOK, Active, Mutating,
             Work, files, counters, history, At, Follows
    <2> QED
      BY <2>1, <2>2 DEF ControlInv
  <1>8. SaveInv'
    BY <1>1, <1>2, <1>3, <1>4 DEF IInv, SaveInv, TypeOK, Work, files, counters, history, At,
           Active, Follows
  <1>9. AppendInv'
    BY <1>1, <1>2, <1>3, <1>4 DEF IInv, AppendInv, TypeOK, Work, files, counters, history,
           At, Active, Follows
  <1>10. QuietInv'
    BY <1>1, <1>2, <1>3, <1>4 DEF IInv, QuietInv, TypeOK, Work, files, counters, history,
           At, Active, Follows
  <1>11. AloneInv'
    BY <1>1, <1>2, <1>3, <1>4 DEF IInv, AloneInv, Mutating, TypeOK, Work, files, counters,
           history, At, Active, Follows
  <1>12. HeldInv'
    BY <1>1, <1>2, <1>3, <1>4 DEF IInv, HeldInv, Held, AloneInv, Mutating, TypeOK, Work,
           files, counters, history, At, Active, Follows
  <1>13. OrderInv'
    BY <1>1, <1>2, <1>3, <1>4 DEF IInv, OrderInv, AloneInv, Mutating, TypeOK, Work, files,
           counters, history, At, Active, Follows
  <1>14. MemoryInv'
    BY <1>1, <1>2, <1>3, <1>4
       DEF IInv, MemoryInv, RecordFits, AloneInv, Mutating, TypeOK, Work, files, counters,
           history, At, Active, Follows
  <1>15. LineageInv'
    BY <1>1, <1>2, <1>3, <1>4 DEF IInv, LineageInv, AloneInv, Mutating, TypeOK, Work, files,
           counters, history, At, Active, Follows
  <1>16. VerdictsAreRecorded'
    BY <1>1, <1>2, <1>3, <1>4
       DEF IInv, VerdictsAreRecorded, RecordFits, Work, files, counters, history, At, Active,
           Follows
  <1> QED
    BY <1>5, <1>6, <1>7, <1>8, <1>9, <1>10, <1>11, <1>12, <1>13, <1>14, <1>15, <1>16 DEF
           IInv

(* The temporary file is emptied.                                          *)
LEMMA SaveOpensKeeps ==
  ASSUME IInv, NEW p \in Procs, SaveOpens(p)
  PROVE  IInv'
  <1>1. \A q \in Procs : Label(q)' = Label(q)
    BY LabelsStay DEF SaveOpens
  <1>2. \A e \in Envs : /\ Lineages(e)' = Lineages(e) /\ LatestJob(e)' = LatestJob(e)
                      /\ Settled(e)' = Settled(e)
    BY LedgerStays DEF SaveOpens
  <1>3. /\ Active(p) /\ Mutating(p) /\ Recorded(p)' = Recorded(p)
        /\ p \notin written
    BY <1>1, LabelFacts
       DEF IInv, TypeOK, ControlInv, Control, SaveOpens, SaveLabels, Active, Mutating,
           Recorded
  <1>4. memory' \in [Procs -> States]
    BY DEF IInv, TypeOK, SaveOpens, States, Recorded
  <1>5. fd' = [fd EXCEPT ![p] = "tmp"] /\ tmpFile' = Unread("empty") /\ UNCHANGED stateFile
    BY DEF SaveOpens, SaveTarget
  <1>6. \A q \in Procs : Recorded(q)' = Recorded(q)
    BY <1>1, RecordedStays DEF IInv, TypeOK, SaveOpens
  <1>7. p \notin appending /\ fd[p] = "none"
    BY Idles DEF SaveOpens, AppendLabels, SaveLabels
  <1>8. ~collided' \/ ~overlap => (~collided \/ ~overlap) /\ \A q \in Procs : fd[q] = "none"
    <2>1. ~collided' => ~collided /\ \A q \in Procs : fd[q] = "none"
      BY DEF SaveOpens
    <2>2. ASSUME ~overlap, NEW q \in Procs, fd[q] # "none"
          PROVE  FALSE
      <3>1. Label(q) \in SaveLabels /\ Active(q) /\ cmd[q] # "cancel"
        BY <2>2, LabelFacts DEF IInv, ControlInv, Control, SaveLabels
      <3>2. Mutating(q)
        BY <3>1 DEF IInv, TypeOK, Active, Mutating
      <3> QED
        BY <1>3, <1>7, <2>2, <3>2 DEF IInv, AloneInv
    <2> QED
      BY <2>1, <2>2
  <1>9. TypeOK'
    <2>1. tmpFile' \in Contents
      BY <1>5 DEF Contents
    <2>2. collided' \in BOOLEAN
      BY DEF SaveOpens
    <2> QED
      BY <1>4, <1>5, <2>1, <2>2 DEF IInv, TypeOK, SaveOpens, counters
  <1>10. FreshInv'
    <2>1. Used' \subseteq Used /\ Waiting' \subseteq Waiting /\ commands' >= commands
      BY <1>1, <1>2, <1>3, <1>4, <1>5, <1>6, <1>7 DEF IInv, TypeOK, Used, Waiting, Mutating,
             SaveOpens, counters
    <2> QED
      BY <2>1, <1>9, FreshStays DEF IInv
  <1>11. ControlInv'
    BY <1>1, <1>2, <1>3, <1>4, <1>5, <1>6, <1>7 DEF IInv, ControlInv, Control, TypeOK,
           Active, SaveOpens, counters
  <1>12. SaveInv'
    <2>1. ASSUME ~collided' \/ ~overlap
          PROVE  /\ \A q \in Procs : fd'[q] = IF q = p THEN "tmp" ELSE "none"
                 /\ stateFile \in States
      BY <1>5, <1>8, <2>1 DEF IInv, SaveInv, TypeOK
    <2> QED
      BY <1>3, <1>5, <2>1 DEF SaveInv, SaveOpens
  <1>13. AppendInv'
    BY <1>1, <1>2, <1>3, <1>4, <1>5, <1>6, <1>7 DEF IInv, AppendInv, TypeOK, SaveOpens,
           counters
  <1>14. QuietInv'
    BY <1>1, <1>2, <1>3, <1>4, <1>5, <1>6, <1>7 DEF IInv, QuietInv, TypeOK, SaveOpens,
           counters
  <1>15. AloneInv'
    BY <1>1, <1>2, <1>3, <1>4, <1>5, <1>6, <1>7 DEF IInv, AloneInv, Mutating, TypeOK,
           SaveOpens, counters
  <1>16. HeldInv'
    BY <1>1, <1>2, <1>3, <1>4, <1>5, <1>6, <1>7 DEF IInv, HeldInv, Held, AloneInv, Mutating,
           TypeOK, SaveOpens, counters
  <1>17. OrderInv'
    BY <1>1, <1>2, <1>3, <1>4, <1>5, <1>6, <1>7 DEF IInv, OrderInv, AloneInv, Mutating,
           TypeOK, SaveOpens, counters
  <1>18. MemoryInv'
    <2>1. UNCHANGED <<overlap, cmd, env, ok, stateFile>>
      BY <1>5 DEF SaveOpens
    <2>2. ASSUME ~overlap, NEW q \in Procs, Mutating(q)
          PROVE  q = p
      BY <1>3, <2>2 DEF IInv, AloneInv
    <2>3. /\ memory'[p][env[p]] = Recorded(p)
          /\ \A e \in Envs \ {env[p]} : memory'[p][e] = memory[p][e]
      BY DEF IInv, TypeOK, SaveOpens, States
    <2>4. Label(p)' = Label(p) /\ Label(p) \notin {"load", "pick", "close"}
      BY <1>1 DEF SaveOpens, SaveLabels
    <2>5. ~overlap => \A e \in Envs \ {env[p]} : memory[p][e] = stateFile[e]
      BY <1>3, <2>4 DEF IInv, MemoryInv
    <2>6. cmd[p] # "delete_keep"
      BY LabelFacts DEF IInv, SaveOpens, SaveLabels
    <2> QED
      BY <1>3, <2>1, <2>2, <2>3, <2>4, <2>5, <2>6 DEF MemoryInv, Mutating
  <1>19. LineageInv'
    BY <1>1, <1>2, <1>3, <1>4, <1>5, <1>6, <1>7 DEF IInv, LineageInv, AloneInv, Mutating,
           TypeOK, SaveOpens, counters
  <1>20. VerdictsAreRecorded'
    BY <1>1, <1>2, <1>3, <1>4, <1>5, <1>6, <1>7
       DEF IInv, VerdictsAreRecorded, RecordFits, SaveOpens, counters
  <1> QED
    BY <1>9, <1>10, <1>11, <1>12, <1>13, <1>14, <1>15, <1>16, <1>17, <1>18, <1>19, <1>20 DEF
           IInv

(* It is written: whole, when nobody else writes it.                       *)
LEMMA SaveWritesKeeps ==
  ASSUME IInv, NEW p \in Procs, SaveWrites(p)
  PROVE  IInv'
  <1>1. \A q \in Procs : Label(q)' = Label(q)
    BY LabelsStay DEF SaveWrites, process
  <1>2. \A e \in Envs : /\ Lineages(e)' = Lineages(e) /\ LatestJob(e)' = LatestJob(e)
                      /\ Settled(e)' = Settled(e)
    BY LedgerStays DEF SaveWrites
  <1>3. Active(p)
    BY LabelFacts DEF IInv, ControlInv, Control, SaveWrites, SaveLabels
  <1>4. \A q \in Procs : Recorded(q)' = Recorded(q)
    BY <1>1, RecordedStays DEF IInv, TypeOK, SaveWrites, process
  <1>5. ~collided \/ ~overlap =>
          /\ fd[p] = "tmp" /\ tmpFile' = memory[p] /\ stateFile' = stateFile
          /\ \A q \in Procs \ {p} : fd[q] = "none"
    <2>1. ASSUME ~collided \/ ~overlap
          PROVE  /\ fd[p] = "tmp" /\ tmpFile = Unread("empty")
                 /\ \A q \in Procs \ {p} : fd[q] = "none"
      BY <2>1 DEF IInv, SaveInv, SaveWrites
    <2> QED
      BY <2>1 DEF SaveWrites, Written
  <1>6. TypeOK'
    <2>1. ASSUME NEW content, NEW new \in Written(p, content)
          PROVE  new \in Contents
      BY <2>1 DEF IInv, TypeOK, Written, Contents
    <2>2. tmpFile' \in Contents /\ stateFile' \in Contents
      BY <2>1 DEF IInv, TypeOK, SaveWrites
    <2> QED
      BY <2>2 DEF IInv, TypeOK, SaveWrites, process, counters, history
  <1>7. FreshInv'
    <2>1. Used' \subseteq Used /\ Waiting' \subseteq Waiting /\ commands' >= commands
      BY <1>1, <1>2, <1>3, <1>4 DEF IInv, TypeOK, Used, Waiting, Mutating, SaveWrites,
             process, counters, history
    <2> QED
      BY <2>1, <1>6, FreshStays DEF IInv
  <1>8. ControlInv'
    BY <1>1, <1>2, <1>3, <1>4 DEF IInv, ControlInv, Control, TypeOK, Active, SaveWrites,
           process, counters, history
  <1>9. SaveInv'
    <2>1. /\ UNCHANGED <<collided, overlap, fd, memory>> /\ p \in written'
          /\ \A q \in Procs \ {p} : q \in written' <=> q \in written
      BY DEF SaveWrites, history, process
    <2> QED
      BY <1>5, <2>1 DEF IInv, SaveInv
  <1>10. AppendInv'
    BY <1>1, <1>2, <1>3, <1>4 DEF IInv, AppendInv, TypeOK, SaveWrites, process, counters,
           history
  <1>11. QuietInv'
    BY <1>1, <1>2, <1>3, <1>4 DEF IInv, QuietInv, TypeOK, SaveWrites, process, counters,
           history
  <1>12. AloneInv'
    BY <1>1, <1>2, <1>3, <1>4 DEF IInv, AloneInv, Mutating, TypeOK, SaveWrites, process,
           counters, history
  <1>13. HeldInv'
    BY <1>1, <1>2, <1>3, <1>4 DEF IInv, HeldInv, Held, AloneInv, Mutating, TypeOK,
           SaveWrites, process, counters, history
  <1>14. OrderInv'
    BY <1>1, <1>2, <1>3, <1>4 DEF IInv, OrderInv, AloneInv, Mutating, TypeOK, SaveWrites,
           process, counters, history
  <1>15. MemoryInv'
    <2>1. /\ UNCHANGED <<overlap, cmd, env, ok, job, fd, memory>>
          /\ ~overlap => UNCHANGED stateFile
      BY <1>5 DEF SaveWrites, history, process
    <2> QED
      BY <1>1, <1>4, <2>1 DEF IInv, MemoryInv, RecordFits, Mutating
  <1>16. LineageInv'
    BY <1>1, <1>2, <1>3, <1>4 DEF IInv, LineageInv, AloneInv, Mutating, TypeOK, SaveWrites,
           process, counters, history
  <1>17. VerdictsAreRecorded'
    <2>1. UNCHANGED <<overlap, ledger>> /\ (~overlap => UNCHANGED stateFile)
      BY <1>5 DEF SaveWrites, history
    <2> QED
      BY <1>2, <2>1 DEF IInv, VerdictsAreRecorded, RecordFits
  <1> QED
    BY <1>6, <1>7, <1>8, <1>9, <1>10, <1>11, <1>12, <1>13, <1>14, <1>15, <1>16, <1>17 DEF
           IInv

(* And becomes the state file.                                             *)
LEMMA RenamesKeeps ==
  ASSUME IInv, NEW p \in Procs, Renames(p)
  PROVE  IInv'
  <1>1. /\ Mutating(p)
        /\ Label(p)' = Follows(cmd[p], ok[p], Label(p))
        /\ At(p)' /\ at' \in [Procs -> 1..10]
        /\ \A q \in Procs \ {p} : Label(q)' = Label(q)
    <2>1. cmd[p] # "cancel" /\ Label(p) # "close"
      BY LabelFacts DEF IInv, Renames, SaveLabels
    <2> QED
      BY <2>1, Walking DEF IInv, Renames, TypeOK, Active, Mutating
  <1>2. \A e \in Envs : /\ Lineages(e)' = Lineages(e) /\ LatestJob(e)' = LatestJob(e)
                      /\ Settled(e)' = Settled(e)
    BY LedgerStays DEF Renames
  <1>3. \A q \in Procs \ {p} : Recorded(q)' = Recorded(q)
    BY <1>1, RecordedStays DEF IInv, TypeOK, Renames
  <1>4. p \notin appending /\ fd[p] # "none"
    BY Idles DEF IInv, ControlInv, Control, Renames, AppendLabels, SaveLabels
  <1>5. ~collided \/ ~overlap =>
          /\ fd[p] = "tmp" /\ tmpFile = memory[p] /\ stateFile' = memory[p]
          /\ \A q \in Procs \ {p} : fd[q] = "none"
    BY DEF IInv, SaveInv, ControlInv, Control, Renames
  <1>6. \A q \in Procs : fd'[q] = IF q = p THEN "none" ELSE Moved[fd[q]]
    BY DEF Renames
  <1>7. TypeOK'
    <2>1. fd' \in [Procs -> {"none", "tmp", "state", "unlinked"}]
      BY DEF IInv, TypeOK, Renames, Moved
    <2>2. Unread("missing") \in Contents
      BY DEF Contents
    <2> QED
      BY <1>1, <2>1, <2>2 DEF IInv, TypeOK, Renames, counters, history
  <1>8. FreshInv'
    <2>1. Used' \subseteq Used /\ Waiting' \subseteq Waiting /\ commands' >= commands
      BY <1>1, <1>2, <1>3, <1>4 DEF IInv, TypeOK, Used, Waiting, Mutating, Renames,
             counters, history, At, Active, Follows
    <2> QED
      BY <2>1, <1>7, FreshStays DEF IInv
  <1>9. ControlInv'
    <2>1. ASSUME NEW q \in Procs \ {p}
          PROVE  Control(q)'
      <3>1. Control(q)
        BY DEF IInv, ControlInv
      <3>2. /\ Active(q)' = Active(q) /\ cmd'[q] = cmd[q] /\ ok'[q] = ok[q] /\ at'[q] = at[q]
            /\ job'[q] = job[q] /\ cleanup'[q] = cleanup[q] /\ Label(q)' = Label(q)
            /\ (fd'[q] # "none" <=> fd[q] # "none")
            /\ (q \in written' <=> q \in written)
            /\ (q \in appending' <=> q \in appending)
        BY <1>1, <1>6, <2>1 DEF IInv, TypeOK, Renames, Active, Moved
      <3> QED
        BY <3>1, <3>2 DEF Control
    <2>2. Control(p)'
      <3>1. /\ UNCHANGED <<cmd, ok, job, cleanup, appending>> /\ fd'[p] = "none"
            /\ p \notin written'
        BY <1>6 DEF Renames
      <3>2. /\ Active(p) /\ Label(p) \notin {"load", "pick"} /\ job[p] # NoJob
            /\ (Label(p) = "open" => ok[p])
            /\ (cmd[p] \notin Deletions \/ job[p] = NoJob => cleanup[p] = {})
        BY DEF IInv, ControlInv, Control, Renames, SaveLabels
      <3>3. \/ Label(p) = "open" /\ Label(p)' = "begin"
            \/ Label(p) = "bind" /\ Label(p)' = "report"
            \/ Label(p) = "settle" /\ Label(p)' = "close"
        <4>1. /\ Follows(cmd[p], ok[p], "open") = "begin"
              /\ Follows(cmd[p], ok[p], "bind") = "report"
              /\ Follows(cmd[p], ok[p], "settle") = "close"
          BY DEF Follows
        <4>2. Label(p) = "open" \/ Label(p) = "bind" \/ Label(p) = "settle"
          BY DEF Renames, SaveLabels
        <4>3. Label(p)' = Follows(cmd[p], ok[p], Label(p))
          BY <1>1
        <4> QED
          BY <4>1, <4>2, <4>3
      <3>4. at'[p] \in 1..Len(Path(cmd[p], ok[p])) /\ Active(p)'
        BY <1>1, <3>1, <3>2 DEF At, Active
      <3> QED
        BY <1>4, <3>1, <3>2, <3>3, <3>4 DEF Control
    <2> QED
      BY <2>1, <2>2 DEF ControlInv
  <1>10. SaveInv'
    <2>1. UNCHANGED <<collided, overlap>>
      BY DEF Renames, history
    <2>2. ASSUME ~collided \/ ~overlap
          PROVE  (\A q \in Procs : fd'[q] = "none") /\ stateFile' \in States
      BY <1>5, <1>6, <2>2 DEF Moved, IInv, TypeOK
    <2> QED
      BY <2>1, <2>2 DEF SaveInv
  <1>11. AppendInv'
    BY <1>1, <1>2, <1>3, <1>4 DEF IInv, AppendInv, TypeOK, Renames, counters, history, At,
           Active, Follows
  <1>12. QuietInv'
    BY <1>1, <1>2, <1>3, <1>4 DEF IInv, QuietInv, TypeOK, Renames, counters, history, At,
           Active, Follows
  <1>13. AloneInv'
    BY <1>1, <1>2, <1>3, <1>4 DEF IInv, AloneInv, Mutating, TypeOK, Renames, counters,
           history, At, Active, Follows
  <1>14. HeldInv'
    <2>1. UNCHANGED <<cleanup, ledger, cmd, job, env, overlap>>
      BY DEF Renames, history
    <2>2. ASSUME NEW q \in Procs \ {p}
          PROVE  Held(q)'
      BY <1>1, <2>1, <2>2 DEF IInv, HeldInv, Held, Mutating
    <2>3. Label(p) \notin {"load", "pick", "announce"}
      BY DEF Renames, SaveLabels
    <2>4. Held(p)'
      BY <2>1, <2>3 DEF IInv, HeldInv, Held, Mutating
    <2> QED
      BY <2>2, <2>4 DEF HeldInv
  <1>15. OrderInv'
    BY <1>1, <1>2, <1>3, <1>4 DEF IInv, OrderInv, AloneInv, Mutating, TypeOK, Renames,
           counters, history, At, Active, Follows
  <1>16. MemoryInv'
    <2>1. UNCHANGED <<overlap, cmd, env, ok, memory>>
      BY DEF Renames, history
    <2>2. ASSUME ~overlap, NEW q \in Procs, Mutating(q)
          PROVE  q = p
      BY <1>1, <2>2 DEF IInv, AloneInv
    <2>3. fd'[p] = "none"
      BY <1>6
    <2>4. ASSUME ~overlap, Label(p)' = "close", ok[p]
          PROVE  /\ cmd[p] = "create" => stateFile'[env[p]] = "ready"
                 /\ cmd[p] = "delete" => stateFile'[env[p]] = "absent"
      <3>1. Label(p) = "settle"
        BY <1>1, <2>4 DEF Renames, SaveLabels, Follows
      <3>2. memory[p][env[p]] = Recorded(p)
        BY <1>1, <1>4, <2>4 DEF IInv, MemoryInv
      <3>3. /\ cmd[p] = "create" => Recorded(p) = "ready"
            /\ cmd[p] = "delete" => Recorded(p) = "absent"
        BY <2>4, <3>1 DEF Recorded
      <3> QED
        BY <1>5, <2>4, <3>2, <3>3
    <2>5. cmd[p] # "delete_keep"
      BY LabelFacts DEF IInv, Renames, SaveLabels
    <2>6. Label(p)' # "pick"
      BY <1>1 DEF Renames, SaveLabels, Follows
    <2> QED
      BY <1>1, <1>5, <2>1, <2>2, <2>3, <2>4, <2>5, <2>6 DEF MemoryInv, RecordFits, Mutating
  <1>17. LineageInv'
    <2>1. UNCHANGED <<overlap, cmd, env, ok, job, cleanup, ledger>>
      BY DEF Renames, history
    <2>2. ASSUME ~overlap, NEW q \in Procs, Mutating(q)
          PROVE  q = p
      BY <1>1, <2>2 DEF IInv, AloneInv
    <2>3. ASSUME cmd[p] \in Deletions, Label(p)' \in {"settle", "close"}
          PROVE  Label(p) = "settle"
      <3>1. Label(p) \notin {"open", "bind"}
        BY <2>3, LabelFacts DEF IInv
      <3> QED
        BY <3>1 DEF Renames, SaveLabels
    <2>4. ~overlap => \A e \in Envs : Lineages(e)' # {} => ~Settled(e)'
      BY <1>2 DEF IInv, LineageInv
    <2>5. PICK e : e = env[p]
      OBVIOUS
    <2>6. e \in Envs /\ e = env'[p]
      BY <2>1, <2>5 DEF IInv, TypeOK
    <2>7. ASSUME ~overlap, job[p] # NoJob
          PROVE  /\ ledger[job[p]].status # "none" => ~Settled(e)'
                 /\ Lineages(e)' \subseteq cleanup[p] \cup {job[p]}
                 /\ cmd[p] \in Deletions /\ ok[p] /\ Label(p)' \in {"settle", "close"}
                      => cleanup[p] = {}
      <3>1. /\ ledger[job[p]].status # "none" => ~Settled(e)
            /\ Lineages(e) \subseteq cleanup[p] \cup {job[p]}
            /\ cmd[p] \in Deletions /\ ok[p] /\ Label(p) = "settle" => cleanup[p] = {}
        BY <1>1, <2>5, <2>7 DEF IInv, LineageInv
      <3> QED
        BY <1>2, <2>3, <2>6, <3>1
    <2> QED
      BY <2>1, <2>2, <2>4, <2>6, <2>7 DEF LineageInv, Mutating
  <1>18. VerdictsAreRecorded'
    <2>1. UNCHANGED <<overlap, ledger>>
      BY DEF Renames, history
    <2>2. ASSUME ~overlap, NEW e \in Envs, NEW k \in LatestJob(e), ledger[k].status = "succeeded"
          PROVE  RecordFits(ledger[k].kind, e)'
      <3>1. e # env[p]
        <4>1. job[p] # NoJob
          BY <1>1 DEF IInv, ControlInv, Control, Active, Mutating, Renames, SaveLabels
        <4>2. ledger[job[p]].status # "none"
          BY <1>1 DEF IInv, HeldInv, Held, Renames, SaveLabels
        <4>3. ~Settled(env[p])
          BY <1>1, <2>2, <4>1, <4>2 DEF IInv, LineageInv
        <4> QED
          BY <2>2, <4>3 DEF Settled
      <3>2. stateFile'[e] = stateFile[e]
        <4>1. Label(p) # "load"
          BY DEF Renames, SaveLabels
        <4> QED
          BY <1>1, <1>5, <2>2, <3>1, <4>1 DEF IInv, MemoryInv, RecordFits
      <3> QED
        BY <2>1, <2>2, <3>2 DEF IInv, VerdictsAreRecorded, RecordFits
    <2> QED
      BY <1>2, <2>1, <2>2 DEF VerdictsAreRecorded, RecordFits
  <1> QED
    BY <1>7, <1>8, <1>9, <1>10, <1>11, <1>12, <1>13, <1>14, <1>15, <1>16, <1>17, <1>18 DEF
           IInv

-----------------------------------------------------------------------------
(* The invariant holds at first,                                           *)
LEMMA InitEstablishes ==
  ASSUME Init
  PROVE  IInv
  <1>1. TypeOK
    <2>1. AnyEnv \in Envs /\ NothingYet \in States
      BY Blanks
    <2>2. Unread("missing") \in Contents /\ NothingYet \in Contents
      BY <2>1 DEF Contents
    <2>3. ledger \in [Jobs -> [env : Envs, kind : Mutations, status : Statuses]]
      BY <2>1 DEF Init, Statuses
    <2>4. /\ cmd \in [Procs -> Mutations \cup {"none", "cancel"}]
          /\ env \in [Procs -> Envs] /\ at \in [Procs -> 1..10] /\ ok \in [Procs -> BOOLEAN]
          /\ job \in [Procs -> Jobs \cup {NoJob}] /\ cleanup \in [Procs -> SUBSET Jobs]
          /\ memory \in [Procs -> States] /\ fd \in [Procs -> {"none", "tmp", "state", "unlinked"}]
      BY <2>1 DEF Init
    <2>5. commands \in 0..MaxCommands /\ crashes \in 0..MaxCrashes
      BY BoundsAssumption DEF Init
    <2> QED
      BY <2>2, <2>3, <2>4, <2>5 DEF Init, TypeOK
  <1>2. /\ \A p \in Procs : /\ ~Mutating(p) /\ ~Active(p) /\ Label(p) = "idle"
                            /\ fd[p] = "none" /\ job[p] = NoJob /\ cleanup[p] = {}
        /\ \A j \in Jobs : ledger[j].status = "none"
    BY DEF Init, Mutating, Active, Label
  <1>3. FreshInv
    <2>1. Waiting = {} /\ Used = {}
      BY <1>2, Blanks DEF Waiting, Used
    <2>2. IsFiniteSet({}) /\ Cardinality({}) = 0
      BY FS_EmptySet
    <2> QED
      BY <2>1, <2>2 DEF FreshInv, Init
  <1>4. ControlInv
    <2>1. ASSUME NEW p \in Procs
          PROVE  Control(p)
      <3>1. at[p] = 1 /\ ok[p] = TRUE /\ p \notin written /\ p \notin appending
        BY DEF Init
      <3>2. ~Active(p) /\ job[p] = NoJob /\ cleanup[p] = {} /\ fd[p] = "none"
        BY <1>2
      <3>3. ok[p]
        BY <3>1
      <3> QED
        BY <3>1, <3>2, <3>3 DEF Control
    <2> QED
      BY <2>1, Zenon DEF ControlInv
  <1>5. SaveInv /\ AppendInv /\ QuietInv /\ AloneInv
    BY <1>2, Blanks DEF Init, SaveInv, AppendInv, QuietInv, AloneInv
  <1>6. HeldInv /\ OrderInv /\ MemoryInv
    BY <1>2, Blanks DEF Init, HeldInv, Held, OrderInv, MemoryInv
  <1>7. \A e \in Envs : Lineages(e) = {} /\ LatestJob(e) = {}
    BY <1>2 DEF Lineages, LatestJob
  <1>8. LineageInv /\ VerdictsAreRecorded
    BY <1>2, <1>7 DEF LineageInv, VerdictsAreRecorded, RecordFits
  <1> QED
    BY <1>1, <1>3, <1>4, <1>5, <1>6, <1>8 DEF IInv

(* through a stutter,                                                      *)
LEMMA StutterKeeps ==
  ASSUME IInv, UNCHANGED vars
  PROVE  IInv'
  <1>1. /\ UNCHANGED <<ledger, damaged, stateFile, tmpFile, cmd, env, at, ok, job, cleanup, memory,
                       appending, fd, written, commands, crashes, overlap, collided,
                       canceledOnce, quiet>>
    BY DEF vars, files, process, counters, history
  <1>2. \A p \in Procs : Label(p)' = Label(p) /\ Recorded(p)' = Recorded(p)
    BY <1>1 DEF Label, Recorded
  <1>3. \A e \in Envs : Lineages(e)' = Lineages(e) /\ LatestJob(e)' = LatestJob(e)
                        /\ Settled(e)' = Settled(e)
    BY <1>1, LedgerStays
  <1>4. TypeOK' /\ FreshInv' /\ SaveInv' /\ AppendInv' /\ QuietInv' /\ AloneInv' /\ OrderInv'
    BY <1>1 DEF IInv, TypeOK, FreshInv, Waiting, Used, SaveInv, AppendInv, QuietInv, AloneInv,
                OrderInv, Mutating
  <1>5. ControlInv'
    BY <1>1, <1>2 DEF IInv, ControlInv, Control, Active
  <1>6. HeldInv' /\ MemoryInv'
    BY <1>1, <1>2 DEF IInv, HeldInv, Held, MemoryInv, RecordFits, Mutating
  <1>7. LineageInv'
    <2>1. \A p \in Procs : env[p] \in Envs
      BY DEF IInv, TypeOK
    <2> QED
      BY <1>1, <1>2, <1>3, <2>1 DEF IInv, LineageInv, Mutating
  <1>8. VerdictsAreRecorded'
    BY <1>1, <1>3 DEF IInv, VerdictsAreRecorded, RecordFits
  <1> QED
    BY <1>4, <1>5, <1>6, <1>7, <1>8 DEF IInv

(* and through every step.                                                 *)
LEMMA StepKeeps ==
  ASSUME IInv, NEW p \in Procs, Step(p)
  PROVE  IInv'
  <1>1. ASSUME NEW c \in Mutations, NEW e \in Envs, Start(p, c, e)
        PROVE  IInv'
    BY <1>1, StartKeeps DEF Commands
  <1>2. CASE Start(p, "cancel", AnyEnv)
    <2>1. PICK e : e = AnyEnv
      OBVIOUS
    <2>2. e \in Envs /\ Start(p, "cancel", e) /\ "cancel" \in Commands
      BY <1>2, <2>1, Blanks DEF Commands
    <2> QED
      BY <2>2, StartKeeps
  <1>3. CASE Load(p)
    BY <1>3, LoadCases, LoadsKeeps, DiesKeeps
  <1>4. CASE PickCreate(p) \/ PickDelete(p) \/ PickCancel(p)
    <2>1. CASE Dies(p)
      BY <2>1, DiesKeeps
    <2>2. ASSUME NEW j, NEW taken, Picks(p, j, taken)
          PROVE  IInv'
      BY <2>2, PicksKeeps
    <2> QED
      BY <1>4, <2>1, <2>2, PickCases
  <1>5. CASE AppendBegins(p)
    BY <1>5, AppendBeginsKeeps
  <1>6. CASE AppendEnds(p)
    <2>1. ASSUME NEW j, Reconciles(p, j)
          PROVE  IInv'
      BY <2>1, ReconcilesKeeps
    <2> QED
      BY <1>6, <2>1, AppendCases, ReportsKeeps, ClosesKeeps, CancelsKeeps
  <1>7. CASE NothingToReconcile(p)
    BY <1>7, NothingToReconcileKeeps
  <1>8. ASSUME NEW success \in BOOLEAN, Work(p, success)
        PROVE  IInv'
    BY <1>8, WorkKeeps
  <1>9. CASE SaveOpens(p)
    BY <1>9, SaveOpensKeeps
  <1>10. CASE SaveWrites(p)
    BY <1>10, SaveWritesKeeps
  <1>11. CASE SaveRenames(p)
    BY <1>11, RenameCases, RenamesKeeps, DiesKeeps
  <1>12. CASE Crash(p)
    BY <1>12, CrashCases, DiesKeeps
  <1> QED
    BY <1>1, <1>2, <1>3, <1>4, <1>5, <1>6, <1>7, <1>8, <1>9, <1>10, <1>11, <1>12 DEF Step

-----------------------------------------------------------------------------
(* The theorems.                                                           *)

(* Every reachable state satisfies the inductive invariant.                *)
THEOREM ConcurrentInvariance == Spec => []IInv
  <1>1. Init => IInv
    BY InitEstablishes
  <1>2. IInv /\ [Next]_vars => IInv'
    BY StepKeeps, StutterKeeps DEF Next
  <1> QED
    BY <1>1, <1>2, PTL DEF Spec

(* Type correctness: every variable stays in its set, the files included.  *)
THEOREM ConcurrentTypeCorrect == Spec => []TypeOK
  <1>1. IInv => TypeOK
    BY DEF IInv
  <1> QED
    BY <1>1, ConcurrentInvariance, PTL

(* Unless two processes wrote at once, or one stopped inside an append, the*)
(* ledger parses and the state file is a state: a save that is cut anywhere*)
(* (StateStore::save) leaves the old file or the new one.                  *)
THEOREM FilesAlwaysReadable == Spec => []FilesAreReadable
  <1>1. IInv => FilesAreReadable
    BY DEF IInv, SaveInv, AppendInv, FilesAreReadable
  <1> QED
    BY <1>1, ConcurrentInvariance, PTL

(* A job that jobs::Cancel canceled while no process had it in memory is   *)
(* never written as anything but canceled or reconciled.                   *)
THEOREM QuietCancelAlwaysFinal == Spec => []QuietCancelIsFinal
  <1>1. IInv => QuietCancelIsFinal
    BY DEF IInv, QuietInv, QuietCancelIsFinal
  <1> QED
    BY <1>1, ConcurrentInvariance, PTL

(* As long as no two creates or deletes ran at the same time, an           *)
(* environment whose last job succeeded is in the state file as that job   *)
(* left it: ready after a create, gone after a delete, whatever was killed *)
(* in between and whatever was canceled meanwhile.                         *)
THEOREM VerdictsAlwaysRecorded == Spec => []VerdictsAreRecorded
  <1>1. IInv => VerdictsAreRecorded
    BY DEF IInv
  <1> QED
    BY <1>1, ConcurrentInvariance, PTL
=============================================================================
