------------------------ MODULE AgentProcesses_proof ------------------------
(***************************************************************************)
(* Proofs about how the CLIs of agents are run (CliRunner, as part of      *)
(* AgentProcesses) and about the homes that are made for them (Isolation). *)
(***************************************************************************)
EXTENDS AgentProcesses, Isolation, SequenceTheorems, TLAPS

-----------------------------------------------------------------------------
(* A run of a CLI.                                                         *)

\* The timers: the one of the timeout is off only for a reason that armed
\* another one, and the one that kills goes off only when the child is dead.
TimersExplained ==
  Cli!Awaiting =>
    /\ cliChild # "dead" /\ terminated => killHandle = "armed"
    /\ cliChild # "dead" /\ ~terminated =>
         /\ ~resultCompleted => timeoutHandle = "armed"
         /\ resultCompleted => resultExitHandle = "armed"
    /\ cliChild = "spawning" => ~terminated /\ ~resultCompleted
    /\ ~terminated => killHandle = "unset"

\* Who called terminate().
WhyTerminated ==
  /\ resultExitHandle = "armed" => resultCompleted
  /\ terminated => killedByTimeout \/ killedByAbortSignal \/ abortReason \/ resultCompleted

\* A settled run has no child.
Settled == ~Cli!Awaiting => cliChild # "alive"

RunInv ==
  /\ Cli!TypeOK
  /\ TimersExplained
  /\ WhyTerminated
  /\ Settled
  /\ Cli!AlwaysWatched
  /\ Cli!TerminatedRunNeedsResult
  /\ Cli!OnlyLateTimersRemain

LEMMA RunInitial == Cli!Init => RunInv
BY DEF Cli!Init, RunInv, Cli!TypeOK, TimersExplained, WhyTerminated, Settled, Cli!AlwaysWatched,
       Cli!TerminatedRunNeedsResult, Cli!OnlyLateTimersRemain,
       Cli!Awaiting, Cli!LineKind, Cli!ExitPolicy, Cli!Timer, Cli!Verdict

LEMMA RunInductive == RunInv /\ [Cli!Next]_(Cli!vars) => RunInv'
<1> SUFFICES ASSUME RunInv, [Cli!Next]_(Cli!vars) PROVE RunInv'
  OBVIOUS
<1> USE DEF RunInv, Cli!TypeOK, TimersExplained, WhyTerminated, Settled, Cli!AlwaysWatched,
       Cli!TerminatedRunNeedsResult, Cli!OnlyLateTimersRemain,
       Cli!Awaiting, Cli!LineKind, Cli!ExitPolicy, Cli!Timer, Cli!Verdict, Cli!Cleared,
       Cli!Terminate, Cli!childVars, Cli!timerVars, Cli!flagVars
<1>1. CASE Cli!Spawned
  BY <1>1 DEF Cli!Spawned
<1>2. CASE Cli!SpawnFails
  BY <1>2 DEF Cli!SpawnFails, Cli!ClearAll
<1>3. CASE Cli!TimeoutFires
  BY <1>3 DEF Cli!TimeoutFires
<1>4. CASE Cli!ResultExitFires
  <2>1. Cli!TypeOK'
    BY <1>4 DEF Cli!ResultExitFires
  <2>2. TimersExplained'
    BY <1>4 DEF Cli!ResultExitFires
  <2>3. Settled'
    BY <1>4 DEF Cli!ResultExitFires
  <2>4. Cli!AlwaysWatched'
    BY <1>4 DEF Cli!ResultExitFires
  <2>5. Cli!OnlyLateTimersRemain'
    BY <1>4 DEF Cli!ResultExitFires
  <2>6. WhyTerminated'
    BY <1>4 DEF Cli!ResultExitFires
  <2>7. Cli!TerminatedRunNeedsResult'
    BY <1>4 DEF Cli!ResultExitFires
  <2> QED
    BY <2>1, <2>2, <2>3, <2>4, <2>5, <2>6, <2>7

<1>5. CASE Cli!KillFires
  BY <1>5 DEF Cli!KillFires, Cli!CodeOfSignal, Cli!ReleasePipes
<1>6. CASE Cli!Abort
  <2>1. Cli!TypeOK'
    <3>1. killHandle' \in Cli!Timer
      BY <1>6 DEF Cli!Abort
    <3>2. cliListening' \in BOOLEAN /\ terminated' \in BOOLEAN /\ killedByAbortSignal' \in BOOLEAN
      BY <1>6 DEF Cli!Abort
    <3>3. abortReason' \in BOOLEAN
      BY <1>6 DEF Cli!Abort
    <3> QED
      BY <1>6, <3>1, <3>2, <3>3 DEF Cli!Abort
  <2>2. TimersExplained'
    BY <1>6 DEF Cli!Abort
  <2>3. Settled'
    BY <1>6 DEF Cli!Abort
  <2>4. Cli!AlwaysWatched'
    BY <1>6 DEF Cli!Abort
  <2>5. Cli!OnlyLateTimersRemain'
    BY <1>6 DEF Cli!Abort
  <2>6. WhyTerminated'
    BY <1>6 DEF Cli!Abort
  <2>7. Cli!TerminatedRunNeedsResult'
    BY <1>6 DEF Cli!Abort
  <2> QED
    BY <2>1, <2>2, <2>3, <2>4, <2>5, <2>6, <2>7

<1>7. ASSUME NEW kind \in Cli!LineKind, Cli!Output(kind) PROVE RunInv'
  <2>1. Cli!TypeOK'
    BY <1>7 DEF Cli!Output, Cli!Consume
  <2>2. TimersExplained'
    BY <1>7 DEF Cli!Output, Cli!Consume
  <2>3. Settled'
    BY <1>7 DEF Cli!Output, Cli!Consume
  <2>4. Cli!AlwaysWatched'
    BY <1>7 DEF Cli!Output, Cli!Consume
  <2>5. Cli!OnlyLateTimersRemain'
    BY <1>7 DEF Cli!Output, Cli!Consume
  <2>6. WhyTerminated'
    BY <1>7 DEF Cli!Output, Cli!Consume
  <2>7. Cli!TerminatedRunNeedsResult'
    BY <1>7 DEF Cli!Output, Cli!Consume
  <2> QED
    BY <2>1, <2>2, <2>3, <2>4, <2>5, <2>6, <2>7

<1>8. ASSUME NEW kind \in Cli!LineKind, Cli!LeaveLine(kind) PROVE RunInv'
  BY <1>8 DEF Cli!LeaveLine
<1>9. ASSUME NEW code \in {"zero", Cli!CodeOfSignal}, Cli!ChildExits(code) PROVE RunInv'
  BY <1>9 DEF Cli!ChildExits, Cli!CodeOfSignal, Cli!ReleasePipes
<1>10. CASE Cli!OtherExits
  BY <1>10 DEF Cli!OtherExits
<1>11. CASE Cli!Close
  <2>1. Cli!TypeOK'
    BY <1>11 DEF Cli!Close, Cli!ClearAll, Cli!EndOfOutput, Cli!Judge
  <2>2. TimersExplained'
    BY <1>11 DEF Cli!Close, Cli!ClearAll, Cli!EndOfOutput, Cli!Judge
  <2>3. Settled'
    BY <1>11 DEF Cli!Close, Cli!ClearAll, Cli!EndOfOutput, Cli!Judge
  <2>4. Cli!AlwaysWatched'
    BY <1>11 DEF Cli!Close, Cli!ClearAll, Cli!EndOfOutput, Cli!Judge
  <2>5. Cli!OnlyLateTimersRemain'
    BY <1>11 DEF Cli!Close, Cli!ClearAll, Cli!EndOfOutput, Cli!Judge
  <2>6. WhyTerminated'
    BY <1>11 DEF Cli!Close, Cli!ClearAll, Cli!EndOfOutput, Cli!Judge
  <2>7. Cli!TerminatedRunNeedsResult'
    BY <1>11 DEF Cli!Close, Cli!ClearAll, Cli!EndOfOutput, Cli!Judge
  <2> QED
    BY <2>1, <2>2, <2>3, <2>4, <2>5, <2>6, <2>7

<1>12. CASE UNCHANGED Cli!vars
  BY <1>12 DEF Cli!vars
<1> QED
  BY <1>1, <1>2, <1>3, <1>4, <1>5, <1>6, <1>7, <1>8, <1>9, <1>10, <1>11, <1>12 DEF Cli!Next

\* A step of either is a step of CliRunner or one that it does not see.
LEMMA RunStep == [SpawnNext]_spawnVars => [Cli!Next]_(Cli!vars)
<1> SUFFICES ASSUME [SpawnNext]_spawnVars PROVE [Cli!Next]_(Cli!vars)
  OBVIOUS
<1>1. cliVars' = cliVars => Cli!vars' = Cli!vars
  BY DEF cliVars, Cli!vars, Cli!childVars, Cli!timerVars, Cli!flagVars
<1>2. CASE CliStep(Cli!Next)
  BY <1>2 DEF CliStep
<1>3. CASE AgyStep(AgyNext)
  BY <1>1, <1>3 DEF AgyStep
<1>4. CASE UNCHANGED spawnVars
  BY <1>1, <1>4 DEF spawnVars
<1> QED
  BY <1>2, <1>3, <1>4 DEF SpawnNext

LEMMA RunAlways == SpawnSpec => []RunInv
<1>1. SpawnInit => RunInv
  BY RunInitial DEF SpawnInit
<1>2. RunInv /\ [SpawnNext]_spawnVars => RunInv'
  BY RunStep, RunInductive
<1> QED
  BY <1>1, <1>2, PTL DEF SpawnSpec

\* The runs of a CLI are runs of CliRunner.
THEOREM RunsOfCli == SpawnSpec => Cli!Spec
<1>1. SpawnInit => Cli!Init
  BY DEF SpawnInit
<1> QED
  BY <1>1, RunStep, PTL DEF SpawnSpec, Cli!Spec

\* The state of a run keeps its shape.
THEOREM RunTypeCorrect == SpawnSpec => []Cli!TypeOK
BY RunAlways, PTL DEF RunInv

\* A living child is always watched by a timer.
THEOREM Watched == SpawnSpec => []Cli!AlwaysWatched
BY RunAlways, PTL DEF RunInv

\* The verdict fits what terminated the run and what its result was.
THEOREM VerdictFits == SpawnSpec => []TerminatedRunNeedsResult
BY RunAlways, PTL DEF RunInv, TerminatedRunNeedsResult

\* A settled run leaves no timer but those its last line armed.
THEOREM TimersCleared == SpawnSpec => []Cli!OnlyLateTimersRemain
BY RunAlways, PTL DEF RunInv

-----------------------------------------------------------------------------
(* What a call has still to do.                                            *)

DirOps  == {"rm", "mkdir", "copy"}
FileOps == {"write", "remove"}
LinkOps == {"readlink", "unlink", "symlink"}

Operation ==
  [op : {"home"}, what : {None}, item : {None}]
    \cup [op : {"rm", "mkdir"}, what : Dirs, item : {None}]
    \cup [op : {"copy"}, what : Dirs, item : Items]
    \cup [op : FileOps, what : Files, item : {None}]
    \cup [op : LinkOps \cup {"source", "lstat"}, what : Links, item : {None}]

\* What the preparation for a request is about.
Synced(q) ==
  {"skills"} \cup (IF agent = "claude" THEN {"agents"} ELSE {})
    \cup (IF agent = "codex" /\ q.dirs["roles"] # <<>> THEN {"roles"} ELSE {})

Written(q) ==
  IF agent = "codex" THEN {"config"}
  ELSE q.given \cup (IF agent = "claude" THEN {"settings"} ELSE {})

Removed(q) == IF agent = "claude" /\ "prompt" \notin q.given THEN {"prompt"} ELSE {}

Linked == IF agent = "agy" THEN "skills" ELSE "credentials"

Has(ops, op, x) == \E a \in ops : a.op = op /\ a.what = x

HasHome(ops) == \E a \in ops : a.op = "home"

Copied(ops, d) == {a.item : a \in {b \in ops : b.op = "copy" /\ b.what = d}}

\* Operation b may come somewhere after a.
Order == {<<"rm", "mkdir">>, <<"rm", "copy">>, <<"mkdir", "copy">>, <<"copy", "copy">>,
          <<"rm", "lstat">>, <<"mkdir", "lstat">>, <<"copy", "lstat">>,
          <<"source", "lstat">>, <<"unlink", "symlink">>}

Fits(a, b) ==
  /\ b.op # "home"
  /\ a.op = "home" \/ a.what # b.what \/ <<a.op, b.op>> \in Order

Ordered(R) == \A i, j \in 1..Len(R) : i < j => Fits(R[i], R[j])

\* Nothing was done yet.
Fresh(ops, q) ==
  /\ \A d \in Synced(q) :
       Has(ops, "rm", d) /\ Has(ops, "mkdir", d) /\ Copied(ops, d) = Entries(q.dirs[d])
  /\ \A f \in Written(q) : Has(ops, "write", f)
  /\ \A f \in Removed(q) : Has(ops, "remove", f)
  /\ Has(ops, "lstat", Linked)

\* The operations on a link are done at once, when it is known what is there.
LinksFirst(R) ==
  /\ \A i \in 1..Len(R) : R[i].op \in LinkOps => i = 1 \/ (i = 2 /\ R[1].op = "unlink")
  /\ Len(R) > 0 /\ R[1].op = "unlink" =>
       Len(R) > 1 /\ R[2].op = "symlink" /\ R[2].what = R[1].what

\* Without credentials agy is done: their link comes last.
SourceLast(R) ==
  agent = "agy" =>
    \A i \in 1..Len(R) :
      R[i].op = "source" => i + 1 = Len(R) /\ R[i + 1].op = "lstat" /\ R[i + 1].what = "credentials"

\* It does what was asked for and nothing else.
OfRequest(ops, q) ==
  \A a \in ops :
    /\ a.op \in DirOps => a.what \in Synced(q)
    /\ a.op = "write" => a.what \notin Removed(q)
    /\ a.op = "remove" => a.what \in Removed(q)

Planned(R, q) ==
  /\ R \in Seq(Operation)
  /\ Ordered(R)
  /\ LinksFirst(R)
  /\ SourceLast(R)
  /\ OfRequest(Entries(R), q)
  /\ HasHome(Entries(R)) => Fresh(Entries(R), q)

-----------------------------------------------------------------------------
(* The plans.                                                              *)

\* A part of a plan: these operations, in an order that is right.
Part(R, ops) == R \in Seq(Operation) /\ Ordered(R) /\ Entries(R) = ops

LEMMA EntriesIn ==
  ASSUME NEW S, NEW R \in Seq(S)
  PROVE  /\ Entries(R) \subseteq S
         /\ \A i \in 1..Len(R) : R[i] \in Entries(R)
         /\ \A a \in Entries(R) : \E i \in 1..Len(R) : a = R[i]
BY ElementOfSeq, LenProperties DEF Entries

LEMMA EntriesOfConcat ==
  ASSUME NEW S, NEW R \in Seq(S), NEW T \in Seq(S)
  PROVE  Entries(R \o T) = Entries(R) \cup Entries(T)
<1>1. /\ R \o T \in Seq(S) /\ Len(R \o T) = Len(R) + Len(T)
      /\ \A i \in 1..(Len(R) + Len(T)) : (R \o T)[i] = IF i <= Len(R) THEN R[i] ELSE T[i - Len(R)]
      /\ Len(R) \in Nat /\ Len(T) \in Nat
  BY ConcatProperties, LenProperties
<1>2. DOMAIN (R \o T) = 1..(Len(R) + Len(T)) /\ DOMAIN R = 1..Len(R) /\ DOMAIN T = 1..Len(T)
  BY <1>1, LenProperties
<1> DEFINE C == R \o T
<1>3. /\ DOMAIN C = 1..(Len(R) + Len(T))
      /\ \A i \in 1..(Len(R) + Len(T)) : C[i] = IF i <= Len(R) THEN R[i] ELSE T[i - Len(R)]
  BY <1>1, <1>2
<1> HIDE DEF C
<1>4. \A i \in 1..Len(R) : i \in DOMAIN C /\ C[i] = R[i]
  BY <1>1, <1>3
<1>5. \A i \in 1..Len(T) : Len(R) + i \in DOMAIN C /\ C[Len(R) + i] = T[i]
  BY <1>1, <1>3
<1>6. \A i \in DOMAIN C : (i \in 1..Len(R) /\ C[i] = R[i]) \/ (i - Len(R) \in 1..Len(T) /\ C[i] = T[i - Len(R)])
  BY <1>1, <1>3
<1>7. Entries(C) = Entries(R) \cup Entries(T)
  BY <1>2, <1>4, <1>5, <1>6 DEF Entries
<1> QED
  BY <1>7 DEF C

LEMMA Joined ==
  ASSUME NEW R, NEW T, NEW A, NEW B, Part(R, A), Part(T, B),
         \A a \in A, b \in B : Fits(a, b)
  PROVE  Part(R \o T, A \cup B)
<1>1. /\ R \in Seq(Operation) /\ T \in Seq(Operation)
      /\ R \o T \in Seq(Operation) /\ Len(R \o T) = Len(R) + Len(T)
      /\ \A i \in 1..(Len(R) + Len(T)) : (R \o T)[i] = IF i <= Len(R) THEN R[i] ELSE T[i - Len(R)]
      /\ Len(R) \in Nat /\ Len(T) \in Nat
  BY ConcatProperties, LenProperties DEF Part
<1>2. Entries(R \o T) = A \cup B
  BY <1>1, EntriesOfConcat DEF Part
<1> DEFINE C == R \o T
<1>3. /\ Len(C) = Len(R) + Len(T)
      /\ \A i \in 1..(Len(R) + Len(T)) : C[i] = IF i <= Len(R) THEN R[i] ELSE T[i - Len(R)]
  BY <1>1
<1> HIDE DEF C
<1>4. ASSUME NEW i \in 1..Len(C), NEW j \in 1..Len(C), i < j PROVE Fits(C[i], C[j])
  <2>1. CASE j <= Len(R)
    <3>1. i \in 1..Len(R) /\ j \in 1..Len(R) /\ C[i] = R[i] /\ C[j] = R[j]
      BY <1>1, <1>3, <1>4, <2>1
    <3> QED
      BY <1>4, <3>1 DEF Part, Ordered
  <2>2. CASE i > Len(R)
    <3>1. /\ i - Len(R) \in 1..Len(T) /\ j - Len(R) \in 1..Len(T) /\ i - Len(R) < j - Len(R)
          /\ C[i] = T[i - Len(R)] /\ C[j] = T[j - Len(R)]
      BY <1>1, <1>3, <1>4, <2>2
    <3> QED
      BY <3>1 DEF Part, Ordered
  <2>3. CASE i <= Len(R) /\ j > Len(R)
    <3>1. i \in 1..Len(R) /\ j - Len(R) \in 1..Len(T) /\ C[i] = R[i] /\ C[j] = T[j - Len(R)]
      BY <1>1, <1>3, <2>3
    <3>2. R[i] \in A /\ T[j - Len(R)] \in B
      BY <1>1, <3>1, EntriesIn DEF Part
    <3> QED
      BY <3>1, <3>2
  <2> QED
    BY <1>1, <1>3, <2>1, <2>2, <2>3
<1> QED
  BY <1>1, <1>2, <1>4 DEF C, Part, Ordered

LEMMA OneOp ==
  ASSUME NEW a \in Operation
  PROVE  Part(<<a>>, {a})
BY DEF Part, Ordered, Entries

LEMMA TwoOps ==
  ASSUME NEW a \in Operation, NEW b \in Operation, Fits(a, b)
  PROVE  Part(<<a, b>>, {a, b})
<1>1. \A i, j \in 1..2 : i < j => i = 1 /\ j = 2
  OBVIOUS
<1>2. <<a, b>> \in Seq(Operation) /\ Len(<<a, b>>) = 2 /\ DOMAIN <<a, b>> = {1, 2}
  OBVIOUS
<1> QED
  BY <1>1, <1>2 DEF Part, Ordered, Entries

LEMMA NoOps == Part(<<>>, {})
BY EmptySeq DEF Part, Ordered, Entries

CopyOp(d, x) == [op |-> "copy", what |-> d, item |-> x]

SyncOps(d, list) == {Op("rm", d), Op("mkdir", d)} \cup {CopyOp(d, x) : x \in Entries(list)}

LEMMA SyncPart ==
  ASSUME NEW d \in Dirs, NEW list \in Seq(Items)
  PROVE  Part(Sync(d, list), SyncOps(d, list))
<1> DEFINE copies == [i \in DOMAIN list |-> [op |-> "copy", what |-> d, item |-> list[i]]]
<1>1. DOMAIN list = 1..Len(list) /\ Len(list) \in Nat /\ \A i \in 1..Len(list) : list[i] \in Items
  BY LenProperties, ElementOfSeq
<1>2. \A i \in 1..Len(list) : copies[i] = CopyOp(d, list[i]) /\ CopyOp(d, list[i]) \in Operation
  BY <1>1 DEF CopyOp, Operation, DirOps
<1>3. copies \in Seq(Operation) /\ Len(copies) = Len(list) /\ DOMAIN copies = 1..Len(list)
  BY <1>1, <1>2
<1> HIDE DEF copies
<1>4. Part(copies, {CopyOp(d, x) : x \in Entries(list)})
  <2>1. Entries(copies) = {CopyOp(d, x) : x \in Entries(list)}
    BY <1>1, <1>2, <1>3 DEF Entries
  <2>2. \A x, y : Fits(CopyOp(d, x), CopyOp(d, y))
    BY DEF Fits, CopyOp, Order
  <2> QED
    BY <1>2, <1>3, <2>1, <2>2 DEF Part, Ordered
<1>5. Part(<<Op("rm", d), Op("mkdir", d)>>, {Op("rm", d), Op("mkdir", d)})
  <2>1. Op("rm", d) \in Operation /\ Op("mkdir", d) \in Operation
    BY DEF Op, Operation, DirOps
  <2>2. Fits(Op("rm", d), Op("mkdir", d))
    BY DEF Fits, Op, Order
  <2> QED
    BY <2>1, <2>2, TwoOps
<1>6. \A a \in {Op("rm", d), Op("mkdir", d)}, b \in {CopyOp(d, x) : x \in Entries(list)} : Fits(a, b)
  BY DEF Fits, Op, CopyOp, Order
<1> QED
  BY <1>4, <1>5, <1>6, Joined DEF Sync, SyncOps, copies

LEMMA HomePart == Part(<<Op("home", None)>>, {Op("home", None)})
<1>1. Op("home", None) \in Operation
  BY DEF Op, Operation
<1> QED
  BY <1>1, OneOp

SharedOps == {Op("source", "credentials"), Op("lstat", "credentials")}

LEMMA LinkSharedPart == Part(LinkShared, SharedOps)
<1>1. Op("source", "credentials") \in Operation /\ Op("lstat", "credentials") \in Operation
  BY DEF Op, Operation, Links
<1>2. Fits(Op("source", "credentials"), Op("lstat", "credentials"))
  BY DEF Fits, Op, Order
<1> QED
  BY <1>1, <1>2, TwoOps DEF LinkShared, SharedOps

LEMMA FilePart ==
  ASSUME NEW op \in FileOps, NEW f \in Files
  PROVE  Part(<<Op(op, f)>>, {Op(op, f)})
<1>1. Op(op, f) \in Operation
  BY DEF Op, Operation
<1> QED
  BY <1>1, OneOp

LEMMA GivenPart ==
  ASSUME NEW q, NEW f \in Files
  PROVE  Part(WriteGiven(f, q), {Op("write", g) : g \in {f} \cap q.given})
<1>1. CASE f \in q.given
  <2>1. {Op("write", g) : g \in {f} \cap q.given} = {Op("write", f)}
    BY <1>1
  <2> QED
    BY <1>1, <2>1, FilePart DEF WriteGiven, FileOps
<1>2. CASE f \notin q.given
  <2>1. {Op("write", g) : g \in {f} \cap q.given} = {}
    BY <1>2
  <2> QED
    BY <1>2, <2>1, NoOps DEF WriteGiven
<1> QED
  BY <1>1, <1>2

LEMMA RequestType ==
  ASSUME NEW q \in Requests
  PROVE  /\ q.persistent \in BOOLEAN
         /\ q.given \subseteq {"prompt", "settings"}
         /\ \A d \in Dirs : q.dirs[d] \in Seq(Items)
BY RequestsAssumption

\* All of them begin so, but that of codex.
FirstOps(q) == {Op("home", None)} \cup SyncOps("skills", q.dirs["skills"])

LEMMA FirstPart ==
  ASSUME NEW q \in Requests
  PROVE  Part(<<Op("home", None)>> \o Sync("skills", q.dirs["skills"]), FirstOps(q))
<1>1. Part(Sync("skills", q.dirs["skills"]), SyncOps("skills", q.dirs["skills"]))
  BY SyncPart, RequestType DEF Dirs
<1>2. \A a \in {Op("home", None)}, b \in SyncOps("skills", q.dirs["skills"]) : Fits(a, b)
  BY DEF Fits, Op, SyncOps, CopyOp
<1> QED
  BY <1>1, <1>2, HomePart, Joined DEF FirstOps

ClaudeFiles(q) ==
  {Op(IF "prompt" \in q.given THEN "write" ELSE "remove", "prompt"), Op("write", "settings")}

LEMMA ClaudePart ==
  ASSUME NEW q \in Requests
  PROVE  Part(ClaudePlan(q), FirstOps(q) \cup SyncOps("agents", q.dirs["agents"])
                               \cup ClaudeFiles(q) \cup SharedOps)
<1> DEFINE op    == Op(IF "prompt" \in q.given THEN "write" ELSE "remove", "prompt")
           files == <<op, Op("write", "settings")>>
           P1 == <<Op("home", None)>> \o Sync("skills", q.dirs["skills"])
           P2 == P1 \o SyncAgents(q)
           P3 == P2 \o files
           A2 == FirstOps(q) \cup SyncOps("agents", q.dirs["agents"])
           A3 == A2 \cup ClaudeFiles(q)
<1>1. Part(P2, A2)
  <2>1. Part(SyncAgents(q), SyncOps("agents", q.dirs["agents"]))
    BY SyncPart, RequestType DEF Dirs, SyncAgents
  <2>2. \A a \in FirstOps(q), b \in SyncOps("agents", q.dirs["agents"]) : Fits(a, b)
    BY DEF Fits, Op, SyncOps, CopyOp, FirstOps
  <2> QED
    BY <2>1, <2>2, FirstPart, Joined
<1>2. Part(files, ClaudeFiles(q))
  <2>1. op \in Operation /\ Op("write", "settings") \in Operation
    BY DEF Op, Operation, FileOps, Files
  <2>2. Fits(op, Op("write", "settings"))
    BY DEF Fits, Op
  <2> QED
    BY <2>1, <2>2, TwoOps DEF ClaudeFiles
<1>3. \A a \in A2, b \in ClaudeFiles(q) : Fits(a, b)
  BY DEF Fits, Op, SyncOps, CopyOp, FirstOps, ClaudeFiles
<1>4. \A a \in A3, b \in SharedOps : Fits(a, b)
  BY DEF Fits, Op, SyncOps, CopyOp, FirstOps, ClaudeFiles, SharedOps
<1>5. Part(P3, A3)
  <2> HIDE DEF P2, A2, files
  <2> QED
    BY <1>1, <1>2, <1>3, Joined
<1>6. Part(P3 \o LinkShared, A3 \cup SharedOps)
  <2> HIDE DEF P3, A3
  <2> QED
    BY <1>4, <1>5, LinkSharedPart, Joined
<1> QED
  BY <1>6 DEF ClaudePlan

RolesOps(q) == IF q.dirs["roles"] = <<>> THEN {} ELSE SyncOps("roles", q.dirs["roles"])

LEMMA CodexPart ==
  ASSUME NEW q \in Requests
  PROVE  Part(CodexPlan(q), {Op("home", None)} \cup SharedOps \cup RolesOps(q)
                              \cup SyncOps("skills", q.dirs["skills"]) \cup {Op("write", "config")})
<1> DEFINE P1 == <<Op("home", None)>> \o LinkShared
           P2 == P1 \o SyncRoles(q)
           P3 == P2 \o Sync("skills", q.dirs["skills"])
           A1 == {Op("home", None)} \cup SharedOps
           A2 == A1 \cup RolesOps(q)
           A3 == A2 \cup SyncOps("skills", q.dirs["skills"])
<1> USE DEF Fits, Op, SyncOps, CopyOp, SharedOps, RolesOps
<1>1. \A a \in {Op("home", None)}, b \in SharedOps : Fits(a, b)
  OBVIOUS
<1>2. \A a \in A1, b \in RolesOps(q) : Fits(a, b)
  OBVIOUS
<1>3. \A a \in A2, b \in SyncOps("skills", q.dirs["skills"]) : Fits(a, b)
  OBVIOUS
<1>4. \A a \in A3, b \in {Op("write", "config")} : Fits(a, b)
  OBVIOUS
<1>5. Part(Sync("skills", q.dirs["skills"]), SyncOps("skills", q.dirs["skills"]))
  BY SyncPart, RequestType DEF Dirs
<1>6. Part(SyncRoles(q), RolesOps(q))
  <2>1. CASE q.dirs["roles"] = <<>>
    BY <2>1, NoOps DEF SyncRoles
  <2>2. CASE q.dirs["roles"] # <<>>
    BY <2>2, SyncPart, RequestType DEF SyncRoles, Dirs
  <2> QED
    BY <2>1, <2>2
<1>7. Part(<<Op("write", "config")>>, {Op("write", "config")})
  BY FilePart DEF FileOps, Files
<1> HIDE DEF Fits, Op, SyncOps, CopyOp, SharedOps, RolesOps
<1>8. Part(P1, A1)
  BY <1>1, HomePart, LinkSharedPart, Joined
<1>9. Part(P2, A2)
  <2> HIDE DEF P1, A1
  <2> QED
    BY <1>2, <1>6, <1>8, Joined
<1>10. Part(P3, A3)
  <2> HIDE DEF P2, A2
  <2> QED
    BY <1>3, <1>5, <1>9, Joined
<1>11. Part(P3 \o <<Op("write", "config")>>, A3 \cup {Op("write", "config")})
  <2> HIDE DEF P3, A3
  <2> QED
    BY <1>4, <1>7, <1>10, Joined
<1> QED
  BY <1>11 DEF CodexPlan

GivenOps(q) == {Op("write", f) : f \in {"prompt"} \cap q.given}
                 \cup {Op("write", f) : f \in {"settings"} \cap q.given}

\* What gemini and agy write, after operations that are right before it.
LEMMA GivenFiles ==
  ASSUME NEW q \in Requests, NEW P, NEW A, Part(P, A),
         \A a \in A, f \in Files : Fits(a, Op("write", f))
  PROVE  Part(P \o WriteGiven("prompt", q) \o WriteGiven("settings", q), A \cup GivenOps(q))
<1> DEFINE prompts  == {Op("write", f) : f \in {"prompt"} \cap q.given}
           settings == {Op("write", f) : f \in {"settings"} \cap q.given}
<1>1. Part(WriteGiven("prompt", q), prompts) /\ Part(WriteGiven("settings", q), settings)
  BY GivenPart DEF Files
<1>2. \A a \in A, b \in prompts : Fits(a, b)
  BY DEF Files
<1>3. \A a \in A \cup prompts, b \in settings : Fits(a, b)
  <2>1. \A a \in prompts, b \in settings : Fits(a, b)
    BY DEF Fits, Op
  <2>2. \A a \in A, b \in settings : Fits(a, b)
    BY DEF Files
  <2> QED
    BY <2>1, <2>2
<1> HIDE DEF prompts, settings
<1>4. Part(P \o WriteGiven("prompt", q), A \cup prompts)
  BY <1>1, <1>2, Joined
<1>5. Part(P \o WriteGiven("prompt", q) \o WriteGiven("settings", q), (A \cup prompts) \cup settings)
  BY <1>1, <1>3, <1>4, Joined
<1>6. (A \cup prompts) \cup settings = A \cup GivenOps(q)
  BY DEF GivenOps, prompts, settings
<1> QED
  BY <1>5, <1>6

LEMMA GeminiPart ==
  ASSUME NEW q \in Requests
  PROVE  Part(GeminiPlan(q), FirstOps(q) \cup GivenOps(q) \cup SharedOps)
<1> DEFINE P1 == <<Op("home", None)>> \o Sync("skills", q.dirs["skills"])
           P2 == P1 \o WriteGiven("prompt", q) \o WriteGiven("settings", q)
           A2 == FirstOps(q) \cup GivenOps(q)
<1>1. \A a \in FirstOps(q), f \in Files : Fits(a, Op("write", f))
  BY DEF Fits, Op, SyncOps, CopyOp, FirstOps, Files
<1>2. \A a \in A2, b \in SharedOps : Fits(a, b)
  BY DEF Fits, Op, SyncOps, CopyOp, FirstOps, GivenOps, SharedOps
<1>3. Part(P2, A2)
  <2>1. Part(P1, FirstOps(q))
    BY FirstPart
  <2> HIDE DEF P1
  <2> QED
    BY <1>1, <2>1, GivenFiles
<1>4. Part(P2 \o LinkShared, A2 \cup SharedOps)
  <2> HIDE DEF P2, A2
  <2> QED
    BY <1>2, <1>3, LinkSharedPart, Joined
<1> QED
  BY <1>4 DEF GeminiPlan

\* What agy does before it links the credentials.
AgyBefore(q) ==
  <<Op("home", None)>> \o Sync("skills", q.dirs["skills"]) \o LinkSkills
    \o WriteGiven("prompt", q) \o WriteGiven("settings", q)

AgyBeforeOps(q) == FirstOps(q) \cup {Op("lstat", "skills")} \cup GivenOps(q)

LEMMA AgyPart ==
  ASSUME NEW q \in Requests
  PROVE  /\ AgyPlan(q) = AgyBefore(q) \o LinkShared
         /\ Part(AgyBefore(q), AgyBeforeOps(q))
         /\ Part(AgyPlan(q), AgyBeforeOps(q) \cup SharedOps)
<1> DEFINE P1 == <<Op("home", None)>> \o Sync("skills", q.dirs["skills"])
           P2 == P1 \o LinkSkills
           A2 == FirstOps(q) \cup {Op("lstat", "skills")}
<1>1. Part(LinkSkills, {Op("lstat", "skills")})
  <2>1. Op("lstat", "skills") \in Operation
    BY DEF Op, Operation, Links
  <2> QED
    BY <2>1, OneOp DEF LinkSkills
<1>2. \A a \in FirstOps(q), b \in {Op("lstat", "skills")} : Fits(a, b)
  BY DEF Fits, Op, SyncOps, CopyOp, FirstOps, Order
<1>3. Part(P2, A2)
  <2>1. Part(P1, FirstOps(q))
    BY FirstPart
  <2> HIDE DEF P1
  <2> QED
    BY <1>1, <1>2, <2>1, Joined
<1>4. \A a \in A2, f \in Files : Fits(a, Op("write", f))
  BY DEF Fits, Op, SyncOps, CopyOp, FirstOps, Files
<1>5. Part(P2 \o WriteGiven("prompt", q) \o WriteGiven("settings", q), A2 \cup GivenOps(q))
  <2> HIDE DEF P2, A2
  <2> QED
    BY <1>3, <1>4, GivenFiles
<1>6. Part(AgyBefore(q), AgyBeforeOps(q))
  BY <1>5 DEF AgyBefore, AgyBeforeOps
<1>7. \A a \in AgyBeforeOps(q), b \in SharedOps : Fits(a, b)
  BY DEF Fits, Op, SyncOps, CopyOp, FirstOps, GivenOps, SharedOps, AgyBeforeOps
<1>8. Part(AgyBefore(q) \o LinkShared, AgyBeforeOps(q) \cup SharedOps)
  BY <1>6, <1>7, LinkSharedPart, Joined
<1> QED
  BY <1>6, <1>8 DEF AgyPlan, AgyBefore

\* What is to be known of the operations of a plan.
PlanOps(ops, q) ==
  /\ \A a \in ops : a.op \notin LinkOps
  /\ OfRequest(ops, q)
  /\ Fresh(ops, q)
  /\ HasHome(ops)

LEMMA SyncOpsFresh ==
  ASSUME NEW d, NEW list
  PROVE  /\ Op("rm", d) \in SyncOps(d, list) /\ Op("mkdir", d) \in SyncOps(d, list)
         /\ \A x \in Entries(list) : CopyOp(d, x) \in SyncOps(d, list)
         /\ \A a \in SyncOps(d, list) :
              /\ a.op \in DirOps /\ a.what = d
              /\ a.op = "copy" => a.item \in Entries(list)
BY DEF SyncOps, Op, CopyOp, DirOps

\* The entries of a directory are those of its Sync.
LEMMA CopiedOfSync ==
  ASSUME NEW ops, NEW d, NEW list, SyncOps(d, list) \subseteq ops,
         \A a \in ops : a.op \in DirOps /\ a.what = d => a \in SyncOps(d, list)
  PROVE  Has(ops, "rm", d) /\ Has(ops, "mkdir", d) /\ Copied(ops, d) = Entries(list)
<1>1. Has(ops, "rm", d) /\ Has(ops, "mkdir", d)
  BY SyncOpsFresh DEF Has, Op
<1>2. \A x \in Copied(ops, d) : x \in Entries(list)
  BY SyncOpsFresh DEF Copied, DirOps
<1>3. \A x \in Entries(list) : x \in Copied(ops, d)
  <2> SUFFICES ASSUME NEW x \in Entries(list) PROVE x \in Copied(ops, d)
    OBVIOUS
  <2>1. CopyOp(d, x) \in ops
    BY SyncOpsFresh
  <2>2. CopyOp(d, x).op = "copy" /\ CopyOp(d, x).what = d /\ CopyOp(d, x).item = x
    BY DEF CopyOp
  <2> QED
    BY <2>1, <2>2 DEF Copied
<1> QED
  BY <1>1, <1>2, <1>3

LEMMA OpIs ==
  ASSUME NEW op, NEW x
  PROVE  Op(op, x).op = op /\ Op(op, x).what = x
BY DEF Op

LEMMA OpIn ==
  ASSUME NEW ops, NEW op, NEW x, Op(op, x) \in ops
  PROVE  Has(ops, op, x) /\ (op = "home" => HasHome(ops))
BY OpIs DEF Has, HasHome

LEMMA ClaudeOps ==
  ASSUME NEW q \in Requests, agent = "claude"
  PROVE  PlanOps(FirstOps(q) \cup SyncOps("agents", q.dirs["agents"])
                   \cup ClaudeFiles(q) \cup SharedOps, q)
<1> DEFINE ops == FirstOps(q) \cup SyncOps("agents", q.dirs["agents"]) \cup ClaudeFiles(q) \cup SharedOps
<1>1. Synced(q) = {"skills", "agents"} /\ Linked = "credentials"
  BY DEF Synced, Linked
<1>2. /\ Written(q) = q.given \cup {"settings"} /\ q.given \subseteq {"prompt", "settings"}
      /\ Removed(q) = IF "prompt" \notin q.given THEN {"prompt"} ELSE {}
  BY RequestType DEF Written, Removed
<1>3. ASSUME NEW d \in {"skills", "agents"}
      PROVE  Has(ops, "rm", d) /\ Has(ops, "mkdir", d) /\ Copied(ops, d) = Entries(q.dirs[d])
  <2>1. SyncOps(d, q.dirs[d]) \subseteq ops
    BY DEF FirstOps
  <2>2. \A a \in ops : a.op \in DirOps /\ a.what = d => a \in SyncOps(d, q.dirs[d])
    BY SyncOpsFresh, OpIs DEF FirstOps, ClaudeFiles, SharedOps, DirOps
  <2> HIDE DEF ops
  <2> QED
    BY <2>1, <2>2, CopiedOfSync
<1>4. /\ \A f \in Written(q) : Has(ops, "write", f)
      /\ \A f \in Removed(q) : Has(ops, "remove", f)
      /\ Has(ops, "lstat", "credentials")
      /\ HasHome(ops)
  BY <1>2, OpIs, OpIn DEF FirstOps, ClaudeFiles, SharedOps
<1>5. \A a \in ops : a.op \notin LinkOps
  BY SyncOpsFresh, OpIs DEF FirstOps, ClaudeFiles, SharedOps, LinkOps, DirOps
<1>6. OfRequest(ops, q)
  BY <1>1, <1>2, SyncOpsFresh, OpIs DEF OfRequest, FirstOps, ClaudeFiles, SharedOps, DirOps
<1> QED
  BY <1>1, <1>3, <1>4, <1>5, <1>6 DEF PlanOps, Fresh

LEMMA CodexOps ==
  ASSUME NEW q \in Requests, agent = "codex"
  PROVE  PlanOps({Op("home", None)} \cup SharedOps \cup RolesOps(q)
                   \cup SyncOps("skills", q.dirs["skills"]) \cup {Op("write", "config")}, q)
<1> DEFINE ops == {Op("home", None)} \cup SharedOps \cup RolesOps(q)
                    \cup SyncOps("skills", q.dirs["skills"]) \cup {Op("write", "config")}
<1>1. /\ Synced(q) = {"skills"} \cup (IF q.dirs["roles"] # <<>> THEN {"roles"} ELSE {})
      /\ Linked = "credentials"
  BY DEF Synced, Linked
<1>2. Written(q) = {"config"} /\ Removed(q) = {}
  BY DEF Written, Removed
<1>3. ASSUME NEW d \in Synced(q)
      PROVE  Has(ops, "rm", d) /\ Has(ops, "mkdir", d) /\ Copied(ops, d) = Entries(q.dirs[d])
  <2>1. SyncOps(d, q.dirs[d]) \subseteq ops
    BY <1>1 DEF RolesOps
  <2>2. \A a \in ops : a.op \in DirOps /\ a.what = d => a \in SyncOps(d, q.dirs[d])
    BY <1>1, SyncOpsFresh, OpIs DEF RolesOps, SharedOps, DirOps
  <2> HIDE DEF ops
  <2> QED
    BY <2>1, <2>2, CopiedOfSync
<1>4. /\ \A f \in Written(q) : Has(ops, "write", f)
      /\ \A f \in Removed(q) : Has(ops, "remove", f)
      /\ Has(ops, "lstat", "credentials")
      /\ HasHome(ops)
  BY <1>2, OpIs, OpIn DEF SharedOps
<1>5. \A a \in ops : a.op \notin LinkOps
  BY SyncOpsFresh, OpIs DEF RolesOps, SharedOps, LinkOps, DirOps
<1>6. OfRequest(ops, q)
  BY <1>1, <1>2, SyncOpsFresh, OpIs DEF OfRequest, RolesOps, SharedOps, DirOps
<1> QED
  BY <1>1, <1>3, <1>4, <1>5, <1>6 DEF PlanOps, Fresh

LEMMA GeminiOps ==
  ASSUME NEW q \in Requests, agent = "gemini"
  PROVE  PlanOps(FirstOps(q) \cup GivenOps(q) \cup SharedOps, q)
<1> DEFINE ops == FirstOps(q) \cup GivenOps(q) \cup SharedOps
<1>1. Synced(q) = {"skills"} /\ Linked = "credentials"
  BY DEF Synced, Linked
<1>2. Written(q) = q.given /\ q.given \subseteq {"prompt", "settings"} /\ Removed(q) = {}
  BY RequestType DEF Written, Removed
<1>3. Has(ops, "rm", "skills") /\ Has(ops, "mkdir", "skills")
        /\ Copied(ops, "skills") = Entries(q.dirs["skills"])
  <2>1. SyncOps("skills", q.dirs["skills"]) \subseteq ops
    BY DEF FirstOps
  <2>2. \A a \in ops : a.op \in DirOps /\ a.what = "skills" => a \in SyncOps("skills", q.dirs["skills"])
    BY SyncOpsFresh, OpIs DEF FirstOps, GivenOps, SharedOps, DirOps
  <2> HIDE DEF ops
  <2> QED
    BY <2>1, <2>2, CopiedOfSync
<1>4. /\ \A f \in Written(q) : Has(ops, "write", f)
      /\ \A f \in Removed(q) : Has(ops, "remove", f)
      /\ Has(ops, "lstat", "credentials")
      /\ HasHome(ops)
  BY <1>2, OpIs, OpIn DEF FirstOps, GivenOps, SharedOps
<1>5. \A a \in ops : a.op \notin LinkOps
  BY SyncOpsFresh, OpIs DEF FirstOps, GivenOps, SharedOps, LinkOps, DirOps
<1>6. OfRequest(ops, q)
  BY <1>1, <1>2, SyncOpsFresh, OpIs DEF OfRequest, FirstOps, GivenOps, SharedOps, DirOps
<1> QED
  BY <1>1, <1>3, <1>4, <1>5, <1>6 DEF PlanOps, Fresh

LEMMA AgyOps ==
  ASSUME NEW q \in Requests, agent = "agy"
  PROVE  PlanOps(AgyBeforeOps(q) \cup SharedOps, q)
<1> DEFINE ops == AgyBeforeOps(q) \cup SharedOps
<1>1. Synced(q) = {"skills"} /\ Linked = "skills"
  BY DEF Synced, Linked
<1>2. Written(q) = q.given /\ q.given \subseteq {"prompt", "settings"} /\ Removed(q) = {}
  BY RequestType DEF Written, Removed
<1>3. Has(ops, "rm", "skills") /\ Has(ops, "mkdir", "skills")
        /\ Copied(ops, "skills") = Entries(q.dirs["skills"])
  <2>1. SyncOps("skills", q.dirs["skills"]) \subseteq ops
    BY DEF FirstOps, AgyBeforeOps
  <2>2. \A a \in ops : a.op \in DirOps /\ a.what = "skills" => a \in SyncOps("skills", q.dirs["skills"])
    BY SyncOpsFresh, OpIs DEF FirstOps, GivenOps, SharedOps, AgyBeforeOps, DirOps
  <2> HIDE DEF ops
  <2> QED
    BY <2>1, <2>2, CopiedOfSync
<1>4. /\ \A f \in Written(q) : Has(ops, "write", f)
      /\ \A f \in Removed(q) : Has(ops, "remove", f)
      /\ Has(ops, "lstat", "skills")
      /\ HasHome(ops)
  BY <1>2, OpIs, OpIn DEF FirstOps, GivenOps, SharedOps, AgyBeforeOps
<1>5. \A a \in ops : a.op \notin LinkOps
  BY SyncOpsFresh, OpIs DEF FirstOps, GivenOps, SharedOps, AgyBeforeOps, LinkOps, DirOps
<1>6. OfRequest(ops, q)
  BY <1>1, <1>2, SyncOpsFresh, OpIs DEF OfRequest, FirstOps, GivenOps, SharedOps, AgyBeforeOps, DirOps
<1> QED
  BY <1>1, <1>3, <1>4, <1>5, <1>6 DEF PlanOps, Fresh

LEMMA AgySourceLast ==
  ASSUME NEW q \in Requests
  PROVE  SourceLast(AgyPlan(q))
<1> DEFINE B == AgyBefore(q)
           C == B \o LinkShared
<1>1. /\ B \in Seq(Operation) /\ LinkShared \in Seq(Operation)
      /\ Entries(B) = AgyBeforeOps(q)
  BY AgyPart, LinkSharedPart DEF Part
<1>2. /\ Len(LinkShared) = 2 /\ LinkShared[2].op = "lstat" /\ LinkShared[2].what = "credentials"
  BY DEF LinkShared, Op
<1>3. \A a \in AgyBeforeOps(q) : a.op # "source"
  BY SyncOpsFresh, OpIs DEF FirstOps, GivenOps, AgyBeforeOps, DirOps
<1> HIDE DEF B
<1>4. /\ Len(C) = Len(B) + 2 /\ Len(B) \in Nat
      /\ \A i \in 1..(Len(B) + 2) : C[i] = IF i <= Len(B) THEN B[i] ELSE LinkShared[i - Len(B)]
  <2>1. /\ Len(C) = Len(B) + Len(LinkShared) /\ Len(B) \in Nat
        /\ \A i \in 1..(Len(B) + Len(LinkShared)) :
             C[i] = IF i <= Len(B) THEN B[i] ELSE LinkShared[i - Len(B)]
    BY <1>1, ConcatProperties, LenProperties
  <2> HIDE DEF C
  <2> QED
    BY <1>2, <2>1
<1> HIDE DEF C
<1>5. \A i \in 1..Len(B) : B[i].op # "source"
  BY <1>1, <1>3, EntriesIn
<1>6. ASSUME NEW i \in 1..Len(C), C[i].op = "source"
      PROVE  i + 1 = Len(C) /\ C[i + 1].op = "lstat" /\ C[i + 1].what = "credentials"
  <2>1. ~(i <= Len(B))
    BY <1>4, <1>5, <1>6
  <2>2. i # Len(B) + 2
    BY <1>2, <1>4, <1>6
  <2>3. i = Len(B) + 1 /\ i + 1 \in 1..(Len(B) + 2) /\ (i + 1) - Len(B) = 2
    BY <1>4, <2>1, <2>2
  <2>4. C[i + 1] = LinkShared[2]
    BY <1>4, <2>3
  <2> QED
    BY <1>2, <1>4, <2>3, <2>4
<1>7. SourceLast(C)
  BY <1>6 DEF SourceLast
<1> QED
  BY <1>7, AgyPart DEF B, C

\* A call begins with a plan for its request.
LEMMA PlanIsPlanned ==
  ASSUME NEW q \in Requests, agent \in Agents
  PROVE  Planned(Plan(q), q) /\ HasHome(Entries(Plan(q)))
<1>1. \E ops : Part(Plan(q), ops) /\ PlanOps(ops, q)
  <2>1. CASE agent = "claude"
    BY <2>1, ClaudePart, ClaudeOps DEF Plan
  <2>2. CASE agent = "codex"
    BY <2>2, CodexPart, CodexOps DEF Plan
  <2>3. CASE agent = "gemini"
    BY <2>3, GeminiPart, GeminiOps DEF Plan
  <2>4. CASE agent = "agy"
    BY <2>4, AgyPart, AgyOps DEF Plan
  <2> QED
    BY <2>1, <2>2, <2>3, <2>4 DEF Agents
<1>2. SourceLast(Plan(q))
  <2>1. CASE agent = "agy"
    <3>1. Plan(q) = AgyPlan(q)
      BY <2>1 DEF Plan
    <3> QED
      BY <3>1, AgySourceLast
  <2>2. CASE agent # "agy"
    BY <2>2 DEF SourceLast
  <2> QED
    BY <2>1, <2>2
<1> DEFINE R == Plan(q)
<1> HIDE DEF R
<1>3. PICK ops : Part(R, ops) /\ PlanOps(ops, q)
  BY <1>1 DEF R
<1>4. R \in Seq(Operation) /\ Entries(R) = ops /\ Ordered(R)
  BY <1>3 DEF Part
<1>5. LinksFirst(R)
  <2>1. \A i \in 1..Len(R) : R[i].op \notin LinkOps
    BY <1>3, <1>4, EntriesIn DEF PlanOps
  <2>2. Len(R) > 0 => 1 \in 1..Len(R)
    BY <1>4, LenProperties
  <2> QED
    BY <2>1, <2>2 DEF LinksFirst, LinkOps
<1> QED
  BY <1>2, <1>3, <1>4, <1>5 DEF R, Planned, PlanOps

-----------------------------------------------------------------------------
(* How far a preparation is that nothing else disturbs: what is still to   *)
(* be done, and what is in the home, make up what was asked for.           *)

Dir(home, ops, list, d) ==
  /\ Has(ops, "rm", d) => Has(ops, "mkdir", d)
  /\ ~Has(ops, "rm", d) => (Has(ops, "mkdir", d) <=> home.dirs[d] = None)
  /\ Copied(ops, d) \cup (IF Has(ops, "rm", d) \/ home.dirs[d] = None THEN {} ELSE home.dirs[d])
       = Entries(list)

DirsSet(home, ops, q) == \A d \in Synced(q) : Dir(home, ops, q.dirs[d], d)

FilesSet(home, ops, q) ==
  /\ \A f \in Written(q) : Has(ops, "write", f) \/ home.files[f] = q.id
  /\ \A f \in Removed(q) : Has(ops, "remove", f) \/ home.files[f] = None

LinkSet(home, ops) ==
  \/ \E op \in {"lstat", "readlink", "symlink"} : Has(ops, op, Linked)
  \/ home.links[Linked] = "right"

Progress(home, ops, q) == DirsSet(home, ops, q) /\ FilesSet(home, ops, q) /\ LinkSet(home, ops)

LEMMA HasOf ==
  ASSUME NEW A, NEW B, NEW op, NEW x
  PROVE  Has(A \cup B, op, x) <=> Has(A, op, x) \/ Has(B, op, x)
BY DEF Has

LEMMA CopiedOf ==
  ASSUME NEW A, NEW B, NEW d
  PROVE  Copied(A \cup B, d) = Copied(A, d) \cup Copied(B, d)
BY DEF Copied

LEMMA HasNot ==
  ASSUME NEW A, NEW op, NEW x, \A a \in A : a.op # op \/ a.what # x
  PROVE  /\ ~Has(A, op, x)
         /\ op = "copy" => Copied(A, x) = {}
BY DEF Has, Copied

LEMMA NotAfter ==
  ASSUME NEW a, NEW rest, \A b \in rest : Fits(a, b), a.op # "home",
         NEW op, <<a.op, op>> \notin Order
  PROVE  /\ ~Has(rest, op, a.what)
         /\ op = "copy" => Copied(rest, a.what) = {}
BY DEF Fits, Has, Copied

LEMMA SyncedType ==
  ASSUME NEW q \in Requests
  PROVE  /\ Synced(q) \subseteq Dirs /\ Written(q) \subseteq Files /\ Removed(q) \subseteq Files
         /\ Linked \in Links
         /\ \A f \in Removed(q) : f \notin Written(q)
BY RequestType DEF Synced, Written, Removed, Linked, Dirs, Files, Links

\* Operations on other things leave the directories, the files and the link.
LEMMA DirsStay ==
  ASSUME NEW q, NEW A, NEW B, NEW rest, NEW g, NEW h, h.dirs = g.dirs,
         \A a \in A \cup B : a.op \notin DirOps, DirsSet(g, A \cup rest, q)
  PROVE  DirsSet(h, B \cup rest, q)
<1>1. ASSUME NEW d
      PROVE  /\ Has(A \cup rest, "rm", d) <=> Has(B \cup rest, "rm", d)
             /\ Has(A \cup rest, "mkdir", d) <=> Has(B \cup rest, "mkdir", d)
             /\ Copied(A \cup rest, d) = Copied(B \cup rest, d)
  BY DEF Has, Copied, DirOps
<1> QED
  BY <1>1 DEF DirsSet, Dir

LEMMA FilesStay ==
  ASSUME NEW q, NEW A, NEW B, NEW rest, NEW g, NEW h, h.files = g.files,
         \A a \in A \cup B : a.op \notin FileOps, FilesSet(g, A \cup rest, q)
  PROVE  FilesSet(h, B \cup rest, q)
<1>1. ASSUME NEW f
      PROVE  /\ Has(A \cup rest, "write", f) <=> Has(B \cup rest, "write", f)
             /\ Has(A \cup rest, "remove", f) <=> Has(B \cup rest, "remove", f)
  BY DEF Has, FileOps
<1> QED
  BY <1>1 DEF FilesSet

LEMMA LinkStays ==
  ASSUME NEW A, NEW B, NEW rest, NEW g, NEW h, h.links[Linked] = g.links[Linked],
         \A a \in A : a.op \notin {"lstat", "readlink", "symlink"} \/ a.what # Linked,
         LinkSet(g, A \cup rest)
  PROVE  LinkSet(h, B \cup rest)
BY DEF LinkSet, Has

LEMMA AfterHome ==
  ASSUME NEW q, NEW a, NEW rest, NEW h, a.op = "home", Fresh({a} \cup rest, q)
  PROVE  Progress(h, rest, q)
<1>1. \A op, x : op # "home" /\ Has({a} \cup rest, op, x) => Has(rest, op, x)
  BY DEF Has
<1>2. \A d : Copied({a} \cup rest, d) = Copied(rest, d)
  BY DEF Copied
<1>3. DirsSet(h, rest, q)
  BY <1>1, <1>2 DEF Fresh, DirsSet, Dir
<1>4. FilesSet(h, rest, q) /\ LinkSet(h, rest)
  BY <1>1 DEF Fresh, FilesSet, LinkSet
<1> QED
  BY <1>3, <1>4 DEF Progress

LEMMA AfterDirOp ==
  ASSUME NEW q \in Requests, NEW a, NEW rest, NEW g, NEW h,
         a.op \in DirOps, \A b \in rest : Fits(a, b),
         Progress(g, {a} \cup rest, q), OfRequest({a} \cup rest, q),
         \A d \in Dirs \ {a.what} : h.dirs[d] = g.dirs[d],
         h.files = g.files, h.links = g.links,
         a.what \in Synced(q) => Dir(h, rest, q.dirs[a.what], a.what)
  PROVE  Progress(h, rest, q)
<1>1. ASSUME NEW d \in Synced(q) PROVE Dir(h, rest, q.dirs[d], d)
  <2>1. CASE d = a.what
    BY <1>1, <2>1
  <2>2. CASE d # a.what
    <3>1. /\ Has({a} \cup rest, "rm", d) <=> Has(rest, "rm", d)
          /\ Has({a} \cup rest, "mkdir", d) <=> Has(rest, "mkdir", d)
          /\ Copied({a} \cup rest, d) = Copied(rest, d)
      BY <2>2 DEF Has, Copied
    <3>2. h.dirs[d] = g.dirs[d]
      BY <1>1, <2>2, SyncedType
    <3>3. Dir(g, {a} \cup rest, q.dirs[d], d)
      BY <1>1 DEF Progress, DirsSet
    <3> QED
      BY <3>1, <3>2, <3>3 DEF Dir
  <2> QED
    BY <2>1, <2>2
<1>2. FilesSet(h, {} \cup rest, q)
  <2>1. \A x \in {a} \cup {} : x.op \notin FileOps
    BY DEF DirOps, FileOps
  <2> QED
    BY <2>1, FilesStay DEF Progress
<1>3. LinkSet(h, {} \cup rest)
  <2>1. \A x \in {a} : x.op \notin {"lstat", "readlink", "symlink"} \/ x.what # Linked
    BY DEF DirOps
  <2> QED
    BY <2>1, LinkStays DEF Progress
<1>4. {} \cup rest = rest
  OBVIOUS
<1> QED
  BY <1>1, <1>2, <1>3, <1>4 DEF Progress, DirsSet

\* What the directory operations find, and what they leave.
LEMMA AfterRm ==
  ASSUME NEW q \in Requests, NEW a, NEW rest, NEW g, NEW h,
         a.op = "rm", \A b \in rest : Fits(a, b),
         a.what \in Synced(q), Progress(g, {a} \cup rest, q), h.dirs[a.what] = None
  PROVE  Dir(h, rest, q.dirs[a.what], a.what)
<1> DEFINE x == a.what
<1>1. ~Has(rest, "rm", x)
  BY NotAfter DEF Order
<1>2. /\ Has({a} \cup rest, "rm", x)
      /\ Has({a} \cup rest, "mkdir", x) <=> Has(rest, "mkdir", x)
      /\ Copied({a} \cup rest, x) = Copied(rest, x)
  BY DEF Has, Copied
<1>3. Dir(g, {a} \cup rest, q.dirs[x], x)
  BY DEF Progress, DirsSet
<1> HIDE DEF x
<1>4. Dir(h, rest, q.dirs[x], x)
  BY <1>1, <1>2, <1>3 DEF Dir, x
<1> QED
  BY <1>4 DEF x

LEMMA AfterMkdir ==
  ASSUME NEW q \in Requests, NEW a, NEW rest, NEW g, NEW h,
         a.op = "mkdir", \A b \in rest : Fits(a, b),
         a.what \in Synced(q), Progress(g, {a} \cup rest, q),
         h.dirs[a.what] = IF g.dirs[a.what] = None THEN {} ELSE g.dirs[a.what]
  PROVE  Dir(h, rest, q.dirs[a.what], a.what)
<1> DEFINE x == a.what
<1>1. ~Has(rest, "rm", x) /\ ~Has(rest, "mkdir", x)
  BY NotAfter DEF Order
<1>2. /\ ~Has({a} \cup rest, "rm", x)
      /\ Has({a} \cup rest, "mkdir", x)
      /\ Copied({a} \cup rest, x) = Copied(rest, x)
  BY <1>1 DEF Has, Copied
<1>3. Dir(g, {a} \cup rest, q.dirs[x], x)
  BY DEF Progress, DirsSet
<1>4. {} # None
  BY NoneAssumption
<1> HIDE DEF x
<1>5. Dir(h, rest, q.dirs[x], x)
  BY <1>1, <1>2, <1>3, <1>4 DEF Dir, x
<1> QED
  BY <1>5 DEF x

LEMMA AfterCopy ==
  ASSUME NEW q \in Requests, NEW a, NEW rest, NEW g, NEW h,
         a.op = "copy", \A b \in rest : Fits(a, b),
         a.what \in Synced(q), Progress(g, {a} \cup rest, q)
  PROVE  /\ g.dirs[a.what] # None
         /\ h.dirs[a.what] = g.dirs[a.what] \cup {a.item} /\ h.dirs[a.what] # None =>
              Dir(h, rest, q.dirs[a.what], a.what)
<1> DEFINE x == a.what
<1>1. ~Has(rest, "rm", x) /\ ~Has(rest, "mkdir", x)
  BY NotAfter DEF Order
<1>2. /\ ~Has({a} \cup rest, "rm", x)
      /\ ~Has({a} \cup rest, "mkdir", x)
      /\ Copied({a} \cup rest, x) = Copied(rest, x) \cup {a.item}
  BY <1>1 DEF Has, Copied
<1>3. Dir(g, {a} \cup rest, q.dirs[x], x)
  BY DEF Progress, DirsSet
<1> HIDE DEF x
<1>4. g.dirs[x] # None /\ Copied(rest, x) \cup {a.item} \cup g.dirs[x] = Entries(q.dirs[x])
  BY <1>2, <1>3 DEF Dir
<1>5. h.dirs[x] = g.dirs[x] \cup {a.item} /\ h.dirs[x] # None => Dir(h, rest, q.dirs[x], x)
  BY <1>1, <1>4 DEF Dir
<1> QED
  BY <1>4, <1>5 DEF x

LEMMA AfterFileOp ==
  ASSUME NEW q \in Requests, NEW a, NEW rest, NEW g, NEW h,
         a.op \in FileOps, Progress(g, {a} \cup rest, q), OfRequest({a} \cup rest, q),
         a.what \in Files,
         h.files[a.what] = IF a.op = "write" THEN q.id ELSE None,
         \A f \in Files \ {a.what} : h.files[f] = g.files[f],
         h.dirs = g.dirs, h.links = g.links
  PROVE  Progress(h, rest, q)
<1>1. {} \cup rest = rest /\ \A x \in {a} \cup {} : x.op \notin DirOps
  BY DEF DirOps, FileOps
<1>2. DirsSet(h, rest, q)
  <2>1. DirsSet(h, {} \cup rest, q)
    BY <1>1, DirsStay DEF Progress
  <2> QED
    BY <1>1, <2>1
<1>3. LinkSet(h, rest)
  <2>1. \A x \in {a} : x.op \notin {"lstat", "readlink", "symlink"} \/ x.what # Linked
    BY DEF FileOps
  <2>2. LinkSet(h, {} \cup rest)
    BY <2>1, LinkStays DEF Progress
  <2> QED
    BY <1>1, <2>2
<1>4. /\ a.op = "write" => a.what \notin Removed(q)
      /\ a.op = "remove" => a.what \in Removed(q)
  BY DEF OfRequest
<1>5. ASSUME NEW f \in Written(q) PROVE Has(rest, "write", f) \/ h.files[f] = q.id
  <2>1. Has({a} \cup rest, "write", f) \/ g.files[f] = q.id
    BY DEF Progress, FilesSet
  <2>2. f \in Files /\ f \notin Removed(q)
    BY SyncedType
  <2>3. CASE f = a.what
    BY <1>4, <2>2, <2>3 DEF FileOps
  <2>4. CASE f # a.what
    BY <2>1, <2>2, <2>4 DEF Has
  <2> QED
    BY <2>3, <2>4
<1>6. ASSUME NEW f \in Removed(q) PROVE Has(rest, "remove", f) \/ h.files[f] = None
  <2>1. Has({a} \cup rest, "remove", f) \/ g.files[f] = None
    BY DEF Progress, FilesSet
  <2>2. f \in Files
    BY SyncedType
  <2>3. CASE f = a.what
    BY <1>4, <2>2, <2>3 DEF FileOps
  <2>4. CASE f # a.what
    BY <2>1, <2>2, <2>4 DEF Has
  <2> QED
    BY <2>3, <2>4
<1> QED
  BY <1>2, <1>3, <1>5, <1>6 DEF Progress, FilesSet

\* What is known of the home stays true when only something about a link is done:
\* it is right, or more is to be done about it.
AboutLink(a) == a.op \in LinkOps \cup {"source", "lstat"}

LEMMA AfterLinkOp ==
  ASSUME NEW q, NEW a, NEW B, NEW rest, NEW g, NEW h,
         AboutLink(a), Progress(g, {a} \cup rest, q),
         \A b \in B : AboutLink(b),
         h.dirs = g.dirs, h.files = g.files,
         \A l \in Links \ {a.what} : h.links[l] = g.links[l],
         \/ \E op \in {"lstat", "readlink", "symlink"} : Has(B \cup rest, op, a.what)
         \/ h.links[a.what] = "right"
         \/ h.links[a.what] = g.links[a.what] /\ a.op \in {"source", "unlink"}
  PROVE  Progress(h, B \cup rest, q)
<1>1. \A x \in {a} \cup B : x.op \notin DirOps /\ x.op \notin FileOps
  BY DEF AboutLink, LinkOps, DirOps, FileOps
<1>2. DirsSet(h, B \cup rest, q) /\ FilesSet(h, B \cup rest, q)
  BY <1>1, DirsStay, FilesStay DEF Progress
<1>3. LinkSet(h, B \cup rest)
  <2>0. Linked \in Links
    BY DEF Linked, Links
  <2>1. CASE a.what # Linked
    <3>1. h.links[Linked] = g.links[Linked]
      BY <2>0, <2>1
    <3>2. \A x \in {a} : x.op \notin {"lstat", "readlink", "symlink"} \/ x.what # Linked
      BY <2>1
    <3> QED
      BY <3>1, <3>2, LinkStays DEF Progress
  <2>2. CASE a.what = Linked
    <3>1. CASE a.op \in {"source", "unlink"} /\ h.links[a.what] = g.links[a.what]
      <4>1. h.links[Linked] = g.links[Linked]
        BY <2>2, <3>1
      <4>2. \A x \in {a} : x.op \notin {"lstat", "readlink", "symlink"} \/ x.what # Linked
        BY <3>1
      <4> QED
        BY <4>1, <4>2, LinkStays DEF Progress
    <3>2. CASE \E op \in {"lstat", "readlink", "symlink"} : Has(B \cup rest, op, a.what)
      BY <2>2, <3>2 DEF LinkSet
    <3>3. CASE h.links[a.what] = "right"
      BY <2>2, <3>3 DEF LinkSet
    <3> QED
      BY <3>1, <3>2, <3>3
  <2> QED
    BY <2>1, <2>2
<1> QED
  BY <1>2, <1>3 DEF Progress

LEMMA AfterLastLinkOp ==
  ASSUME NEW q, NEW a, NEW rest, NEW g, NEW h,
         AboutLink(a), Progress(g, {a} \cup rest, q),
         h.dirs = g.dirs, h.files = g.files,
         \A l \in Links \ {a.what} : h.links[l] = g.links[l],
         \/ \E op \in {"lstat", "readlink", "symlink"} : Has(rest, op, a.what)
         \/ h.links[a.what] = "right"
         \/ h.links[a.what] = g.links[a.what] /\ a.op \in {"source", "unlink"}
  PROVE  Progress(h, rest, q)
<1>1. ASSUME NEW B, B = {} PROVE Progress(h, rest, q)
  <2>1. B \cup rest = rest /\ \A b \in B : AboutLink(b)
    BY <1>1
  <2>2. Progress(h, B \cup rest, q)
    BY <2>1, AfterLinkOp
  <2> QED
    BY <2>1, <2>2
<1> QED
  BY <1>1

-----------------------------------------------------------------------------
(* The plan after an operation.                                            *)

LEMMA TailOf ==
  ASSUME NEW R \in Seq(Operation), R # <<>>
  PROVE  /\ Head(R) = R[1] /\ R[1] \in Operation
         /\ Tail(R) \in Seq(Operation) /\ Len(R) \in Nat \ {0} /\ Len(Tail(R)) = Len(R) - 1
         /\ \A i \in 1..(Len(R) - 1) : Tail(R)[i] = R[i + 1]
         /\ Entries(R) = {R[1]} \cup Entries(Tail(R))
<1> DEFINE T == Tail(R)
<1>1. /\ Head(R) = R[1] /\ R[1] \in Operation
      /\ T \in Seq(Operation) /\ Len(R) \in Nat \ {0} /\ Len(T) = Len(R) - 1
      /\ \A i \in 1..(Len(R) - 1) : T[i] = R[i + 1]
  BY HeadTailProperties, LenProperties, EmptySeq, ElementOfSeq
<1>2. DOMAIN R = 1..Len(R) /\ DOMAIN T = 1..(Len(R) - 1)
  BY <1>1, LenProperties
<1> HIDE DEF T
<1>3. \A i \in DOMAIN R : i = 1 \/ (i - 1 \in DOMAIN T /\ R[i] = T[i - 1])
  BY <1>1, <1>2
<1>4. 1 \in DOMAIN R /\ \A i \in DOMAIN T : i + 1 \in DOMAIN R /\ T[i] = R[i + 1]
  BY <1>1, <1>2
<1>5. Entries(R) = {R[1]} \cup Entries(T)
  BY <1>3, <1>4 DEF Entries
<1> QED
  BY <1>1, <1>5 DEF T

\* What may come in the place of an operation on a link.
Splices(a) ==
  {<<>>} \cup IF a.op \in {"lstat", "readlink"}
              THEN {<<Op("symlink", a.what)>>, <<Op("unlink", a.what), Op("symlink", a.what)>>,
                    <<Op("readlink", a.what)>>}
              ELSE {}

LEMMA OperationType ==
  ASSUME NEW a \in Operation
  PROVE  /\ a.op \in {"home", "source", "lstat"} \cup DirOps \cup FileOps \cup LinkOps
         /\ a.op \in DirOps => a.what \in Dirs
         /\ a.op = "copy" => a.item \in Items
         /\ a.op \in FileOps => a.what \in Files
         /\ a.op \in LinkOps \cup {"source", "lstat"} => a.what \in Links
BY DEF Operation, DirOps, FileOps, LinkOps

LEMMA SpliceOps ==
  ASSUME NEW a \in Operation, NEW next \in Splices(a)
  PROVE  /\ Part(next, Entries(next))
         /\ \A b \in Entries(next) : b.op \in LinkOps /\ b.what = a.what /\ a.op \in {"lstat", "readlink"}
         /\ LinksFirst(next) /\ Len(next) \in Nat
         /\ Len(next) = 2 => next[1].op = "unlink"
         /\ Len(next) <= 2
<1>1. CASE next = <<>>
  <2>1. next \in Seq(Operation) /\ Len(next) = 0 /\ DOMAIN next = {}
    BY <1>1
  <2> QED
    BY <2>1 DEF Part, Ordered, Entries, LinksFirst
<1>2. CASE next # <<>>
  <2>0. a.op \in {"lstat", "readlink"} /\ a.what \in Links
    <3>1. a.op \in {"lstat", "readlink"}
      BY <1>2 DEF Splices
    <3> QED
      BY <3>1, OperationType DEF LinkOps
  <2>1. ASSUME NEW op \in LinkOps
        PROVE  Op(op, a.what) \in Operation
    BY <2>0 DEF Op, Operation
  <2>2. Fits(Op("unlink", a.what), Op("symlink", a.what))
    BY DEF Fits, Op, Order
  <2>3. ASSUME NEW op \in {"symlink", "readlink"}, next = <<Op(op, a.what)>>
        PROVE  /\ Part(next, Entries(next))
               /\ \A b \in Entries(next) : b.op \in LinkOps /\ b.what = a.what
               /\ LinksFirst(next) /\ Len(next) = 1
    <3>1. Part(next, {Op(op, a.what)}) /\ Len(next) = 1 /\ next[1] = Op(op, a.what)
      BY <2>1, <2>3, OneOp DEF LinkOps
    <3>2. Entries(next) = {Op(op, a.what)}
      BY <3>1 DEF Part
    <3>3. LinksFirst(next)
      <4>1. next[1].op # "unlink"
        BY <3>1, OpIs
      <4> QED
        BY <3>1, <4>1 DEF LinksFirst
    <3> QED
      BY <3>1, <3>2, <3>3, OpIs DEF LinkOps
  <2>4. ASSUME next = <<Op("unlink", a.what), Op("symlink", a.what)>>
        PROVE  /\ Part(next, Entries(next))
               /\ \A b \in Entries(next) : b.op \in LinkOps /\ b.what = a.what
               /\ LinksFirst(next) /\ Len(next) = 2 /\ next[1].op = "unlink"
    <3>1. /\ Part(next, {Op("unlink", a.what), Op("symlink", a.what)})
          /\ Len(next) = 2 /\ next[1] = Op("unlink", a.what) /\ next[2] = Op("symlink", a.what)
      BY <2>1, <2>2, <2>4, TwoOps DEF LinkOps
    <3>2. Entries(next) = {Op("unlink", a.what), Op("symlink", a.what)}
      BY <3>1 DEF Part
    <3>3. LinksFirst(next)
      <4>1. /\ next[1].op = "unlink" /\ next[2].op = "symlink" /\ next[2].what = next[1].what
        BY <3>1, OpIs
      <4> QED
        BY <3>1, <4>1 DEF LinksFirst
    <3> QED
      BY <3>1, <3>2, <3>3, OpIs DEF LinkOps
  <2>5. \/ \E op \in {"symlink", "readlink"} : next = <<Op(op, a.what)>>
        \/ next = <<Op("unlink", a.what), Op("symlink", a.what)>>
    BY <1>2 DEF Splices
  <2>6. CASE next = <<Op("unlink", a.what), Op("symlink", a.what)>>
    BY <2>0, <2>4, <2>6
  <2>7. CASE \E op \in {"symlink", "readlink"} : next = <<Op(op, a.what)>>
    <3>1. PICK op \in {"symlink", "readlink"} : next = <<Op(op, a.what)>>
      BY <2>7
    <3>2. /\ Part(next, Entries(next))
          /\ \A b \in Entries(next) : b.op \in LinkOps /\ b.what = a.what
          /\ LinksFirst(next) /\ Len(next) = 1
      BY <2>3, <3>1
    <3> QED
      BY <2>0, <3>2
  <2> QED
    BY <2>5, <2>6, <2>7
<1> QED
  BY <1>1, <1>2

LEMMA StillPlanned ==
  ASSUME NEW q, NEW R, Planned(R, q), R # <<>>, NEW next \in Splices(R[1])
  PROVE  /\ Planned(next \o Tail(R), q)
         /\ Entries(next \o Tail(R)) = Entries(next) \cup Entries(Tail(R))
         /\ ~HasHome(Entries(next \o Tail(R)))
         /\ \A b \in Entries(Tail(R)) : Fits(R[1], b)
<1> DEFINE T == Tail(R)
           a == R[1]
           C == next \o T
<1>0. R \in Seq(Operation) /\ Ordered(R) /\ LinksFirst(R) /\ SourceLast(R) /\ OfRequest(Entries(R), q)
  BY DEF Planned
<1>1. /\ a \in Operation /\ T \in Seq(Operation) /\ Len(R) \in Nat \ {0} /\ Len(T) = Len(R) - 1
      /\ \A i \in 1..(Len(R) - 1) : T[i] = R[i + 1]
      /\ Entries(R) = {a} \cup Entries(T)
  BY <1>0, TailOf
<1>2. /\ Part(next, Entries(next)) /\ next \in Seq(Operation)
      /\ \A b \in Entries(next) : b.op \in LinkOps /\ b.what = a.what /\ a.op \in {"lstat", "readlink"}
      /\ LinksFirst(next) /\ Len(next) \in Nat
      /\ Len(next) = 2 => next[1].op = "unlink"
      /\ Len(next) <= 2
  BY <1>1, SpliceOps DEF Part
<1>3. C \in Seq(Operation) /\ Len(C) = Len(next) + Len(T)
      /\ \A i \in 1..(Len(next) + Len(T)) : C[i] = IF i <= Len(next) THEN next[i] ELSE T[i - Len(next)]
  BY <1>1, <1>2, ConcatProperties
<1>4. Entries(C) = Entries(next) \cup Entries(T)
  <2> HIDE DEF T
  <2> QED
    BY <1>1, <1>2, EntriesOfConcat
<1> HIDE DEF T, a
<1>5. \A b \in Entries(T) : Fits(a, b) /\ \E i \in 1..Len(T) : b = T[i]
  <2> SUFFICES ASSUME NEW b \in Entries(T) PROVE Fits(a, b) /\ \E i \in 1..Len(T) : b = T[i]
    OBVIOUS
  <2>1. PICK i \in 1..Len(T) : b = T[i]
    BY <1>1, EntriesIn
  <2>2. b = R[i + 1] /\ 1 \in 1..Len(R) /\ i + 1 \in 1..Len(R) /\ 1 < i + 1
    BY <1>1, <2>1
  <2>3. Fits(R[1], R[i + 1])
    BY <1>0, <2>2 DEF Ordered
  <2> QED
    BY <2>1, <2>2, <2>3 DEF a
<1>6. Part(T, Entries(T))
  <2>1. ASSUME NEW i \in 1..Len(T), NEW j \in 1..Len(T), i < j PROVE Fits(T[i], T[j])
    <3>1. i + 1 \in 1..Len(R) /\ j + 1 \in 1..Len(R) /\ i + 1 < j + 1
      BY <1>1, <2>1
    <3> QED
      BY <1>0, <1>1, <3>1 DEF Ordered
  <2> QED
    BY <1>1, <2>1 DEF Part, Ordered
<1>7. \A x \in Entries(next), b \in Entries(T) : Fits(x, b)
  <2> SUFFICES ASSUME NEW x \in Entries(next), NEW b \in Entries(T) PROVE Fits(x, b)
    OBVIOUS
  <2>1. Fits(a, b) /\ x.what = a.what /\ a.op \in {"lstat", "readlink"}
    BY <1>2, <1>5
  <2>2. b.op # "home" /\ a.what # b.what
    BY <2>1 DEF Fits, Order
  <2> QED
    BY <2>1, <2>2 DEF Fits
<1>8. Part(C, Entries(C))
  <2>1. Part(C, Entries(next) \cup Entries(T))
    BY <1>2, <1>6, <1>7, Joined
  <2> QED
    BY <1>4, <2>1
<1>9. \A b \in Entries(C) : b.op # "home"
  BY <1>2, <1>4, <1>5 DEF Fits, LinkOps
<1>10. LinksFirst(C)
  <2> HIDE DEF C
  <2>1. \A i \in 1..Len(T) : T[i].op \in LinkOps => i = 1 /\ a.op = "unlink" /\ T[1].op = "symlink"
    <3> SUFFICES ASSUME NEW i \in 1..Len(T), T[i].op \in LinkOps
                 PROVE  i = 1 /\ a.op = "unlink" /\ T[1].op = "symlink"
      OBVIOUS
    <3>1. T[i] = R[i + 1] /\ i + 1 \in 1..Len(R) /\ i + 1 # 1
      BY <1>1
    <3>2. i + 1 = 2 /\ R[1].op = "unlink"
      BY <1>0, <3>1 DEF LinksFirst
    <3>3. R[2].op = "symlink"
      BY <1>0, <1>1, <3>2 DEF LinksFirst
    <3> QED
      BY <3>1, <3>2, <3>3 DEF a
  <2>2. CASE Len(next) = 0
    <3>1. \A i \in 1..Len(C) : C[i] = T[i] /\ Len(C) = Len(T)
      BY <1>1, <1>2, <1>3, <2>2
    <3>2. \A i \in 1..Len(C) : C[i].op \in LinkOps => i = 1
      BY <1>3, <2>1, <2>2, <3>1
    <3>3. Len(C) > 0 => C[1].op # "unlink"
      <4>1. SUFFICES ASSUME Len(C) > 0, C[1].op = "unlink" PROVE FALSE
        OBVIOUS
      <4>2. 1 \in 1..Len(C) /\ 1 \in 1..Len(T) /\ C[1] = T[1]
        BY <1>1, <1>3, <2>2, <3>1, <4>1
      <4>3. T[1].op \in LinkOps
        BY <4>1, <4>2 DEF LinkOps
      <4> QED
        BY <2>1, <4>1, <4>2, <4>3
    <3> QED
      BY <3>2, <3>3 DEF LinksFirst
  <2>3. CASE Len(next) > 0
    <3>1. 1 \in 1..Len(next) /\ next[1] \in Entries(next)
      BY <1>2, <2>3, EntriesIn
    <3>2. a.op \in {"lstat", "readlink"}
      BY <1>2, <3>1
    <3>3. \A i \in 1..Len(T) : T[i].op \notin LinkOps
      BY <2>1, <3>2
    <3>4. \A i \in 1..Len(C) : C[i].op \in LinkOps => i <= Len(next) /\ C[i] = next[i]
      BY <1>1, <1>2, <1>3, <3>3
    <3>5. C[1] = next[1] /\ (Len(next) = 2 => C[2] = next[2])
      BY <1>1, <1>2, <1>3, <2>3
    <3>6. \A i \in 1..Len(C) : C[i].op \in LinkOps => i = 1 \/ (i = 2 /\ C[1].op = "unlink")
      <4> SUFFICES ASSUME NEW i \in 1..Len(C), C[i].op \in LinkOps
                   PROVE  i = 1 \/ (i = 2 /\ C[1].op = "unlink")
        OBVIOUS
      <4>1. i = 1 \/ (i = 2 /\ Len(next) = 2)
        <5>1. i <= Len(next)
          BY <3>4
        <5>2. Len(next) \in Nat /\ Len(next) <= 2
          BY <1>2
        <5>3. Len(C) \in Nat
          BY <1>1, <1>3, <5>2
        <5>4. i \in Nat /\ i >= 1
          BY <5>3
        <5>5. ASSUME NEW m \in Nat, NEW k \in Nat, k >= 1, k <= m, m <= 2
              PROVE  k = 1 \/ (k = 2 /\ m = 2)
          BY <5>5
        <5> QED
          BY <5>1, <5>2, <5>4, <5>5
      <4> QED
        BY <1>2, <3>5, <4>1
    <3>7. C[1].op = "unlink" => Len(next) > 1 /\ next[2].op = "symlink" /\ next[2].what = next[1].what
      BY <1>2, <2>3, <3>5 DEF LinksFirst
    <3>8. C[1].op = "unlink" => Len(C) > 1 /\ C[2].op = "symlink" /\ C[2].what = C[1].what
      BY <1>1, <1>2, <1>3, <3>5, <3>7
    <3> QED
      BY <3>6, <3>8 DEF LinksFirst
  <2> QED
    BY <1>2, <2>2, <2>3
<1>11. SourceLast(C)
  <2> HIDE DEF C
  <2> SUFFICES ASSUME agent = "agy", NEW i \in 1..Len(C), C[i].op = "source"
               PROVE  i + 1 = Len(C) /\ C[i + 1].op = "lstat" /\ C[i + 1].what = "credentials"
    BY DEF SourceLast
  <2>1. i > Len(next)
    <3> SUFFICES ASSUME i <= Len(next) PROVE FALSE
      BY <1>2
    <3>1. i \in 1..Len(next) /\ C[i] = next[i] /\ next[i] \in Entries(next)
      BY <1>2, <1>3, EntriesIn
    <3> QED
      BY <1>2, <3>1 DEF LinkOps
  <2>2. i - Len(next) \in 1..Len(T) /\ C[i] = T[i - Len(next)]
    BY <1>1, <1>2, <1>3, <2>1
  <2> DEFINE j == i - Len(next)
  <2>3. j \in 1..Len(T) /\ j + 1 \in 1..Len(R) /\ R[j + 1].op = "source"
    <3>1. j \in 1..Len(T) /\ j + 1 \in 1..Len(R) /\ T[j] = R[j + 1]
      BY <1>1, <1>2, <2>2
    <3> QED
      BY <2>2, <3>1
  <2>4. (j + 1) + 1 = Len(R) /\ R[(j + 1) + 1].op = "lstat" /\ R[(j + 1) + 1].what = "credentials"
    BY <1>0, <2>3 DEF SourceLast
  <2>5. j + 1 \in 1..Len(T) /\ T[j + 1] = R[(j + 1) + 1] /\ j + 1 = Len(T)
    BY <1>1, <2>3, <2>4
  <2>6. i + 1 = Len(C) /\ C[i + 1] = T[j + 1]
    BY <1>1, <1>2, <1>3, <2>1, <2>5
  <2> QED
    BY <2>4, <2>5, <2>6
<1>12. OfRequest(Entries(C), q)
  <2>1. \A b \in Entries(C) : b \in Entries(R) \/ b.op \in LinkOps
    BY <1>1, <1>2, <1>4
  <2> QED
    BY <1>0, <2>1 DEF OfRequest, LinkOps, DirOps
<1>13. ~HasHome(Entries(C))
  BY <1>9 DEF HasHome
<1>14. Planned(C, q)
  BY <1>3, <1>8, <1>10, <1>11, <1>12, <1>13 DEF Planned, Part
<1> QED
  BY <1>4, <1>5, <1>13, <1>14 DEF C, T, a

LEMMA AgentFixed ==
  ASSUME agent' = agent, NEW R, NEW q, NEW ops, NEW h
  PROVE  /\ Planned(R, q)' <=> Planned(R, q)
         /\ Progress(h, ops, q)' <=> Progress(h, ops, q)
<1>1. /\ Synced(q)' = Synced(q) /\ Written(q)' = Written(q) /\ Removed(q)' = Removed(q)
      /\ Linked' = Linked
  BY DEF Synced, Written, Removed, Linked
<1>2. Fresh(ops, q)' <=> Fresh(ops, q)
  BY <1>1 DEF Fresh
<1>3. Fresh(Entries(R), q)' <=> Fresh(Entries(R), q)
  BY <1>1 DEF Fresh
<1>4. SourceLast(R)' <=> SourceLast(R)
  BY DEF SourceLast
<1>5. OfRequest(Entries(R), q)' <=> OfRequest(Entries(R), q)
  BY <1>1 DEF OfRequest
<1>6. Planned(R, q)' <=> Planned(R, q)
  BY <1>3, <1>4, <1>5 DEF Planned
<1>7. Progress(h, ops, q)' <=> Progress(h, ops, q)
  BY <1>1 DEF Progress, DirsSet, FilesSet, LinkSet
<1> QED
  BY <1>6, <1>7

-----------------------------------------------------------------------------
(* The invariant.                                                          *)

HomeSet ==
  [made  : BOOLEAN,
   dirs  : [Dirs -> (SUBSET Items) \cup {None}],
   files : [Files -> {q.id : q \in Requests} \cup {None}],
   links : [Links -> {"none", "file", "other", "right"}]]

HomesType ==
  /\ agent \in Agents
  /\ shared \in BOOLEAN
  /\ homes \in [Calls \cup {Persistent} -> HomeSet]
  /\ pc \in [Calls -> {"idle", "running", "ready", "failed", "crashed"}]
  /\ request \in [Calls -> Requests \cup {NoRequest}]
  /\ todo \in [Calls -> Seq(Operation)]
  /\ undisturbed \in [Calls -> BOOLEAN]
  /\ faulted \in [Calls -> BOOLEAN]

\* What is known of the link that the next operation is about.
HeadFits(home, R) ==
  Len(R) > 0 =>
    /\ R[1].op = "symlink" => home.links[R[1].what] = "none"
    /\ R[1].op = "readlink" => home.links[R[1].what] # "file"
    /\ R[1].op = "unlink" => home.links[R[1].what] # "right"

CallFits(c) ==
  /\ pc[c] \in {"running", "ready", "failed"} => request[c] \in Requests
  /\ pc[c] = "running" => /\ todo[c] # <<>>
                          /\ Planned(todo[c], request[c])
                          /\ Home(c).made \/ todo[c][1].op = "home"
                          /\ undisturbed[c] => HeadFits(Home(c), todo[c])
  /\ pc[c] = "ready" => todo[c] = <<>> /\ Home(c).made
  /\ pc[c] \in {"running", "ready"} /\ undisturbed[c] =>
       Progress(Home(c), Entries(todo[c]), request[c])
  /\ pc[c] = "failed" /\ undisturbed[c] => faulted[c]

\* While a call prepares a home, nobody else who has it is undisturbed.
Alone ==
  \A c, d \in Calls :
    c # d /\ pc[c] = "running" /\ pc[d] \in {"running", "ready"} /\ HomeOf(c) = HomeOf(d)
      => ~undisturbed[d]

NothingUnmade ==
  \A h \in Calls \cup {Persistent} : ~homes[h].made => homes[h].links["credentials"] = "none"

HomesInv == HomesType /\ (\A c \in Calls : CallFits(c)) /\ Alone /\ NothingUnmade

-----------------------------------------------------------------------------
(* Homes.                                                                  *)

WithDir(g, x, v) == [g EXCEPT !.dirs[x] = v]

LEMMA SetDir ==
  ASSUME NEW g \in HomeSet, NEW x \in Dirs, NEW v \in (SUBSET Items) \cup {None}
  PROVE  /\ WithDir(g, x, v) \in HomeSet /\ (g.made => WithDir(g, x, v).made)
         /\ WithDir(g, x, v).files = g.files /\ WithDir(g, x, v).links = g.links
         /\ WithDir(g, x, v).dirs[x] = v
         /\ \A d \in Dirs \ {x} : WithDir(g, x, v).dirs[d] = g.dirs[d]
BY DEF HomeSet, WithDir

WithFile(g, x, v) == [g EXCEPT !.files[x] = v]

LEMMA SetFile ==
  ASSUME NEW g \in HomeSet, NEW x \in Files, NEW v \in {q.id : q \in Requests} \cup {None}
  PROVE  /\ WithFile(g, x, v) \in HomeSet /\ (g.made => WithFile(g, x, v).made)
         /\ WithFile(g, x, v).dirs = g.dirs /\ WithFile(g, x, v).links = g.links
         /\ WithFile(g, x, v).files[x] = v
         /\ \A f \in Files \ {x} : WithFile(g, x, v).files[f] = g.files[f]
BY DEF HomeSet, WithFile

WithLink(g, x, v) == [g EXCEPT !.links[x] = v]

LEMMA SetLink ==
  ASSUME NEW g \in HomeSet, NEW x \in Links, NEW v \in {"none", "file", "other", "right"}
  PROVE  /\ WithLink(g, x, v) \in HomeSet /\ (g.made => WithLink(g, x, v).made)
         /\ WithLink(g, x, v).dirs = g.dirs /\ WithLink(g, x, v).files = g.files
         /\ WithLink(g, x, v).links[x] = v
         /\ \A l \in Links \ {x} : WithLink(g, x, v).links[l] = g.links[l]
BY DEF HomeSet, WithLink

LEMMA LinkMade ==
  ASSUME NEW g \in HomeSet, NEW x \in Links
  PROVE  LET h == WithLink(g, x, "right") IN
         /\ h \in HomeSet /\ (g.made => h.made) /\ h.dirs = g.dirs /\ h.files = g.files
         /\ h.links[x] = "right" /\ \A l \in Links \ {x} : h.links[l] = g.links[l]
<1>1. ASSUME NEW v, v = "right"
      PROVE  LET h == WithLink(g, x, v) IN
             /\ h \in HomeSet /\ (g.made => h.made) /\ h.dirs = g.dirs /\ h.files = g.files
             /\ h.links[x] = v /\ \A l \in Links \ {x} : h.links[l] = g.links[l]
  BY <1>1, SetLink
<1> QED
  BY <1>1

LEMMA LinkRemoved ==
  ASSUME NEW g \in HomeSet, NEW x \in Links
  PROVE  LET h == WithLink(g, x, "none") IN
         /\ h \in HomeSet /\ (g.made => h.made) /\ h.dirs = g.dirs /\ h.files = g.files
         /\ h.links[x] = "none" /\ \A l \in Links \ {x} : h.links[l] = g.links[l]
<1>1. ASSUME NEW v, v = "none"
      PROVE  LET h == WithLink(g, x, v) IN
             /\ h \in HomeSet /\ (g.made => h.made) /\ h.dirs = g.dirs /\ h.files = g.files
             /\ h.links[x] = v /\ \A l \in Links \ {x} : h.links[l] = g.links[l]
  BY <1>1, SetLink
<1> QED
  BY <1>1

LEMMA NewHome ==
  /\ NoHome \in HomeSet /\ ~NoHome.made /\ \A l \in Links : NoHome.links[l] = "none"
  /\ [NoHome EXCEPT !.made = TRUE] \in HomeSet /\ [NoHome EXCEPT !.made = TRUE].made
<1>1. NoHome \in HomeSet /\ ~NoHome.made /\ \A l \in Links : NoHome.links[l] = "none"
  BY DEF NoHome, HomeSet
<1> QED
  BY <1>1 DEF HomeSet

LEMMA HomeOfType ==
  ASSUME NEW c \in Calls, HomesType
  PROVE  /\ HomeOf(c) \in {c, Persistent} /\ HomeOf(c) \in Calls \cup {Persistent}
         /\ Home(c) \in HomeSet /\ Home(c) = homes[HomeOf(c)]
         /\ \A d \in Calls : c # d /\ HomeOf(d) = HomeOf(c) => HomeOf(c) = Persistent
<1>1. \A d \in Calls : HomeOf(d) = Persistent \/ HomeOf(d) = d
  BY DEF HomeOf
<1> QED
  BY <1>1, HomesAssumption DEF Home, HomesType

\* What an operation leaves of the plan, and of what is known.
Step(c, home, next) ==
  /\ home \in HomeSet /\ home.made
  /\ next \in Splices(todo[c][1])
  /\ undisturbed[c] =>
       /\ Progress(home, Entries(next) \cup Entries(Tail(todo[c])), request[c])
       /\ HeadFits(home, next \o Tail(todo[c]))
       /\ HomeOf(c) = Persistent /\ Home(c).made /\ Home(c).links["credentials"] = "right" =>
            home.links["credentials"] = "right"

Reasonless(c) == Reject(c) /\ UNCHANGED faulted /\ ~undisturbed[c]

\* What is done about a link is done at once: nothing else is under way.
LEMMA NoLinkNext ==
  ASSUME NEW q, NEW R, Planned(R, q), R # <<>>, NEW h, R[1].op # "unlink"
  PROVE  HeadFits(h, Tail(R)) /\ <<>> \o Tail(R) = Tail(R)
<1>1. /\ R \in Seq(Operation) /\ LinksFirst(R)
  BY DEF Planned
<1>2. /\ Tail(R) \in Seq(Operation) /\ Len(R) \in Nat \ {0} /\ Len(Tail(R)) = Len(R) - 1
      /\ \A i \in 1..(Len(R) - 1) : Tail(R)[i] = R[i + 1]
  BY <1>1, TailOf
<1> DEFINE T == Tail(R)
<1>3. T \in Seq(Operation) /\ Len(T) = Len(R) - 1 /\ \A i \in 1..(Len(R) - 1) : T[i] = R[i + 1]
  BY <1>2
<1> HIDE DEF T
<1>4. ASSUME Len(T) > 0 PROVE T[1].op \notin LinkOps
  <2>1. T[1] = R[2] /\ 2 \in 1..Len(R) /\ 2 # 1
    BY <1>2, <1>3, <1>4
  <2>2. R[2].op \in LinkOps => R[1].op = "unlink"
    BY <1>1, <2>1 DEF LinksFirst
  <2> QED
    BY <2>1, <2>2 DEF LinkOps
<1>5. HeadFits(h, T)
  BY <1>4 DEF HeadFits, LinkOps
<1>6. <<>> \o T = T
  BY <1>3, ConcatEmptySeq
<1> QED
  BY <1>5, <1>6 DEF T

\* What is known when a call performs an operation.
LEMMA OpKnown ==
  ASSUME HomesInv, NEW c \in Calls, pc[c] = "running"
  PROVE  LET R == todo[c] a == todo[c][1] q == request[c] IN
         /\ q \in Requests /\ R \in Seq(Operation) /\ R # <<>> /\ Planned(R, q)
         /\ Head(R) = a /\ a \in Operation
         /\ Home(c) \in HomeSet
         /\ Entries(R) = {a} \cup Entries(Tail(R))
         /\ \A b \in Entries(Tail(R)) : Fits(a, b)
         /\ OfRequest({a} \cup Entries(Tail(R)), q)
         /\ a.op = "home" => Fresh({a} \cup Entries(Tail(R)), q)
         /\ a.op # "home" => Home(c).made
         /\ undisturbed[c] => Progress(Home(c), {a} \cup Entries(Tail(R)), q)
         /\ undisturbed[c] => HeadFits(Home(c), R) /\ Len(R) > 0
<1> DEFINE R == todo[c]  a == todo[c][1]  q == request[c]
<1>1. /\ HomesType /\ CallFits(c)
  BY DEF HomesInv
<1>2. q \in Requests /\ R \in Seq(Operation) /\ R # <<>> /\ Planned(R, q) /\ Home(c) \in HomeSet
  BY <1>1, HomeOfType DEF CallFits, HomesType
<1>3. /\ Home(c).made \/ a.op = "home"
      /\ undisturbed[c] => HeadFits(Home(c), R) /\ Progress(Home(c), Entries(R), q)
  BY <1>1 DEF CallFits
<1> HIDE DEF q, R
<1>4. /\ Head(R) = R[1] /\ R[1] \in Operation /\ Entries(R) = {R[1]} \cup Entries(Tail(R))
      /\ Len(R) \in Nat \ {0}
  BY <1>2, TailOf
<1>5. <<>> \in Splices(R[1])
  BY DEF Splices
<1>6. \A b \in Entries(Tail(R)) : Fits(R[1], b)
  BY <1>2, <1>5, StillPlanned
<1>7. /\ OfRequest(Entries(R), q)
      /\ HasHome(Entries(R)) => Fresh(Entries(R), q)
  BY <1>2 DEF Planned
<1>8. a = R[1]
  BY DEF R
<1>9. a.op = "home" => HasHome({a} \cup Entries(Tail(R)))
  BY DEF HasHome
<1> HIDE DEF a
<1>10. /\ Entries(R) = {a} \cup Entries(Tail(R))
       /\ OfRequest({a} \cup Entries(Tail(R)), q)
       /\ a.op = "home" => Fresh({a} \cup Entries(Tail(R)), q)
       /\ undisturbed[c] => Progress(Home(c), {a} \cup Entries(Tail(R)), q)
  BY <1>3, <1>4, <1>7, <1>8, <1>9
<1>11. Len(R) > 0 /\ Head(R) = a /\ a \in Operation /\ \A b \in Entries(Tail(R)) : Fits(a, b)
  BY <1>4, <1>6, <1>8
<1> QED
  BY <1>2, <1>3, <1>10, <1>11 DEF R, q, a

\* An operation that is not about a link: its effect on the home is all there is to it.
LEMMA PlainStep ==
  ASSUME HomesInv, NEW c \in Calls, pc[c] = "running", todo[c][1].op # "unlink",
         NEW h \in HomeSet, h.made,
         undisturbed[c] => Progress(h, Entries(Tail(todo[c])), request[c]),
         HomeOf(c) = Persistent /\ Home(c).made /\ Home(c).links["credentials"] = "right" =>
           h.links["credentials"] = "right"
  PROVE  Step(c, h, <<>>)
<1>1. todo[c] # <<>> /\ Planned(todo[c], request[c])
  BY OpKnown
<1>2. HeadFits(h, Tail(todo[c])) /\ <<>> \o Tail(todo[c]) = Tail(todo[c])
  BY <1>1, NoLinkNext
<1>3. <<>> \in Splices(todo[c][1])
  BY DEF Splices
<1>4. Entries(<<>>) \cup Entries(Tail(todo[c])) = Entries(Tail(todo[c]))
  BY DEF Entries
<1>5. undisturbed[c] => Progress(h, Entries(<<>>) \cup Entries(Tail(todo[c])), request[c])
  BY <1>4
<1>6. HeadFits(h, <<>> \o Tail(todo[c]))
  BY <1>2
<1> QED
  BY <1>3, <1>5, <1>6 DEF Step

LEMMA StepHome ==
  ASSUME HomesInv, NEW c \in Calls, pc[c] = "running", todo[c][1].op = "home",
         NEW h, h = IF Home(c).made /\ request[c].persistent THEN Home(c)
                    ELSE [NoHome EXCEPT !.made = TRUE]
  PROVE  Step(c, h, <<>>)
<1>1. h \in HomeSet /\ h.made
  BY OpKnown, NewHome
<1>2. Progress(h, Entries(Tail(todo[c])), request[c])
  BY OpKnown, AfterHome
<1>3. HomeOf(c) = Persistent /\ Home(c).made => h = Home(c)
  BY HomesAssumption DEF HomeOf
<1> QED
  BY <1>1, <1>2, <1>3, PlainStep DEF LinkOps

\* The operations on a directory.
LEMMA StepDir ==
  ASSUME HomesInv, NEW c \in Calls, pc[c] = "running", todo[c][1].op \in DirOps,
         NEW v \in (SUBSET Items) \cup {None},
         undisturbed[c] /\ todo[c][1].what \in Synced(request[c]) =>
           \A h : h.dirs[todo[c][1].what] = v =>
             Dir(h, Entries(Tail(todo[c])), request[c].dirs[todo[c][1].what], todo[c][1].what)
  PROVE  Step(c, WithDir(Home(c), todo[c][1].what, v), <<>>)
<1> DEFINE a == todo[c][1]  g == Home(c)  h == WithDir(g, a.what, v)
<1>0. g.made
  BY OpKnown DEF DirOps
<1>1. g \in HomeSet /\ a \in Operation
  BY OpKnown DEF DirOps
<1>2. a.what \in Dirs
  BY <1>1, OperationType
<1>3. /\ h \in HomeSet /\ (g.made => h.made) /\ h.files = g.files /\ h.links = g.links
      /\ h.dirs[a.what] = v /\ \A d \in Dirs \ {a.what} : h.dirs[d] = g.dirs[d]
  BY <1>1, <1>2, SetDir
<1> HIDE DEF h
<1>4. ASSUME undisturbed[c]
      PROVE  Progress(h, Entries(Tail(todo[c])), request[c])
  <2>1. a.what \in Synced(request[c]) =>
          Dir(h, Entries(Tail(todo[c])), request[c].dirs[a.what], a.what)
    BY <1>3, <1>4
  <2>2. /\ request[c] \in Requests
        /\ \A b \in Entries(Tail(todo[c])) : Fits(a, b)
        /\ Progress(g, {a} \cup Entries(Tail(todo[c])), request[c])
        /\ OfRequest({a} \cup Entries(Tail(todo[c])), request[c])
    BY <1>4, OpKnown
  <2>3. a.op \in DirOps
    OBVIOUS
  <2> HIDE DEF g, a
  <2> QED
    BY <1>3, <2>1, <2>2, <2>3, AfterDirOp
<1>5. a.op # "unlink"
  BY DEF DirOps, LinkOps
<1>6. h.made
  BY <1>0, <1>3
<1>7. Step(c, h, <<>>)
  BY <1>3, <1>4, <1>5, <1>6, PlainStep
<1> QED
  BY <1>7 DEF h

LEMMA StepRm ==
  ASSUME HomesInv, NEW c \in Calls, pc[c] = "running", todo[c][1].op = "rm"
  PROVE  Step(c, WithDir(Home(c), todo[c][1].what, None), <<>>)
<1>1. undisturbed[c] /\ todo[c][1].what \in Synced(request[c]) =>
        \A h : h.dirs[todo[c][1].what] = None =>
          Dir(h, Entries(Tail(todo[c])), request[c].dirs[todo[c][1].what], todo[c][1].what)
  BY OpKnown, AfterRm
<1> QED
  BY <1>1, StepDir DEF DirOps

LEMMA StepMkdir ==
  ASSUME HomesInv, NEW c \in Calls, pc[c] = "running", todo[c][1].op = "mkdir", NEW v,
         v = IF Home(c).dirs[todo[c][1].what] = None THEN {} ELSE Home(c).dirs[todo[c][1].what]
  PROVE  Step(c, WithDir(Home(c), todo[c][1].what, v), <<>>)
<1>1. undisturbed[c] /\ todo[c][1].what \in Synced(request[c]) =>
        \A h : h.dirs[todo[c][1].what] = v =>
          Dir(h, Entries(Tail(todo[c])), request[c].dirs[todo[c][1].what], todo[c][1].what)
  BY OpKnown, AfterMkdir
<1>2. v \in (SUBSET Items) \cup {None}
  <2>1. Home(c) \in HomeSet /\ todo[c][1].what \in Dirs
    BY OpKnown, OperationType DEF DirOps
  <2>2. Home(c).dirs[todo[c][1].what] \in (SUBSET Items) \cup {None}
    BY <2>1 DEF HomeSet
  <2> QED
    BY <2>2
<1> QED
  BY <1>1, <1>2, StepDir DEF DirOps

LEMMA StepCopy ==
  ASSUME HomesInv, NEW c \in Calls, pc[c] = "running", todo[c][1].op = "copy", NEW v,
         v = CopyInto(Home(c).dirs[todo[c][1].what], todo[c][1])
  PROVE  /\ Step(c, WithDir(Home(c), todo[c][1].what, v), <<>>)
         /\ undisturbed[c] => Home(c).dirs[todo[c][1].what] # None
<1> DEFINE a == todo[c][1]  g == Home(c)
<1>1. g \in HomeSet /\ a.what \in Dirs /\ a.item \in Items
  BY OpKnown, OperationType DEF DirOps
<1>2. g.dirs[a.what] \in (SUBSET Items) \cup {None}
  <2> HIDE DEF g, a
  <2> QED
    BY <1>1 DEF HomeSet
<1>3. v \in SUBSET Items /\ v # None
  BY <1>1, <1>2, NoneAssumption DEF CopyInto
<1>4. ASSUME undisturbed[c], a.what \in Synced(request[c])
      PROVE  /\ g.dirs[a.what] # None
             /\ \A h : h.dirs[a.what] = v =>
                  Dir(h, Entries(Tail(todo[c])), request[c].dirs[a.what], a.what)
  <2>1. /\ request[c] \in Requests
        /\ \A b \in Entries(Tail(todo[c])) : Fits(a, b)
        /\ Progress(g, {a} \cup Entries(Tail(todo[c])), request[c])
    BY <1>4, OpKnown
  <2>2. \A h : /\ g.dirs[a.what] # None
               /\ h.dirs[a.what] = g.dirs[a.what] \cup {a.item} /\ h.dirs[a.what] # None =>
                    Dir(h, Entries(Tail(todo[c])), request[c].dirs[a.what], a.what)
    <3>1. a.op = "copy" /\ a.what \in Synced(request[c])
      BY <1>4
    <3> HIDE DEF a, g
    <3> QED
      BY <2>1, <3>1, AfterCopy
  <2>3. v = g.dirs[a.what] \cup {a.item}
    BY <2>2 DEF CopyInto
  <2> QED
    BY <1>3, <2>2, <2>3
<1>5. undisturbed[c] => g.dirs[a.what] # None
  <2>1. a.what \in Synced(request[c])
    BY OpKnown DEF OfRequest, DirOps
  <2> QED
    BY <1>4, <2>1
<1>6. Step(c, WithDir(Home(c), todo[c][1].what, v), <<>>)
  BY <1>3, <1>4, StepDir DEF DirOps
<1> QED
  BY <1>5, <1>6

\* The operations on a file.
LEMMA StepFile ==
  ASSUME HomesInv, NEW c \in Calls, pc[c] = "running", todo[c][1].op \in FileOps,
         NEW v, v = IF todo[c][1].op = "write" THEN request[c].id ELSE None
  PROVE  Step(c, WithFile(Home(c), todo[c][1].what, v), <<>>)
<1> DEFINE a == todo[c][1]  g == Home(c)  h == WithFile(g, a.what, v)
<1>0. g.made
  BY OpKnown DEF FileOps
<1>1. g \in HomeSet /\ a \in Operation /\ request[c] \in Requests
  BY OpKnown DEF FileOps
<1>2. a.what \in Files /\ v \in {q.id : q \in Requests} \cup {None}
  BY <1>1, OperationType
<1>3. /\ h \in HomeSet /\ (g.made => h.made) /\ h.dirs = g.dirs /\ h.links = g.links
      /\ h.files[a.what] = v /\ \A f \in Files \ {a.what} : h.files[f] = g.files[f]
  BY <1>1, <1>2, SetFile
<1> HIDE DEF h
<1>4. ASSUME undisturbed[c]
      PROVE  Progress(h, Entries(Tail(todo[c])), request[c])
  <2>1. /\ Progress(g, {a} \cup Entries(Tail(todo[c])), request[c])
        /\ OfRequest({a} \cup Entries(Tail(todo[c])), request[c])
    BY <1>4, OpKnown
  <2>2. a.op \in FileOps /\ v = IF a.op = "write" THEN request[c].id ELSE None
    OBVIOUS
  <2> HIDE DEF g, a
  <2> QED
    BY <1>1, <1>2, <1>3, <2>1, <2>2, AfterFileOp
<1>5. a.op # "unlink"
  BY DEF FileOps, LinkOps
<1>6. h.made
  BY <1>0, <1>3
<1>7. Step(c, h, <<>>)
  BY <1>3, <1>4, <1>5, <1>6, PlainStep
<1> QED
  BY <1>7 DEF h

LEMMA LinkingIs ==
  ASSUME NEW l
  PROVE  /\ Linking(l, "right") = <<>>
         /\ Linking(l, "none") = <<Op("symlink", l)>>
         /\ Linking(l, "other") = <<Op("unlink", l), Op("symlink", l)>>
<1>1. /\ ToLink("right") = <<>> /\ ToLink("none") = <<"symlink">>
      /\ ToLink("other") = <<"unlink", "symlink">>
  BY DEF ToLink
<1>2. [i \in DOMAIN <<>> |-> Op(<<>>[i], l)] = <<>>
  OBVIOUS
<1>3. [i \in DOMAIN <<"symlink">> |-> Op(<<"symlink">>[i], l)] = <<Op("symlink", l)>>
  OBVIOUS
<1>4. [i \in DOMAIN <<"unlink", "symlink">> |-> Op(<<"unlink", "symlink">>[i], l)]
        = <<Op("unlink", l), Op("symlink", l)>>
  OBVIOUS
<1> QED
  BY <1>1, <1>2, <1>3, <1>4 DEF Linking

\* The first of the operations that come in the place of one.
LEMMA FirstOfSplice ==
  ASSUME NEW a \in Operation, NEW next \in Splices(a), next # <<>>, NEW T \in Seq(Operation)
  PROVE  /\ (next \o T)[1] = next[1] /\ next[1] \in Entries(next)
         /\ Len(next \o T) > 0
<1>1. next \in Seq(Operation) /\ Len(next) \in Nat
  BY SpliceOps DEF Part
<1>2. Len(next) # 0
  BY <1>1, EmptySeq
<1>3. 1 \in 1..Len(next) /\ next[1] \in Entries(next)
  BY <1>1, <1>2, EntriesIn
<1>4. Len(T) \in Nat
  BY LenProperties
<1> QED
  BY <1>1, <1>2, <1>3, <1>4, ConcatProperties

\* More is to be done about a link.
LEMMA MoreToLink ==
  ASSUME HomesInv, NEW c \in Calls, pc[c] = "running",
         todo[c][1].op \in {"lstat", "readlink"},
         NEW next \in Splices(todo[c][1]), next # <<>>,
         next[1].op = "symlink" => Home(c).links[todo[c][1].what] = "none",
         next[1].op = "readlink" => Home(c).links[todo[c][1].what] # "file",
         next[1].op = "unlink" => Home(c).links[todo[c][1].what] # "right"
  PROVE  Step(c, Home(c), next)
<1> DEFINE a == todo[c][1]  g == Home(c)  T == Tail(todo[c])
<1>1. g \in HomeSet /\ a \in Operation /\ todo[c] \in Seq(Operation) /\ todo[c] # <<>>
  BY OpKnown
<1>2. g.made
  BY OpKnown
<1>3. T \in Seq(Operation)
  BY <1>1, TailOf
<1>4. /\ \A b \in Entries(next) : b.op \in LinkOps /\ b.what = a.what
      /\ Part(next, Entries(next)) /\ Len(next) \in Nat
  BY <1>1, SpliceOps
<1>5. (next \o T)[1] = next[1] /\ next[1] \in Entries(next) /\ next[1].what = a.what
  BY <1>1, <1>3, <1>4, FirstOfSplice
<1>6. HeadFits(g, next \o T)
  BY <1>5 DEF HeadFits
<1>7. \E op \in {"lstat", "readlink", "symlink"} : Has(Entries(next), op, a.what)
  <2>1. \/ next = <<Op("symlink", a.what)>>
        \/ next = <<Op("unlink", a.what), Op("symlink", a.what)>>
        \/ next = <<Op("readlink", a.what)>>
    BY DEF Splices
  <2>2. CASE next = <<Op("symlink", a.what)>>
    <3>1. Op("symlink", a.what) \in Entries(next)
      BY <1>5, <2>2
    <3> QED
      BY <3>1, OpIn
  <2>3. CASE next = <<Op("readlink", a.what)>>
    <3>1. Op("readlink", a.what) \in Entries(next)
      BY <1>5, <2>3
    <3> QED
      BY <3>1, OpIn
  <2>4. CASE next = <<Op("unlink", a.what), Op("symlink", a.what)>>
    <3>1. Op("symlink", a.what) \in Entries(next)
      <4>1. 2 \in DOMAIN next /\ next[2] = Op("symlink", a.what)
        BY <2>4
      <4> QED
        BY <4>1 DEF Entries
    <3> QED
      BY <3>1, OpIn
  <2> QED
    BY <2>1, <2>2, <2>3, <2>4
<1>8. ASSUME undisturbed[c]
      PROVE  Progress(g, Entries(next) \cup Entries(T), request[c])
  <2>1. Progress(g, {a} \cup Entries(T), request[c])
    BY <1>8, OpKnown
  <2>2. AboutLink(a) /\ \A b \in Entries(next) : AboutLink(b)
    BY <1>4 DEF AboutLink, LinkOps
  <2>3. \E op \in {"lstat", "readlink", "symlink"} : Has(Entries(next) \cup Entries(T), op, a.what)
    BY <1>7, HasOf
  <2> HIDE DEF a, g, T
  <2> QED
    BY <2>1, <2>2, <2>3, AfterLinkOp
<1> QED
  BY <1>1, <1>2, <1>6, <1>8 DEF Step

\* Nothing more is to be done about it.
LEMMA LinkIsDone ==
  ASSUME HomesInv, NEW c \in Calls, pc[c] = "running",
         todo[c][1].op \in {"source", "lstat", "readlink", "symlink"},
         NEW h \in HomeSet, h.made, h.dirs = Home(c).dirs, h.files = Home(c).files,
         \A l \in Links \ {todo[c][1].what} : h.links[l] = Home(c).links[l],
         IF todo[c][1].op = "source" THEN h = Home(c) ELSE h.links[todo[c][1].what] = "right"
  PROVE  Step(c, h, <<>>)
<1> DEFINE a == todo[c][1]  g == Home(c)  T == Tail(todo[c])
<1>1. ASSUME undisturbed[c]
      PROVE  Progress(h, Entries(T), request[c])
  <2>1. Progress(g, {a} \cup Entries(T), request[c])
    BY <1>1, OpKnown
  <2>2. AboutLink(a)
    BY DEF AboutLink, LinkOps
  <2>3. \/ h.links[a.what] = "right"
        \/ h.links[a.what] = g.links[a.what] /\ a.op \in {"source", "unlink"}
    OBVIOUS
  <2>4. h.dirs = g.dirs /\ h.files = g.files /\ \A l \in Links \ {a.what} : h.links[l] = g.links[l]
    OBVIOUS
  <2> HIDE DEF a, g, T
  <2> QED
    BY <2>1, <2>2, <2>3, <2>4, AfterLastLinkOp
<1>2. g.links["credentials"] = "right" => h.links["credentials"] = "right"
  <2>1. "credentials" \in Links
    BY DEF Links
  <2> QED
    BY <2>1
<1> QED
  BY <1>1, <1>2, PlainStep

LEMMA StepLstat ==
  ASSUME HomesInv, NEW c \in Calls, pc[c] = "running", todo[c][1].op = "lstat", NEW next,
         next = IF Home(c).links[todo[c][1].what] = "none" THEN Linking(todo[c][1].what, "none")
                ELSE IF Home(c).links[todo[c][1].what] = "file" THEN Linking(todo[c][1].what, "other")
                ELSE <<Op("readlink", todo[c][1].what)>>
  PROVE  Step(c, Home(c), next)
<1> DEFINE x == todo[c][1].what  s == Home(c).links[x]
<1>1. next = IF s = "none" THEN <<Op("symlink", x)>>
             ELSE IF s = "file" THEN <<Op("unlink", x), Op("symlink", x)>>
             ELSE <<Op("readlink", x)>>
  BY LinkingIs
<1>2. next \in Splices(todo[c][1]) /\ next # <<>>
  <2>1. CASE s = "none"
    BY <1>1, <2>1 DEF Splices
  <2>2. CASE s = "file"
    BY <1>1, <2>2 DEF Splices
  <2>3. CASE s # "none" /\ s # "file"
    BY <1>1, <2>3 DEF Splices
  <2> QED
    BY <2>1, <2>2, <2>3
<1>3. next[1] = IF s = "none" THEN Op("symlink", x)
                ELSE IF s = "file" THEN Op("unlink", x)
                ELSE Op("readlink", x)
  BY <1>1
<1>4. next[1].op = IF s = "none" THEN "symlink" ELSE IF s = "file" THEN "unlink" ELSE "readlink"
  BY <1>3, OpIs
<1> QED
  BY <1>2, <1>4, MoreToLink

LEMMA StepReadlink ==
  ASSUME HomesInv, NEW c \in Calls, pc[c] = "running", todo[c][1].op = "readlink",
         Home(c).links[todo[c][1].what] # "file", NEW next,
         next = Linking(todo[c][1].what, Home(c).links[todo[c][1].what])
  PROVE  Step(c, Home(c), next)
<1> DEFINE x == todo[c][1].what  s == Home(c).links[x]
<1>1. s \in {"none", "other", "right"}
  <2>1. Home(c) \in HomeSet /\ x \in Links
    BY OpKnown, OperationType DEF LinkOps
  <2> QED
    BY <2>1 DEF HomeSet
<1>2. CASE s = "right"
  <2>1. next = <<>>
    BY <1>2, LinkingIs
  <2>2. Home(c) \in HomeSet
    BY OpKnown
  <2>3. Home(c).made
    BY OpKnown
  <2>4. Step(c, Home(c), <<>>)
    BY <1>2, <2>2, <2>3, LinkIsDone
  <2> QED
    BY <2>1, <2>4
<1>3. CASE s # "right"
  <2>1. next = IF s = "none" THEN <<Op("symlink", x)>> ELSE <<Op("unlink", x), Op("symlink", x)>>
    BY <1>1, <1>3, LinkingIs
  <2>2. next \in Splices(todo[c][1]) /\ next # <<>>
    BY <2>1 DEF Splices
  <2>3. next[1] = IF s = "none" THEN Op("symlink", x) ELSE Op("unlink", x)
    BY <2>1
  <2>4. next[1].op = IF s = "none" THEN "symlink" ELSE "unlink"
    BY <2>3, OpIs
  <2> QED
    BY <1>3, <2>2, <2>4, MoreToLink
<1> QED
  BY <1>2, <1>3

LEMMA StepSymlink ==
  ASSUME HomesInv, NEW c \in Calls, pc[c] = "running", todo[c][1].op = "symlink"
  PROVE  Step(c, WithLink(Home(c), todo[c][1].what, "right"), <<>>)
<1> DEFINE x == todo[c][1].what  g == Home(c)  h == WithLink(g, x, "right")
<1>1. g \in HomeSet /\ x \in Links
  BY OpKnown, OperationType DEF LinkOps
<1>2. g.made
  BY OpKnown
<1>3. /\ h \in HomeSet /\ (g.made => h.made) /\ h.dirs = g.dirs /\ h.files = g.files
      /\ h.links[x] = "right" /\ \A l \in Links \ {x} : h.links[l] = g.links[l]
  BY <1>1, LinkMade
<1> HIDE DEF h
<1>4. h.made
  BY <1>2, <1>3
<1>5. Step(c, h, <<>>)
  BY <1>3, <1>4, LinkIsDone
<1> QED
  BY <1>5 DEF h

LEMMA StepUnlink ==
  ASSUME HomesInv, NEW c \in Calls, pc[c] = "running", todo[c][1].op = "unlink"
  PROVE  Step(c, WithLink(Home(c), todo[c][1].what, "none"), <<>>)
<1> DEFINE a == todo[c][1]  x == todo[c][1].what  g == Home(c)  h == WithLink(g, x, "none")
           T == Tail(todo[c])
<1>1. g \in HomeSet /\ x \in Links
  BY OpKnown, OperationType DEF LinkOps
<1>2. g.made
  BY OpKnown
<1>3. /\ h \in HomeSet /\ (g.made => h.made) /\ h.dirs = g.dirs /\ h.files = g.files
      /\ h.links[x] = "none" /\ \A l \in Links \ {x} : h.links[l] = g.links[l]
  BY <1>1, LinkRemoved
<1> HIDE DEF h
<1>4. h.made
  BY <1>2, <1>3
<1>5. Len(T) > 0 /\ T \in Seq(Operation) /\ T[1].op = "symlink" /\ T[1].what = x /\ T[1] \in Entries(T)
  <2>1. todo[c] \in Seq(Operation) /\ todo[c] # <<>> /\ LinksFirst(todo[c])
    BY OpKnown DEF Planned
  <2>2. /\ T \in Seq(Operation) /\ Len(todo[c]) \in Nat \ {0} /\ Len(T) = Len(todo[c]) - 1
        /\ \A i \in 1..(Len(todo[c]) - 1) : T[i] = todo[c][i + 1]
    BY <2>1, TailOf
  <2>3. Len(todo[c]) > 1 /\ todo[c][2].op = "symlink" /\ todo[c][2].what = x
    BY <2>1, <2>2 DEF LinksFirst
  <2> HIDE DEF T
  <2>4. 1 \in 1..Len(T) /\ T[1] = todo[c][2] /\ Len(T) > 0
    BY <2>2, <2>3
  <2>5. T[1] \in Entries(T)
    BY <2>2, <2>4, EntriesIn
  <2> QED
    BY <2>2, <2>3, <2>4, <2>5
<1>6. HeadFits(h, T)
  BY <1>3, <1>5 DEF HeadFits
<1>7. ASSUME undisturbed[c]
      PROVE  Progress(h, Entries(T), request[c]) /\ g.links[x] # "right"
  <2>1. Progress(g, {a} \cup Entries(T), request[c])
    BY <1>7, OpKnown
  <2>2. AboutLink(a)
    BY DEF AboutLink, LinkOps
  <2>3. \E op \in {"lstat", "readlink", "symlink"} : Has(Entries(T), op, a.what)
    BY <1>5 DEF Has
  <2>4. h.dirs = g.dirs /\ h.files = g.files /\ \A l \in Links \ {a.what} : h.links[l] = g.links[l]
    BY <1>3
  <2>5. Progress(h, Entries(T), request[c])
    <3> HIDE DEF a, g, T
    <3> QED
      BY <2>1, <2>2, <2>3, <2>4, AfterLastLinkOp
  <2>6. g.links[x] # "right"
    BY <1>7, OpKnown DEF HeadFits
  <2> QED
    BY <2>5, <2>6
<1>8. Entries(<<>>) \cup Entries(T) = Entries(T) /\ <<>> \o T = T /\ <<>> \in Splices(a)
  <2>1. <<>> \o T = T
    BY <1>5, ConcatEmptySeq
  <2> QED
    BY <2>1 DEF Entries, Splices
<1>9. undisturbed[c] /\ g.links["credentials"] = "right" => h.links["credentials"] = "right"
  <2>1. "credentials" \in Links
    BY DEF Links
  <2> QED
    BY <1>3, <1>7, <2>1
<1>10. Step(c, h, <<>>)
  BY <1>3, <1>4, <1>6, <1>7, <1>8, <1>9 DEF Step
<1> QED
  BY <1>10 DEF h

LEMMA PerformStep ==
  ASSUME HomesInv, NEW c \in Calls, Perform(c)
  PROVE  /\ pc[c] = "running" /\ UNCHANGED <<agent, shared>>
         /\ (\E h, next : Done(c, h, next) /\ Step(c, h, next)) \/ Reasonless(c)
<1> DEFINE a == todo[c][1]  x == a.what  home == Home(c)
           Steps == \E h, next : Done(c, h, next) /\ Step(c, h, next)
<1>1. pc[c] = "running" /\ UNCHANGED <<agent, shared>>
  BY DEF Perform
<1>2. Head(todo[c]) = a
  BY <1>1, OpKnown
<1>3. CASE a.op = "home" /\ Done(c, IF home.made /\ request[c].persistent THEN home
                                    ELSE [NoHome EXCEPT !.made = TRUE], <<>>)
  <2> DEFINE h == IF home.made /\ request[c].persistent THEN home
                   ELSE [NoHome EXCEPT !.made = TRUE]
  <2>1. Step(c, h, <<>>)
    BY <1>1, <1>3, StepHome
  <2>2. Done(c, h, <<>>)
    BY <1>3
  <2> HIDE DEF h
  <2> QED
    BY <1>1, <2>1, <2>2
<1>4. CASE a.op = "rm" /\ Done(c, [home EXCEPT !.dirs[x] = None], <<>>)
  <2> DEFINE h == [home EXCEPT !.dirs[x] = None]
  <2>1. Step(c, h, <<>>)
    BY <1>1, <1>4, StepRm DEF WithDir
  <2>2. Done(c, h, <<>>)
    BY <1>4
  <2> HIDE DEF h
  <2> QED
    BY <1>1, <2>1, <2>2
<1>5. CASE a.op = "mkdir" /\ Done(c, [home EXCEPT !.dirs[x] = IF @ = None THEN {} ELSE @], <<>>)
  <2> DEFINE h == [home EXCEPT !.dirs[x] = IF @ = None THEN {} ELSE @]
  <2>1. Step(c, h, <<>>)
    BY <1>1, <1>5, StepMkdir DEF WithDir
  <2>2. Done(c, h, <<>>)
    BY <1>5
  <2> HIDE DEF h
  <2> QED
    BY <1>1, <2>1, <2>2
<1>6. CASE a.op = "copy" /\ Done(c, [home EXCEPT !.dirs[x] = CopyInto(@, a)], <<>>)
  <2> DEFINE h == [home EXCEPT !.dirs[x] = CopyInto(@, a)]
  <2>1. Step(c, h, <<>>)
    BY <1>1, <1>6, StepCopy DEF WithDir
  <2>2. Done(c, h, <<>>)
    BY <1>6
  <2> HIDE DEF h
  <2> QED
    BY <1>1, <2>1, <2>2
<1>7. CASE a.op = "copy" /\ home.dirs[x] = None /\ Reject(c) /\ UNCHANGED faulted
  <2>1. ~undisturbed[c]
    BY <1>1, <1>7, StepCopy
  <2> QED
    BY <1>1, <1>7, <2>1 DEF Reasonless
<1>8. CASE a.op = "write" /\ Done(c, [home EXCEPT !.files[x] = request[c].id], <<>>)
  <2> DEFINE h == [home EXCEPT !.files[x] = request[c].id]
  <2>1. Step(c, h, <<>>)
    BY <1>1, <1>8, StepFile DEF WithFile, FileOps
  <2>2. Done(c, h, <<>>)
    BY <1>8
  <2> HIDE DEF h
  <2> QED
    BY <1>1, <2>1, <2>2
<1>9. CASE a.op = "remove" /\ Done(c, [home EXCEPT !.files[x] = None], <<>>)
  <2> DEFINE h == [home EXCEPT !.files[x] = None]
  <2>1. Step(c, h, <<>>)
    BY <1>1, <1>9, StepFile DEF WithFile, FileOps
  <2>2. Done(c, h, <<>>)
    BY <1>9
  <2> HIDE DEF h
  <2> QED
    BY <1>1, <2>1, <2>2
<1>10. CASE a.op = "source" /\ Done(c, home, <<>>)
  <2>1. home \in HomeSet
    BY <1>1, OpKnown
  <2>2. home.made
    BY <1>1, <1>10, OpKnown
  <2>3. Step(c, home, <<>>)
    BY <1>1, <1>10, <2>1, <2>2, LinkIsDone
  <2> QED
    BY <1>1, <1>10, <2>3
<1>11. CASE /\ a.op = "lstat"
            /\ Done(c, home, IF home.links[x] = "none" THEN Linking(x, "none")
                             ELSE IF home.links[x] = "file" THEN Linking(x, "other")
                             ELSE <<Op("readlink", x)>>)
  BY <1>1, <1>11, StepLstat
<1>12. CASE a.op = "readlink" /\ home.links[x] # "file" /\ Done(c, home, Linking(x, home.links[x]))
  BY <1>1, <1>12, StepReadlink
<1>13. CASE a.op = "unlink" /\ Done(c, [home EXCEPT !.links[x] = "none"], <<>>)
  <2> DEFINE h == [home EXCEPT !.links[x] = "none"]
  <2>1. Step(c, h, <<>>)
    BY <1>1, <1>13, StepUnlink DEF WithLink
  <2>2. Done(c, h, <<>>)
    BY <1>13
  <2> HIDE DEF h
  <2> QED
    BY <1>1, <2>1, <2>2
<1>14. CASE a.op = "symlink" /\ Done(c, [home EXCEPT !.links[x] = "right"], <<>>)
  <2> DEFINE h == [home EXCEPT !.links[x] = "right"]
  <2>1. Step(c, h, <<>>)
    BY <1>1, <1>14, StepSymlink DEF WithLink
  <2>2. Done(c, h, <<>>)
    BY <1>14
  <2> HIDE DEF h
  <2> QED
    BY <1>1, <2>1, <2>2
<1>15. CASE /\ \/ a.op = "symlink" /\ home.links[x] # "none"
               \/ a.op = "readlink" /\ home.links[x] = "file"
            /\ Reject(c) /\ UNCHANGED faulted
  <2>1. ~undisturbed[c]
    BY <1>1, <1>15, OpKnown DEF HeadFits
  <2> QED
    BY <1>1, <1>15, <2>1 DEF Reasonless
<1> HIDE DEF Steps
<1>16. Steps \/ Reasonless(c)
  BY <1>2, <1>3, <1>4, <1>5, <1>6, <1>7, <1>8, <1>9, <1>10, <1>11, <1>12, <1>13, <1>14, <1>15
     DEF Perform, Steps
<1> QED
  BY <1>1, <1>16 DEF Steps

-----------------------------------------------------------------------------
(* What the actions leave of the invariant.                                *)

LEMMA CallStays ==
  ASSUME NEW e \in Calls, CallFits(e), agent' = agent,
         pc'[e] = pc[e], request'[e] = request[e], todo'[e] = todo[e], faulted'[e] = faulted[e],
         undisturbed'[e] => undisturbed[e],
         pc[e] \in {"running", "ready"} =>
           /\ homes[HomeOf(e)].made => homes'[HomeOf(e)].made
           /\ undisturbed'[e] => homes'[HomeOf(e)] = homes[HomeOf(e)]
  PROVE  CallFits(e)'
<1>1. HomeOf(e)' = HomeOf(e)
  BY DEF HomeOf
<1>2. Home(e)' = homes'[HomeOf(e)] /\ Home(e) = homes[HomeOf(e)]
  BY <1>1 DEF Home
<1>3. /\ Planned(todo[e], request[e])' <=> Planned(todo'[e], request'[e])
      /\ Progress(Home(e), Entries(todo[e]), request[e])'
           <=> Progress(Home(e)', Entries(todo'[e]), request'[e])
      /\ HeadFits(Home(e), todo[e])' <=> HeadFits(Home(e)', todo'[e])
  <2>1. Planned(todo[e], request[e])' <=> Planned(todo'[e], request'[e])
    BY AgentFixed
  <2>2. Progress(Home(e), Entries(todo[e]), request[e])'
          <=> Progress(Home(e)', Entries(todo[e])', request'[e])
    BY AgentFixed
  <2>3. Entries(todo[e])' = Entries(todo'[e])
    BY DEF Entries
  <2> QED
    BY <2>1, <2>2, <2>3 DEF HeadFits
<1>4. pc'[e] \in {"running", "ready", "failed"} => request'[e] \in Requests
  BY DEF CallFits
<1>5. pc'[e] = "running" => /\ todo'[e] # <<>>
                            /\ Planned(todo'[e], request'[e])
                            /\ Home(e)'.made \/ todo'[e][1].op = "home"
                            /\ undisturbed'[e] => HeadFits(Home(e)', todo'[e])
  BY <1>2 DEF CallFits
<1>6. pc'[e] = "ready" => todo'[e] = <<>> /\ Home(e)'.made
  BY <1>2 DEF CallFits
<1>7. pc'[e] \in {"running", "ready"} /\ undisturbed'[e] =>
        Progress(Home(e)', Entries(todo'[e]), request'[e])
  BY <1>2 DEF CallFits
<1>8. pc'[e] = "failed" /\ undisturbed'[e] => faulted'[e]
  BY DEF CallFits
<1> QED
  BY <1>3, <1>4, <1>5, <1>6, <1>7, <1>8 DEF CallFits

\* No call gets to be running, or gets another home.
LEMMA AloneStays ==
  ASSUME Alone,
         \A c \in Calls : /\ pc'[c] = "running" => pc[c] = "running"
                          /\ pc'[c] \in {"running", "ready"} =>
                               pc[c] \in {"running", "ready"} /\ request'[c] = request[c]
                          /\ undisturbed'[c] => undisturbed[c]
  PROVE  Alone'
<1> SUFFICES ASSUME NEW c \in Calls, NEW d \in Calls, c # d, pc'[c] = "running",
                    pc'[d] \in {"running", "ready"}, HomeOf(c)' = HomeOf(d)', undisturbed'[d]
             PROVE  FALSE
  BY DEF Alone
<1>1. /\ pc[c] = "running" /\ pc[d] \in {"running", "ready"} /\ undisturbed[d]
      /\ request'[c] = request[c] /\ request'[d] = request[d]
  OBVIOUS
<1>2. HomeOf(c) = HomeOf(d)
  BY <1>1 DEF HomeOf
<1> QED
  BY <1>1, <1>2 DEF Alone

\* The homes of other calls are others, or the persistent one.
LEMMA OthersHome ==
  ASSUME HomesInv, NEW c \in Calls, NEW e \in Calls, e # c
  PROVE  /\ HomeOf(e) # c
         /\ pc[c] = "running" /\ pc[e] \in {"running", "ready"} /\ HomeOf(e) = HomeOf(c) =>
              ~undisturbed[e]
BY HomesAssumption DEF HomesInv, Alone, HomeOf

LEMMA Advances ==
  ASSUME HomesInv, NEW c \in Calls, pc[c] = "running", UNCHANGED <<agent, shared>>,
         NEW h, NEW next, Done(c, h, next), Step(c, h, next)
  PROVE  HomesInv'
<1> DEFINE T == Tail(todo[c])
           rest == next \o T
           q == request[c]
<1>1. HomesType /\ (\A e \in Calls : CallFits(e)) /\ Alone /\ NothingUnmade
  BY DEF HomesInv
<1>2. /\ h \in HomeSet /\ next \in Splices(todo[c][1]) /\ q \in Requests
      /\ todo[c] # <<>> /\ Planned(todo[c], q)
  BY OpKnown DEF Step
<1>3. h.made
  BY DEF Step
<1>4. /\ Planned(rest, q) /\ rest \in Seq(Operation)
      /\ Entries(rest) = Entries(next) \cup Entries(T)
  BY <1>2, StillPlanned DEF Planned
<1>5. undisturbed[c] => Progress(h, Entries(rest), q) /\ HeadFits(h, rest)
  BY <1>4 DEF Step
<1>6. /\ homes' = [homes EXCEPT ![HomeOf(c)] = h]
      /\ todo' = [todo EXCEPT ![c] = rest]
      /\ pc' = IF rest = <<>> THEN [pc EXCEPT ![c] = "ready"] ELSE pc
      /\ faulted' = faulted /\ request' = request /\ undisturbed' = undisturbed
  BY DEF Done
<1> HIDE DEF rest, T
<1>7. HomeOf(c) \in Calls \cup {Persistent} /\ HomeOf(c)' = HomeOf(c)
  BY <1>1, <1>6, HomeOfType DEF HomeOf
<1>8. /\ homes'[HomeOf(c)] = h /\ todo'[c] = rest /\ undisturbed'[c] = undisturbed[c]
      /\ pc'[c] = IF rest = <<>> THEN "ready" ELSE "running"
      /\ request'[c] = q
      /\ \A k \in Calls \cup {Persistent} : k # HomeOf(c) => homes'[k] = homes[k]
      /\ \A e \in Calls : e # c => todo'[e] = todo[e] /\ pc'[e] = pc[e]
  BY <1>1, <1>6, <1>7 DEF HomesType
<1>9. HomesType'
  <2>1. agent' \in Agents /\ shared' \in BOOLEAN
    BY <1>1 DEF HomesType
  <2>2. homes' \in [Calls \cup {Persistent} -> HomeSet]
    BY <1>1, <1>2, <1>6, <1>7 DEF HomesType
  <2>3. pc' \in [Calls -> {"idle", "running", "ready", "failed", "crashed"}]
    BY <1>1, <1>6 DEF HomesType
  <2>4. request' \in [Calls -> Requests \cup {NoRequest}] /\ todo' \in [Calls -> Seq(Operation)]
    BY <1>1, <1>4, <1>6 DEF HomesType
  <2>5. undisturbed' \in [Calls -> BOOLEAN] /\ faulted' \in [Calls -> BOOLEAN]
    BY <1>1, <1>6 DEF HomesType
  <2> QED
    BY <2>1, <2>2, <2>3, <2>4, <2>5 DEF HomesType
<1>10. CallFits(c)'
  <2>1. Home(c)' = h
    BY <1>7, <1>8 DEF Home
  <2>2. Planned(todo[c], request[c])'
    <3>1. Planned(todo[c], request[c])' <=> Planned(todo'[c], request'[c])
      BY AgentFixed
    <3> QED
      BY <1>4, <1>8, <3>1
  <2>3. undisturbed'[c] => Progress(Home(c), Entries(todo[c]), request[c])'
    <3>1. Progress(Home(c), Entries(todo[c]), request[c])'
            <=> Progress(Home(c)', Entries(todo[c])', request'[c])
      BY AgentFixed
    <3>2. Entries(todo[c])' = Entries(rest)
      BY <1>8 DEF Entries
    <3> QED
      BY <1>5, <1>8, <2>1, <3>1, <3>2
  <2>4. undisturbed'[c] => HeadFits(Home(c), todo[c])'
    <3>1. HeadFits(Home(c), todo[c])' <=> HeadFits(Home(c)', todo'[c])
      BY DEF HeadFits
    <3> QED
      BY <1>5, <1>8, <2>1, <3>1
  <2>5. Home(c)'.made
    BY <1>3, <2>1
  <2>6. request'[c] \in Requests /\ pc'[c] \in {"running", "ready"}
    BY <1>2, <1>8
  <2>7. /\ pc'[c] = "running" => todo'[c] # <<>>
        /\ pc'[c] = "ready" => todo'[c] = <<>>
    BY <1>8
  <2> QED
    BY <2>2, <2>3, <2>4, <2>5, <2>6, <2>7 DEF CallFits
<1>11. ASSUME NEW e \in Calls, e # c PROVE CallFits(e)'
  <2>1. /\ pc'[e] = pc[e] /\ request'[e] = request[e] /\ todo'[e] = todo[e]
        /\ faulted'[e] = faulted[e] /\ undisturbed'[e] = undisturbed[e]
    BY <1>6, <1>8, <1>11
  <2>2. HomeOf(e) \in Calls \cup {Persistent}
    BY <1>1, HomeOfType
  <2>3. homes'[HomeOf(e)].made \/ homes'[HomeOf(e)] = homes[HomeOf(e)]
    BY <1>3, <1>8, <2>2
  <2>4. pc[e] \in {"running", "ready"} /\ undisturbed'[e] => homes'[HomeOf(e)] = homes[HomeOf(e)]
    BY <1>8, <1>11, <2>1, <2>2, OthersHome
  <2> QED
    BY <1>1, <2>1, <2>3, <2>4, CallStays
<1>12. Alone'
  BY <1>1, <1>6, <1>8, AloneStays
<1>13. NothingUnmade'
  <2> SUFFICES ASSUME NEW k \in Calls \cup {Persistent}, ~homes'[k].made
               PROVE  homes'[k].links["credentials"] = "none"
    BY DEF NothingUnmade
  <2>1. k # HomeOf(c)
    BY <1>3, <1>8
  <2> QED
    BY <1>1, <1>8, <2>1 DEF NothingUnmade
<1> QED
  BY <1>9, <1>10, <1>11, <1>12, <1>13 DEF HomesInv

LEMMA FreshIsProgress ==
  ASSUME NEW q, NEW ops, NEW h, Fresh(ops, q)
  PROVE  Progress(h, ops, q)
BY DEF Fresh, Progress, DirsSet, Dir, FilesSet, LinkSet

\* The home is made first.
LEMMA HomeIsFirst ==
  ASSUME NEW q, NEW R, Planned(R, q), HasHome(Entries(R))
  PROVE  R # <<>> /\ R[1].op = "home"
<1>1. R \in Seq(Operation) /\ Ordered(R)
  BY DEF Planned
<1>2. PICK i \in 1..Len(R) : R[i].op = "home"
  BY <1>1, EntriesIn DEF HasHome
<1>3. Len(R) \in Nat /\ R # <<>> /\ 1 \in 1..Len(R)
  BY <1>1, <1>2, LenProperties, EmptySeq
<1>4. i = 1
  <2>1. 1 < i => Fits(R[1], R[i])
    BY <1>1, <1>3 DEF Ordered
  <2> QED
    BY <1>2, <1>3, <2>1 DEF Fits
<1> QED
  BY <1>2, <1>3, <1>4

LEMMA Starts ==
  ASSUME HomesInv, NEW c \in Calls, NEW q \in Requests, Start(c, q)
  PROVE  HomesInv'
<1> DEFINE h == IF q.persistent THEN Persistent ELSE c
           C == Others(c, h)
<1>1. HomesType /\ (\A e \in Calls : CallFits(e)) /\ Alone /\ NothingUnmade
  BY DEF HomesInv
<1>2. /\ pc' = [pc EXCEPT ![c] = "running"]
      /\ request' = [request EXCEPT ![c] = q]
      /\ todo' = [todo EXCEPT ![c] = Plan(q)]
      /\ faulted' = [faulted EXCEPT ![c] = FALSE]
      /\ UNCHANGED <<agent, shared, homes>>
  BY DEF Start
<1>3. undisturbed' = [Disturb(C) EXCEPT ![c] = \A d \in C : pc[d] = "ready"]
  BY DEF Start
<1>4. Planned(Plan(q), q) /\ HasHome(Entries(Plan(q))) /\ Plan(q) \in Seq(Operation)
  BY <1>1, PlanIsPlanned DEF HomesType, Planned
<1>5. Plan(q) # <<>> /\ Plan(q)[1].op = "home"
  BY <1>4, HomeIsFirst
<1>6. /\ pc'[c] = "running" /\ request'[c] = q /\ todo'[c] = Plan(q)
      /\ \A e \in Calls : e # c => /\ pc'[e] = pc[e] /\ request'[e] = request[e]
                                   /\ todo'[e] = todo[e] /\ faulted'[e] = faulted[e]
  BY <1>1, <1>2 DEF HomesType
<1>7. undisturbed' \in [Calls -> BOOLEAN]
  BY <1>3 DEF Disturb
<1>8. undisturbed'[c] => \A d \in C : pc[d] = "ready"
  BY <1>3 DEF Disturb
<1>9. \A e \in Calls : e # c /\ undisturbed'[e] => undisturbed[e] /\ e \notin C
  BY <1>3 DEF Disturb
<1> HIDE DEF C
<1>10. HomesType'
  BY <1>1, <1>2, <1>4, <1>7 DEF HomesType
<1>11. CallFits(c)'
  <2>1. Planned(todo[c], request[c])'
    <3>1. Planned(todo[c], request[c])' <=> Planned(todo'[c], request'[c])
      BY <1>2, AgentFixed
    <3> QED
      BY <1>4, <1>6, <3>1
  <2>2. Progress(Home(c), Entries(todo[c]), request[c])'
    <3>1. Progress(Home(c), Entries(todo[c]), request[c])'
            <=> Progress(Home(c)', Entries(todo[c])', request'[c])
      BY <1>2, AgentFixed
    <3>2. Entries(todo[c])' = Entries(Plan(q))
      BY <1>6 DEF Entries
    <3>3. Progress(Home(c)', Entries(Plan(q)), q)
      BY <1>4, FreshIsProgress DEF Planned
    <3> QED
      BY <1>6, <3>1, <3>2, <3>3
  <2>3. HeadFits(Home(c), todo[c])'
    BY <1>5, <1>6 DEF HeadFits
  <2> QED
    BY <1>5, <1>6, <2>1, <2>2, <2>3 DEF CallFits
<1>12. ASSUME NEW e \in Calls, e # c PROVE CallFits(e)'
  <2>1. undisturbed'[e] => undisturbed[e]
    BY <1>9, <1>12
  <2>2. homes'[HomeOf(e)] = homes[HomeOf(e)]
    BY <1>2
  <2> QED
    BY <1>1, <1>2, <1>6, <1>12, <2>1, <2>2, CallStays
<1>13. Alone'
  <2> SUFFICES ASSUME NEW d \in Calls, NEW e \in Calls, d # e, pc'[d] = "running",
                      pc'[e] \in {"running", "ready"}, HomeOf(d)' = HomeOf(e)', undisturbed'[e]
               PROVE  FALSE
    BY DEF Alone
  <2>1. HomeOf(c)' = h /\ \A k \in Calls : k # c => HomeOf(k)' = HomeOf(k)
    BY <1>6 DEF HomeOf
  <2>2. \A k \in Calls : k # c /\ pc[k] \in {"running", "ready"} /\ HomeOf(k) = h => k \in C
    BY DEF C, Others
  <2>3. CASE d = c
    BY <1>6, <1>9, <2>1, <2>2, <2>3
  <2>4. CASE e = c
    <3>1. d \in C /\ pc[d] = "running"
      BY <1>6, <2>1, <2>2, <2>4
    <3> QED
      BY <1>8, <2>4, <3>1
  <2>5. CASE d # c /\ e # c
    <3>1. /\ pc[d] = "running" /\ pc[e] \in {"running", "ready"} /\ HomeOf(d) = HomeOf(e)
      BY <1>6, <2>1, <2>5
    <3>2. undisturbed[e]
      BY <1>9, <2>5
    <3> QED
      BY <1>1, <3>1, <3>2 DEF Alone
  <2> QED
    BY <2>3, <2>4, <2>5
<1>14. NothingUnmade'
  BY <1>1, <1>2 DEF NothingUnmade
<1> QED
  BY <1>10, <1>11, <1>12, <1>13, <1>14 DEF HomesInv

\* A call is over or has failed: a temporary home is gone.
LEMMA Leaves ==
  ASSUME HomesInv, NEW c \in Calls, UNCHANGED <<agent, shared>>,
         homes' = homes \/ homes' = [homes EXCEPT ![c] = NoHome],
         HomesType', CallFits(c)', pc'[c] \notin {"running", "ready"},
         \A e \in Calls : e # c => /\ pc'[e] = pc[e] /\ request'[e] = request[e]
                                   /\ todo'[e] = todo[e] /\ faulted'[e] = faulted[e]
                                   /\ undisturbed'[e] = undisturbed[e]
  PROVE  HomesInv'
<1>1. HomesType /\ (\A e \in Calls : CallFits(e)) /\ Alone /\ NothingUnmade
  BY DEF HomesInv
<1>2. \A k \in Calls \cup {Persistent} : homes'[k] = homes[k] \/ (k = c /\ homes'[k] = NoHome)
  BY <1>1 DEF HomesType
<1>3. ASSUME NEW e \in Calls, e # c PROVE CallFits(e)'
  <2>1. HomeOf(e) \in Calls \cup {Persistent} /\ HomeOf(e) # c
    BY <1>1, <1>3, HomeOfType, OthersHome
  <2>2. homes'[HomeOf(e)] = homes[HomeOf(e)]
    BY <1>2, <2>1
  <2>3. undisturbed'[e] => undisturbed[e]
    BY <1>3
  <2> QED
    BY <1>1, <1>3, <2>2, <2>3, CallStays
<1>4. Alone'
  <2> SUFFICES ASSUME NEW d \in Calls, NEW e \in Calls, d # e, pc'[d] = "running",
                      pc'[e] \in {"running", "ready"}, HomeOf(d)' = HomeOf(e)', undisturbed'[e]
               PROVE  FALSE
    BY DEF Alone
  <2>1. d # c /\ e # c
    OBVIOUS
  <2>2. HomeOf(d)' = HomeOf(d) /\ HomeOf(e)' = HomeOf(e) /\ undisturbed[e]
    BY <2>1 DEF HomeOf
  <2>3. pc[d] = "running" /\ pc[e] \in {"running", "ready"}
    BY <2>1
  <2>4. HomeOf(d) = HomeOf(e)
    BY <2>2
  <2> QED
    BY <1>1, <2>2, <2>3, <2>4 DEF Alone
<1>5. NothingUnmade'
  <2> SUFFICES ASSUME NEW k \in Calls \cup {Persistent}, ~homes'[k].made
               PROVE  homes'[k].links["credentials"] = "none"
    BY DEF NothingUnmade
  <2>1. CASE homes'[k] = homes[k]
    BY <1>1, <2>1 DEF NothingUnmade
  <2>2. CASE homes'[k] = NoHome
    BY <2>2, NewHome DEF Links
  <2> QED
    BY <1>2, <2>1, <2>2
<1> QED
  BY <1>1, <1>3, <1>4, <1>5 DEF HomesInv

LEMMA Rejects ==
  ASSUME HomesInv, NEW c \in Calls, pc[c] = "running", Reject(c), UNCHANGED <<agent, shared>>,
         \/ faulted' = [faulted EXCEPT ![c] = TRUE]
         \/ faulted' = faulted /\ ~undisturbed[c]
  PROVE  HomesInv'
<1>1. HomesType /\ CallFits(c)
  BY DEF HomesInv
<1>2. /\ pc' = [pc EXCEPT ![c] = "failed"] /\ todo' = [todo EXCEPT ![c] = <<>>]
      /\ homes' = homes \/ homes' = [homes EXCEPT ![c] = NoHome]
      /\ request' = request /\ undisturbed' = undisturbed
  BY DEF Reject
<1>3. /\ pc'[c] = "failed" /\ request'[c] \in Requests
      /\ \A e \in Calls : e # c => pc'[e] = pc[e] /\ todo'[e] = todo[e] /\ faulted'[e] = faulted[e]
  BY <1>1, <1>2 DEF HomesType, CallFits
<1>4. undisturbed'[c] => faulted'[c]
  BY <1>1, <1>2 DEF HomesType
<1>5. HomesType'
  <2>1. /\ pc' \in [Calls -> {"idle", "running", "ready", "failed", "crashed"}]
        /\ todo' \in [Calls -> Seq(Operation)]
    BY <1>1, <1>2 DEF HomesType
  <2>2. homes' \in [Calls \cup {Persistent} -> HomeSet]
    BY <1>1, <1>2, NewHome DEF HomesType
  <2>3. faulted' \in [Calls -> BOOLEAN]
    BY <1>1 DEF HomesType
  <2> QED
    BY <1>1, <1>2, <2>1, <2>2, <2>3 DEF HomesType
<1>6. CallFits(c)'
  BY <1>3, <1>4 DEF CallFits
<1> QED
  BY <1>2, <1>3, <1>5, <1>6, Leaves

LEMMA Ends ==
  ASSUME HomesInv, NEW c \in Calls, NEW state \in {"idle", "crashed"}, Over(c, state),
         UNCHANGED <<agent, shared>>,
         homes' = homes \/ homes' = [homes EXCEPT ![c] = NoHome]
  PROVE  HomesInv'
<1>1. HomesType
  BY DEF HomesInv
<1>2. /\ pc' = [pc EXCEPT ![c] = state] /\ todo' = [todo EXCEPT ![c] = <<>>]
      /\ request' = [request EXCEPT ![c] = NoRequest]
      /\ undisturbed' = [undisturbed EXCEPT ![c] = FALSE]
      /\ faulted' = [faulted EXCEPT ![c] = FALSE]
  BY DEF Over
<1>3. /\ pc'[c] \in {"idle", "crashed"}
      /\ \A e \in Calls : e # c => /\ pc'[e] = pc[e] /\ request'[e] = request[e]
                                   /\ todo'[e] = todo[e] /\ faulted'[e] = faulted[e]
                                   /\ undisturbed'[e] = undisturbed[e]
  BY <1>1, <1>2 DEF HomesType
<1>4. HomesType'
  <2>1. homes' \in [Calls \cup {Persistent} -> HomeSet]
    BY <1>1, NewHome DEF HomesType
  <2>2. <<>> \in Seq(Operation)
    BY EmptySeq
  <2>3. todo' \in [Calls -> Seq(Operation)]
    BY <1>1, <1>2, <2>2 DEF HomesType
  <2>4. undisturbed' \in [Calls -> BOOLEAN] /\ faulted' \in [Calls -> BOOLEAN]
    BY <1>1, <1>2 DEF HomesType
  <2>5. /\ pc' \in [Calls -> {"idle", "running", "ready", "failed", "crashed"}]
        /\ request' \in [Calls -> Requests \cup {NoRequest}]
    BY <1>1, <1>2 DEF HomesType
  <2>6. agent' \in Agents /\ shared' \in BOOLEAN
    BY <1>1 DEF HomesType
  <2> QED
    BY <2>1, <2>3, <2>4, <2>5, <2>6 DEF HomesType
<1>5. CallFits(c)'
  BY <1>3 DEF CallFits
<1> QED
  BY <1>3, <1>4, <1>5, Leaves

\* Without credentials all that was to be done has been done.
LEMMA AgyMayStop ==
  ASSUME NEW q, NEW R, Planned(R, q), R # <<>>, R[1].op = "source", agent = "agy",
         NEW g, Progress(g, Entries(R), q)
  PROVE  Progress(g, Entries(<<>>), q)
<1>1. R \in Seq(Operation) /\ SourceLast(R)
  BY DEF Planned
<1>2. Len(R) = 2 /\ R[2].op = "lstat" /\ R[2].what = "credentials"
  <2>1. 1 \in 1..Len(R)
    BY <1>1, LenProperties, EmptySeq
  <2>2. 1 + 1 = Len(R) /\ R[1 + 1].op = "lstat" /\ R[1 + 1].what = "credentials"
    BY <1>1, <2>1 DEF SourceLast
  <2>3. 1 + 1 = 2
    OBVIOUS
  <2> QED
    BY <2>2, <2>3
<1>3. ASSUME NEW a \in Entries(R) PROVE a.op = "source" \/ (a.op = "lstat" /\ a.what = "credentials")
  <2>1. PICK i \in 1..Len(R) : a = R[i]
    BY <1>1, EntriesIn
  <2>2. i = 1 \/ i = 2
    BY <1>2, <2>1
  <2> QED
    BY <1>2, <2>1, <2>2
<1> DEFINE A == Entries(R)
<1>4. Linked = "skills" /\ A \cup {} = A /\ {} \cup {} = {} /\ Entries(<<>>) = {}
  BY DEF Linked, Entries
<1>5. \A a \in A \cup {} : a.op \notin DirOps /\ a.op \notin FileOps
  BY <1>3 DEF DirOps, FileOps
<1>6. \A a \in A : a.op \notin {"lstat", "readlink", "symlink"} \/ a.what # Linked
  BY <1>3, <1>4
<1> HIDE DEF A
<1>7. Progress(g, A, q)
  BY DEF A
<1>8. ASSUME NEW B, B = {} PROVE Progress(g, B, q)
  <2>1. A \cup B = A /\ B \cup B = B /\ \A a \in A \cup B : a.op \notin DirOps /\ a.op \notin FileOps
    BY <1>5, <1>8
  <2>2. DirsSet(g, A \cup B, q) /\ FilesSet(g, A \cup B, q) /\ LinkSet(g, A \cup B)
    BY <1>7, <2>1 DEF Progress
  <2>3. DirsSet(g, B \cup B, q)
    BY <2>1, <2>2, DirsStay
  <2>4. FilesSet(g, B \cup B, q)
    BY <2>1, <2>2, FilesStay
  <2>5. LinkSet(g, B \cup B)
    BY <1>6, <2>2, LinkStays
  <2> QED
    BY <2>1, <2>3, <2>4, <2>5 DEF Progress
<1> QED
  BY <1>4, <1>8

LEMMA GoesWithout ==
  ASSUME HomesInv, NEW c \in Calls, SourceOptional(c)
  PROVE  HomesInv'
<1>1. HomesType /\ (\A e \in Calls : CallFits(e)) /\ Alone /\ NothingUnmade
  BY DEF HomesInv
<1>2. /\ pc' = [pc EXCEPT ![c] = "ready"] /\ todo' = [todo EXCEPT ![c] = <<>>]
      /\ UNCHANGED <<agent, shared, homes, request, undisturbed, faulted>>
      /\ pc[c] = "running" /\ agent = "agy" /\ Head(todo[c]).op = "source"
  BY DEF SourceOptional
<1>3. todo[c] # <<>> /\ Planned(todo[c], request[c]) /\ todo[c][1].op = "source"
        /\ request[c] \in Requests
  BY <1>2, OpKnown
<1>4. Home(c).made
  BY <1>2, <1>3, OpKnown
<1>5. undisturbed[c] => Progress(Home(c), Entries(<<>>), request[c])
  <2>1. undisturbed[c] => Progress(Home(c), Entries(todo[c]), request[c])
    BY <1>1, <1>2 DEF CallFits
  <2> QED
    BY <1>2, <1>3, <2>1, AgyMayStop
<1>6. /\ pc'[c] = "ready" /\ todo'[c] = <<>> /\ undisturbed'[c] = undisturbed[c]
      /\ \A e \in Calls : e # c => pc'[e] = pc[e] /\ todo'[e] = todo[e]
  BY <1>1, <1>2 DEF HomesType
<1>7. HomesType'
  <2>1. <<>> \in Seq(Operation)
    BY EmptySeq
  <2> QED
    BY <1>1, <1>2, <2>1 DEF HomesType
<1>8. Home(c)' = Home(c)
  BY <1>2 DEF Home, HomeOf
<1>9. CallFits(c)'
  <2>1. undisturbed'[c] => Progress(Home(c), Entries(todo[c]), request[c])'
    <3>1. Progress(Home(c), Entries(todo[c]), request[c])'
            <=> Progress(Home(c)', Entries(todo[c])', request'[c])
      BY <1>2, AgentFixed
    <3>2. Entries(todo[c])' = Entries(<<>>)
      BY <1>6 DEF Entries
    <3> QED
      BY <1>2, <1>5, <1>6, <1>8, <3>1, <3>2
  <2>2. Home(c)'.made
    BY <1>4, <1>8
  <2>3. request'[c] \in Requests
    BY <1>2, <1>3
  <2> QED
    BY <1>6, <2>1, <2>2, <2>3 DEF CallFits
<1>10. ASSUME NEW e \in Calls, e # c PROVE CallFits(e)'
  <2>1. /\ pc'[e] = pc[e] /\ request'[e] = request[e] /\ todo'[e] = todo[e] /\ faulted'[e] = faulted[e]
        /\ undisturbed'[e] = undisturbed[e] /\ homes'[HomeOf(e)] = homes[HomeOf(e)]
    BY <1>2, <1>6, <1>10
  <2> QED
    BY <1>1, <1>2, <2>1, CallStays
<1>11. Alone'
  BY <1>1, <1>2, <1>6, AloneStays
<1>12. NothingUnmade'
  BY <1>1, <1>2 DEF NothingUnmade
<1> QED
  BY <1>7, <1>9, <1>10, <1>11, <1>12 DEF HomesInv

LEMMA Replaced ==
  ASSUME HomesInv, NEW h \in Calls \cup {Persistent}, NEW state \in {"file", "other"},
         Replace(h, state)
  PROVE  HomesInv'
<1> DEFINE C == {c \in Calls : HomeOf(c) = h}
           new == WithLink(homes[h], "credentials", state)
<1>1. HomesType /\ (\A e \in Calls : CallFits(e)) /\ Alone /\ NothingUnmade
  BY DEF HomesInv
<1>2. homes' = [homes EXCEPT ![h].links["credentials"] = state]
  BY DEF Replace
<1>3. homes' = [homes EXCEPT ![h] = new]
  BY <1>2 DEF WithLink
<1>4. undisturbed' = Disturb(C) /\ UNCHANGED <<agent, shared, pc, request, todo, faulted>>
  BY DEF Replace
<1>5. homes[h].made
  BY DEF Replace
<1>6. new \in HomeSet /\ (homes[h].made => new.made)
  <2>1. homes[h] \in HomeSet /\ "credentials" \in Links
    BY <1>1 DEF HomesType, Links
  <2>2. state \in {"none", "file", "other", "right"}
    OBVIOUS
  <2> QED
    BY <2>1, <2>2, SetLink
<1>7. new.made
  BY <1>5, <1>6
<1> HIDE DEF new
<1>8. homes'[h] = new /\ \A k \in Calls \cup {Persistent} : k # h => homes'[k] = homes[k]
  BY <1>1, <1>3 DEF HomesType
<1>9. \A e \in Calls : undisturbed'[e] => undisturbed[e] /\ HomeOf(e) # h
  BY <1>4 DEF Disturb
<1>10. HomesType'
  <2>1. homes' \in [Calls \cup {Persistent} -> HomeSet]
    BY <1>1, <1>3, <1>6 DEF HomesType
  <2>2. undisturbed' \in [Calls -> BOOLEAN]
    BY <1>4 DEF Disturb
  <2> QED
    BY <1>1, <1>4, <2>1, <2>2 DEF HomesType
<1>11. ASSUME NEW e \in Calls PROVE CallFits(e)'
  <2>1. HomeOf(e) \in Calls \cup {Persistent}
    BY <1>1, HomeOfType
  <2>2. homes[HomeOf(e)].made => homes'[HomeOf(e)].made
    BY <1>7, <1>8, <2>1
  <2>3. undisturbed'[e] => undisturbed[e] /\ homes'[HomeOf(e)] = homes[HomeOf(e)]
    BY <1>8, <1>9, <2>1
  <2> QED
    BY <1>1, <1>4, <2>2, <2>3, CallStays
<1>12. Alone'
  BY <1>1, <1>4, <1>9, AloneStays
<1>13. NothingUnmade'
  <2> SUFFICES ASSUME NEW k \in Calls \cup {Persistent}, ~homes'[k].made
               PROVE  homes'[k].links["credentials"] = "none"
    BY DEF NothingUnmade
  <2>1. k # h
    BY <1>7, <1>8
  <2> QED
    BY <1>1, <1>8, <2>1 DEF NothingUnmade
<1> QED
  BY <1>10, <1>11, <1>12, <1>13 DEF HomesInv

LEMMA HomesInit ==
  ASSUME Init
  PROVE  HomesInv
<1>1. HomesType
  <2>1. homes \in [Calls \cup {Persistent} -> HomeSet]
    BY NewHome DEF Init
  <2>2. todo \in [Calls -> Seq(Operation)]
    BY EmptySeq DEF Init
  <2> QED
    BY <2>1, <2>2 DEF Init, HomesType
<1>2. \A c \in Calls : CallFits(c)
  BY DEF Init, CallFits
<1>3. Alone
  BY DEF Init, Alone
<1>4. NothingUnmade
  BY NewHome DEF Init, NothingUnmade, Links
<1> QED
  BY <1>1, <1>2, <1>3, <1>4 DEF HomesInv

LEMMA HomesSame ==
  ASSUME HomesInv, UNCHANGED <<agent, homes, pc, request, todo, undisturbed, faulted>>,
         shared' \in BOOLEAN
  PROVE  HomesInv'
<1>1. HomesType /\ (\A e \in Calls : CallFits(e)) /\ Alone /\ NothingUnmade
  BY DEF HomesInv
<1>2. HomesType'
  BY <1>1 DEF HomesType
<1>3. ASSUME NEW e \in Calls PROVE CallFits(e)'
  BY <1>1, CallStays
<1>4. Alone'
  BY <1>1, AloneStays
<1>5. NothingUnmade'
  BY <1>1 DEF NothingUnmade
<1> QED
  BY <1>2, <1>3, <1>4, <1>5 DEF HomesInv

LEMMA LateWritten ==
  ASSUME HomesInv, NEW item \in Items, LateWrite(item)
  PROVE  /\ HomesInv'
         /\ homes'[Persistent].links = homes[Persistent].links
<1> DEFINE old == homes[Persistent]
           new == [old EXCEPT !.dirs["roles"] = @ \cup {item}]
           C == {c \in Calls : HomeOf(c) = Persistent}
<1>1. HomesType /\ (\A e \in Calls : CallFits(e)) /\ Alone /\ NothingUnmade
  BY DEF HomesInv
<1>2. CASE UNCHANGED <<homes, undisturbed>>
  <2>1. UNCHANGED <<agent, homes, pc, request, todo, undisturbed, faulted>> /\ shared' = shared
    BY <1>2 DEF LateWrite
  <2>2. shared' \in BOOLEAN
    BY <1>1, <2>1 DEF HomesType
  <2> QED
    BY <2>1, <2>2, HomesSame
<1>3. CASE ~UNCHANGED <<homes, undisturbed>>
  <2>1. /\ old.dirs["roles"] # None
        /\ homes' = [homes EXCEPT ![Persistent] = new]
        /\ undisturbed' = Disturb(C) /\ UNCHANGED <<agent, shared, pc, request, todo, faulted>>
    BY <1>3 DEF LateWrite
  <2>2. old \in HomeSet
    BY <1>1 DEF HomesType
  <2>3. new \in HomeSet /\ new.made = old.made /\ new.links = old.links
    <3>1. old.dirs["roles"] \in SUBSET Items
      BY <2>1, <2>2 DEF HomeSet, Dirs
    <3>2. old.dirs["roles"] \cup {item} \in SUBSET Items
      BY <3>1
    <3> QED
      BY <2>2, <3>2 DEF HomeSet, Dirs
  <2> HIDE DEF new
  <2>4. homes'[Persistent] = new /\ \A k \in Calls \cup {Persistent} : k # Persistent => homes'[k] = homes[k]
    BY <1>1, <2>1 DEF HomesType
  <2>5. \A e \in Calls : undisturbed'[e] => undisturbed[e] /\ HomeOf(e) # Persistent
    BY <2>1 DEF Disturb
  <2>6. HomesType'
    <3>1. homes' \in [Calls \cup {Persistent} -> HomeSet]
      BY <1>1, <2>1, <2>3 DEF HomesType
    <3>2. undisturbed' \in [Calls -> BOOLEAN]
      BY <2>1 DEF Disturb
    <3> QED
      BY <1>1, <2>1, <3>1, <3>2 DEF HomesType
  <2>7. ASSUME NEW e \in Calls PROVE CallFits(e)'
    <3>1. HomeOf(e) \in Calls \cup {Persistent}
      BY <1>1, HomeOfType
    <3>2. homes[HomeOf(e)].made => homes'[HomeOf(e)].made
      BY <2>3, <2>4, <3>1
    <3>3. undisturbed'[e] => undisturbed[e] /\ homes'[HomeOf(e)] = homes[HomeOf(e)]
      BY <2>4, <2>5, <3>1
    <3> QED
      BY <1>1, <2>1, <3>2, <3>3, CallStays
  <2>8. Alone'
    BY <1>1, <2>1, <2>5, AloneStays
  <2>9. NothingUnmade'
    BY <1>1, <2>3, <2>4 DEF NothingUnmade
  <2> QED
    BY <2>3, <2>4, <2>6, <2>7, <2>8, <2>9 DEF HomesInv
<1> QED
  BY <1>2, <1>3

LEMMA HomesStep ==
  ASSUME HomesInv, [Next]_vars
  PROVE  HomesInv'
<1>1. ASSUME NEW c \in Calls, NEW q \in Requests, Start(c, q) PROVE HomesInv'
  BY <1>1, Starts
<1>2. ASSUME NEW c \in Calls, Perform(c) PROVE HomesInv'
  <2>1. CASE \E h, next : Done(c, h, next) /\ Step(c, h, next)
    <3>1. PICK h, next : Done(c, h, next) /\ Step(c, h, next)
      BY <2>1
    <3> QED
      BY <1>2, <3>1, PerformStep, Advances
  <2>2. CASE Reasonless(c)
    BY <1>2, <2>2, PerformStep, Rejects DEF Reasonless
  <2> QED
    BY <1>2, <2>1, <2>2, PerformStep
<1>3. ASSUME NEW c \in Calls, SourceMissing(c) PROVE HomesInv'
  BY <1>3, Rejects DEF SourceMissing, RejectFaulted
<1>4. ASSUME NEW c \in Calls, SourceOptional(c) PROVE HomesInv'
  BY <1>4, GoesWithout
<1>5. ASSUME NEW c \in Calls, OperationFails(c) PROVE HomesInv'
  BY <1>5, Rejects DEF OperationFails, RejectFaulted
<1>6. ASSUME NEW c \in Calls, Crash(c) PROVE HomesInv'
  <2>1. \E state \in {"idle", "crashed"} : Over(c, state)
    BY <1>6 DEF Crash
  <2>2. UNCHANGED <<agent, shared>> /\ homes' = homes
    BY <1>6 DEF Crash
  <2> QED
    BY <2>1, <2>2, Ends
<1>7. ASSUME NEW c \in Calls, Cleanup(c) PROVE HomesInv'
  BY <1>7, Ends DEF Cleanup
<1>8. ASSUME NEW h \in Calls \cup {Persistent}, NEW state \in {"file", "other"}, Replace(h, state)
      PROVE  HomesInv'
  BY <1>8, Replaced
<1>9. CASE SharedChanges
  <2>1. shared' \in BOOLEAN
    BY <1>9 DEF SharedChanges
  <2> QED
    BY <1>9, <2>1, HomesSame DEF SharedChanges
<1>10. CASE UNCHANGED vars
  <2>1. shared' \in BOOLEAN
    BY <1>10 DEF vars, HomesInv, HomesType
  <2> QED
    BY <1>10, <2>1, HomesSame DEF vars
<1>11. ASSUME NEW item \in Items, LateWrite(item) PROVE HomesInv'
  BY <1>11, LateWritten
<1> QED
  BY <1>1, <1>2, <1>3, <1>4, <1>5, <1>6, <1>7, <1>8, <1>9, <1>10, <1>11 DEF Next

\* The invariant the other theorems about homes rest on.
THEOREM HomesAreRight == Spec => []HomesInv
<1>1. Init => HomesInv
  BY HomesInit
<1>2. HomesInv /\ [Next]_vars => HomesInv'
  BY HomesStep
<1> QED
  BY <1>1, <1>2, PTL DEF Spec

\* A call that is done, in whatever order and after whatever others, hands over
\* a home with what it asked for, for any number of calls and any requests.
THEOREM HandedOver == Spec => []AsAsked
<1>1. HomesInv => AsAsked
  <2> SUFFICES ASSUME HomesInv, NEW c \in Calls, pc[c] = "ready", undisturbed[c]
               PROVE  LET q == request[c] home == Home(c) IN
                      /\ home.made
                      /\ home.dirs["skills"] = Entries(q.dirs["skills"])
                      /\ agent = "claude" => home.dirs["agents"] = Entries(q.dirs["agents"])
                      /\ agent = "codex" /\ q.dirs["roles"] # <<>> =>
                           home.dirs["roles"] = Entries(q.dirs["roles"])
                      /\ agent = "codex" => home.files["config"] = q.id
                      /\ agent # "codex" => \A f \in q.given : home.files[f] = q.id
                      /\ agent = "claude" => /\ "prompt" \notin q.given => home.files["prompt"] = None
                                             /\ home.files["settings"] = q.id
                      /\ agent # "agy" => home.links["credentials"] = "right"
                      /\ agent = "agy" => home.links["skills"] = "right"
    BY DEF AsAsked
  <2> DEFINE q == request[c]  home == Home(c)
  <2>1. CallFits(c)
    BY DEF HomesInv
  <2>2. home.made
    BY <2>1 DEF CallFits
  <2>3. Progress(home, Entries(<<>>), q)
    BY <2>1 DEF CallFits
  <2> HIDE DEF q, home
  <2>4. \A op, x : ~Has(Entries(<<>>), op, x)
    BY DEF Has, Entries
  <2>5. \A d : Copied(Entries(<<>>), d) = {}
    BY DEF Copied, Entries
  <2>6. \A d \in Synced(q) : home.dirs[d] = Entries(q.dirs[d])
    BY <2>3, <2>4, <2>5 DEF Progress, DirsSet, Dir
  <2>7. /\ \A f \in Written(q) : home.files[f] = q.id
        /\ \A f \in Removed(q) : home.files[f] = None
    BY <2>3, <2>4 DEF Progress, FilesSet
  <2>8. home.links[Linked] = "right"
    BY <2>3, <2>4 DEF Progress, LinkSet
  <2>9. /\ home.dirs["skills"] = Entries(q.dirs["skills"])
        /\ agent = "claude" => home.dirs["agents"] = Entries(q.dirs["agents"])
        /\ agent = "codex" /\ q.dirs["roles"] # <<>> => home.dirs["roles"] = Entries(q.dirs["roles"])
    BY <2>6 DEF Synced
  <2>10. /\ agent = "codex" => home.files["config"] = q.id
         /\ agent # "codex" => \A f \in q.given : home.files[f] = q.id
         /\ agent = "claude" => /\ "prompt" \notin q.given => home.files["prompt"] = None
                                /\ home.files["settings"] = q.id
    BY <2>7 DEF Written, Removed
  <2>11. /\ agent # "agy" => home.links["credentials"] = "right"
         /\ agent = "agy" => home.links["skills"] = "right"
    BY <2>8 DEF Linked
  <2> QED
    BY <2>2, <2>9, <2>10, <2>11 DEF q, home
<1> QED
  BY <1>1, HomesAreRight, PTL

\* Nothing an earlier call left behind makes a call fail that is on its own.
THEOREM FailsOnlyForAReason == Spec => []FailsForAReason
<1>1. HomesInv => FailsForAReason
  BY DEF HomesInv, CallFits, FailsForAReason
<1> QED
  BY <1>1, HomesAreRight, PTL

\* While a call is on its own with the persistent home, no step of any actor
\* takes a right link to the credentials away.
THEOREM LinkStaysRight == Spec => LinkKept
<1> DEFINE Kept(c) ==
             /\ pc[c] = "running" /\ undisturbed[c] /\ undisturbed'[c]
             /\ Home(c).links["credentials"] = "right" /\ HomeOf(c) = Persistent
             => homes'[HomeOf(c)].links["credentials"] = "right"
<1>1. ASSUME HomesInv, [Next]_vars, NEW c \in Calls PROVE Kept(c)
  <2> SUFFICES ASSUME pc[c] = "running", undisturbed[c], undisturbed'[c], HomeOf(c) = Persistent,
                      Home(c).links["credentials"] = "right"
               PROVE  homes'[Persistent].links["credentials"] = "right"
    OBVIOUS
  <2>1. /\ HomesType /\ NothingUnmade /\ Alone
        /\ homes[Persistent].links["credentials"] = "right"
    BY <1>1 DEF HomesInv, Home
  <2>2. Home(c).made
    BY <2>1 DEF NothingUnmade, Home
  <2>3. \A e \in Calls : e # c /\ pc[e] = "running" => HomeOf(e) = e /\ e # Persistent
    BY <2>1, HomesAssumption DEF Alone, HomeOf
  <2>4. Persistent \in Calls \cup {Persistent} /\ \A e \in Calls : e # Persistent
    BY HomesAssumption
  <2>5. SUFFICES ASSUME homes'[Persistent] # homes[Persistent]
                 PROVE  homes'[Persistent].links["credentials"] = "right"
    BY <2>1
  <2>6. ASSUME NEW e \in Calls, homes' = homes \/ homes' = [homes EXCEPT ![e] = NoHome]
        PROVE  FALSE
    BY <2>1, <2>4, <2>5, <2>6 DEF HomesType
  <2>7. ASSUME NEW e \in Calls, Perform(e)
        PROVE  homes'[Persistent].links["credentials"] = "right"
    <3>1. CASE \E h, next : Done(e, h, next) /\ Step(e, h, next)
      <4>1. PICK h, next : Done(e, h, next) /\ Step(e, h, next)
        BY <3>1
      <4>2. homes' = [homes EXCEPT ![HomeOf(e)] = h] /\ pc[e] = "running"
        BY <1>1, <2>7, <4>1, PerformStep DEF Done
      <4>3. CASE e # c
        <5>1. HomeOf(e) = e /\ e # Persistent
          BY <2>3, <4>2, <4>3
        <5> QED
          BY <2>1, <2>5, <4>2, <5>1 DEF HomesType
      <4>4. CASE e = c
        <5>1. h.links["credentials"] = "right"
          BY <2>2, <4>1, <4>4 DEF Step
        <5>2. homes'[Persistent] = h
          BY <2>1, <4>2, <4>4 DEF HomesType
        <5> QED
          BY <5>1, <5>2
      <4> QED
        BY <4>3, <4>4
    <3>2. CASE Reasonless(e)
      BY <2>6, <3>2 DEF Reasonless, Reject
    <3> QED
      BY <1>1, <2>7, <3>1, <3>2, PerformStep
  <2>8. ASSUME NEW e \in Calls, NEW q \in Requests, Start(e, q) PROVE FALSE
    BY <2>5, <2>8 DEF Start
  <2>9. ASSUME NEW e \in Calls, SourceMissing(e) \/ OperationFails(e) PROVE FALSE
    BY <2>6, <2>9 DEF SourceMissing, OperationFails, RejectFaulted, Reject
  <2>10. ASSUME NEW e \in Calls, SourceOptional(e) PROVE FALSE
    BY <2>5, <2>10 DEF SourceOptional
  <2>11. ASSUME NEW e \in Calls, Crash(e) PROVE FALSE
    BY <2>5, <2>11 DEF Crash
  <2>12. ASSUME NEW e \in Calls, Cleanup(e) PROVE FALSE
    BY <2>6, <2>12 DEF Cleanup
  <2>13. ASSUME NEW h \in Calls \cup {Persistent}, NEW state \in {"file", "other"}, Replace(h, state)
         PROVE  FALSE
    <3>1. homes' = [homes EXCEPT ![h].links["credentials"] = state]
            /\ undisturbed' = Disturb({d \in Calls : HomeOf(d) = h})
      BY <2>13 DEF Replace
    <3>2. h # Persistent
      BY <3>1 DEF Disturb
    <3> QED
      BY <2>1, <2>5, <3>1, <3>2 DEF HomesType
  <2>14. CASE SharedChanges \/ UNCHANGED vars
    BY <2>5, <2>14 DEF SharedChanges, vars
  <2>15. ASSUME NEW item \in Items, LateWrite(item)
         PROVE  homes'[Persistent].links["credentials"] = "right"
    BY <1>1, <2>1, <2>15, LateWritten
  <2> QED
    BY <1>1, <2>7, <2>8, <2>9, <2>10, <2>11, <2>12, <2>13, <2>14, <2>15 DEF Next
<1>2. HomesInv /\ [Next]_vars => [\A c \in Calls : Kept(c)]_vars
  BY <1>1
<1> QED
  BY <1>2, HomesAreRight, PTL DEF Spec, LinkKept

=============================================================================
