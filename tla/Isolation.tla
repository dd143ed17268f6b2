------------------------------ MODULE Isolation ------------------------------
(***************************************************************************)
(* agents/{claude,codex,gemini,agy}-isolation.ts and isolated-skills.ts:   *)
(* the preparation of the home an agent's CLI runs in.                     *)
(*                                                                         *)
(* A persistent home is prepared again and again, by calls that may ask    *)
(* for different things, overlap, fail half way or die with their process. *)
(* Every await is one operation on the file system, so a call is the list  *)
(* of those it has still to do. Only role files are written side by side,  *)
(* and those that are under way when one of them fails go on.              *)
(***************************************************************************)
EXTENDS Naturals, Sequences

CONSTANTS
  Calls,       \* calls of create...Isolation, in one process or in several
  Persistent,  \* the persistent home
  Requests,    \* what a call may ask for
  None         \* "no such directory, or file"

ASSUME HomesAssumption == Persistent \notin Calls

Dirs   == {"skills", "agents", "roles"}
Files  == {"prompt", "settings", "config"}
Links  == {"credentials", "skills"}

Entries(list) == {list[i] : i \in DOMAIN list}

\* What may be asked to be in a directory.
Items == UNION {Entries(q.dirs[d]) : q \in Requests, d \in Dirs}

\* The entries of a directory are a list of names (normalizeAgentNames).
ASSUME RequestsAssumption ==
  \A q \in Requests :
    /\ q.persistent \in BOOLEAN
    /\ q.given \subseteq {"prompt", "settings"}
    /\ \A d \in Dirs : q.dirs[d] \in Seq(Items)

ASSUME NoneAssumption == \A items \in SUBSET Items : items # None

VARIABLES
  agent,        \* whose homes these are; fixed
  shared,       \* whether the shared credentials exist
  homes,        \* the persistent home, and the temporary one of each call
  pc,           \* where each call is
  request,      \* what it asked for
  todo,         \* the operations it has still to do
  late,         \* roles that calls which failed are still writing; two of one name are one
  undisturbed,  \* history: nothing else touched its home since it started
  faulted       \* history: an operation failed, or the credentials were missing

vars == <<agent, shared, homes, pc, request, todo, late, undisturbed, faulted>>

Agents == {"claude", "codex", "gemini", "agy"}

NoHome == [made  |-> FALSE,
           dirs  |-> [d \in Dirs |-> None],
           files |-> [f \in Files |-> None],
           links |-> [l \in Links |-> "none"]]

NoRequest == [id |-> None, persistent |-> TRUE, dirs |-> [d \in Dirs |-> <<>>], given |-> {}]

HomeOf(c) == IF request[c].persistent THEN Persistent ELSE c

Home(c) == homes[HomeOf(c)]

-----------------------------------------------------------------------------
(* What each agent's preparation consists of. The MCP configuration is     *)
(* written right after the settings, in the same way, and goes with them.  *)

Op(op, what) == [op |-> op, what |-> what, item |-> None]

\* Fault: what was there stays.
SyncOver(d, list) ==
  <<Op("mkdir", d)>> \o [i \in DOMAIN list |-> [op |-> "copy", what |-> d, item |-> list[i]]]

\* A directory that shall hold these entries is made anew.
Sync(d, list) ==
  <<Op("rm", d), Op("mkdir", d)>>
    \o [i \in DOMAIN list |-> [op |-> "copy", what |-> d, item |-> list[i]]]

WriteGiven(f, q) == IF f \in q.given THEN <<Op("write", f)>> ELSE <<>>

\* syncClaudeAgents
SyncAgents(q) == Sync("agents", q.dirs["agents"])

\* Roles that are not given leave those there were.
SyncRoles(q) == IF q.dirs["roles"] = <<>> THEN <<>> ELSE Sync("roles", q.dirs["roles"])

\* The skills are linked into the directory the CLI of agy reads them from.
LinkSkills == <<Op("lstat", "skills")>>

LinkShared == <<Op("source", "credentials"), Op("lstat", "credentials")>>

ClaudePlan(q) ==
  <<Op("home", None)>> \o Sync("skills", q.dirs["skills"]) \o SyncAgents(q)
    \o <<Op(IF "prompt" \in q.given THEN "write" ELSE "remove", "prompt"), Op("write", "settings")>>
    \o LinkShared

CodexPlan(q) ==
  <<Op("home", None)>> \o LinkShared \o SyncRoles(q) \o Sync("skills", q.dirs["skills"])
    \o <<Op("write", "config")>>

GeminiPlan(q) ==
  <<Op("home", None)>> \o Sync("skills", q.dirs["skills"])
    \o WriteGiven("prompt", q) \o WriteGiven("settings", q) \o LinkShared

AgyPlan(q) ==
  <<Op("home", None)>> \o Sync("skills", q.dirs["skills"]) \o LinkSkills
    \o WriteGiven("prompt", q) \o WriteGiven("settings", q) \o LinkShared

Plan(q) ==
  CASE agent = "claude" -> ClaudePlan(q)
    [] agent = "codex"  -> CodexPlan(q)
    [] agent = "gemini" -> GeminiPlan(q)
    [] agent = "agy"    -> AgyPlan(q)

-----------------------------------------------------------------------------
(* A call and its operations.                                              *)

\* The other calls that prepare, or were handed, the home h.
Others(c, h) == {d \in Calls \ {c} : pc[d] \in {"running", "ready"} /\ HomeOf(d) = h}

Disturb(C) == [d \in Calls |-> undisturbed[d] /\ d \notin C]

Start(c, q) ==
  LET h == IF q.persistent THEN Persistent ELSE c IN
  /\ pc[c] = "idle"
  /\ q.persistent \/ agent = "claude"
  /\ pc' = [pc EXCEPT ![c] = "running"]
  /\ request' = [request EXCEPT ![c] = q]
  /\ todo' = [todo EXCEPT ![c] = Plan(q)]
  /\ undisturbed' = [Disturb(Others(c, h)) EXCEPT ![c] = \A d \in Others(c, h) : pc[d] = "ready"]
  /\ faulted' = [faulted EXCEPT ![c] = FALSE]
  /\ UNCHANGED <<agent, shared, homes, late>>

\* The operation succeeded: home is the result, and these are to be done next.
Done(c, home, next) ==
  LET rest == next \o Tail(todo[c]) IN
  /\ homes' = [homes EXCEPT ![HomeOf(c)] = home]
  /\ todo' = [todo EXCEPT ![c] = rest]
  /\ pc' = IF rest = <<>> THEN [pc EXCEPT ![c] = "ready"] ELSE pc
  /\ UNCHANGED <<faulted, request, late, undisturbed>>

\* What Promise.all leaves under way when the first write of a role fails.
StillWriting(c) ==
  IF Head(todo[c]).op = "copy" /\ Head(todo[c]).what = "roles"
  THEN {op.item : op \in {o \in Entries(Tail(todo[c])) : o.what = "roles"}}
  ELSE {}

\* The call rejects; a temporary home is removed.
Reject(c) ==
  /\ pc' = [pc EXCEPT ![c] = "failed"]
  /\ todo' = [todo EXCEPT ![c] = <<>>]
  /\ late' = late \cup StillWriting(c)
  /\ homes' = IF request[c].persistent THEN homes ELSE [homes EXCEPT ![c] = NoHome]
  /\ UNCHANGED <<request, undisturbed>>

RejectFaulted(c) == Reject(c) /\ faulted' = [faulted EXCEPT ![c] = TRUE]

\* Fault: whatever is in the place of a link stays there.
ToLinkOver(state) == IF state = "right" THEN <<>> ELSE <<"symlink">>

\* Fault: a link is made anew even when it is right.
ToLinkAnew(state) == IF state = "none" THEN <<"symlink">> ELSE <<"unlink", "symlink">>

\* What is done about a link, once it is known what is there.
ToLink(state) ==
  CASE state = "right" -> <<>>
    [] state = "none"  -> <<"symlink">>
    [] state = "other" -> <<"unlink", "symlink">>

Linking(l, state) == LET ops == ToLink(state) IN [i \in DOMAIN ops |-> Op(ops[i], l)]

\* A copy into a directory that was removed meanwhile makes it again; a write does not.
CopyInto(dir, op) ==
  IF dir = None THEN {op.item} ELSE dir \cup {op.item}

Perform(c) ==
  LET op == Head(todo[c])
      x  == op.what
      home == Home(c)
  IN
  /\ pc[c] = "running"
  /\ \/ /\ op.op = "home"
        /\ Done(c, IF home.made /\ request[c].persistent THEN home ELSE [NoHome EXCEPT !.made = TRUE], <<>>)
     \/ /\ op.op = "rm"
        /\ Done(c, [home EXCEPT !.dirs[x] = None], <<>>)
     \/ /\ op.op = "mkdir"
        /\ Done(c, [home EXCEPT !.dirs[x] = IF @ = None THEN {} ELSE @], <<>>)
     \/ /\ op.op = "copy" /\ (x = "skills" \/ home.dirs[x] # None)
        /\ Done(c, [home EXCEPT !.dirs[x] = CopyInto(@, op)], <<>>)
     \/ /\ op.op = "copy" /\ x # "skills" /\ home.dirs[x] = None
        /\ Reject(c) /\ UNCHANGED faulted
     \/ /\ op.op = "write"
        /\ Done(c, [home EXCEPT !.files[x] = request[c].id], <<>>)
     \/ /\ op.op = "remove"
        /\ Done(c, [home EXCEPT !.files[x] = None], <<>>)
     \/ /\ op.op = "source" /\ shared
        /\ Done(c, home, <<>>)
     \/ /\ op.op = "lstat"
        /\ Done(c, home, IF home.links[x] = "none" THEN Linking(x, "none")
                         ELSE IF home.links[x] = "file" THEN Linking(x, "other")
                         ELSE <<Op("readlink", x)>>)
     \/ /\ op.op = "readlink" /\ home.links[x] # "file"
        /\ Done(c, home, Linking(x, home.links[x]))
     \/ /\ op.op = "unlink"
        /\ Done(c, [home EXCEPT !.links[x] = "none"], <<>>)
     \/ /\ op.op = "symlink" /\ home.links[x] = "none"
        /\ Done(c, [home EXCEPT !.links[x] = "right"], <<>>)
     \/ /\ \/ op.op = "symlink" /\ home.links[x] # "none"
           \/ op.op = "readlink" /\ home.links[x] = "file"
        /\ Reject(c) /\ UNCHANGED faulted
  /\ UNCHANGED <<agent, shared>>

\* There are no shared credentials: the call rejects.
SourceMissing(c) ==
  /\ pc[c] = "running" /\ Head(todo[c]).op = "source" /\ ~shared
  /\ agent # "agy"
  /\ RejectFaulted(c)
  /\ UNCHANGED <<agent, shared>>

\* Only agy goes on without, with what is linked already.
SourceOptional(c) ==
  /\ pc[c] = "running" /\ Head(todo[c]).op = "source" /\ ~shared
  /\ agent = "agy"
  /\ todo' = [todo EXCEPT ![c] = <<>>]
  /\ pc' = [pc EXCEPT ![c] = "ready"]
  /\ UNCHANGED <<agent, shared, homes, request, late, undisturbed, faulted>>

\* Any operation may fail: a full disk, a missing skill, a name that collides.
OperationFails(c) ==
  /\ pc[c] = "running"
  /\ RejectFaulted(c)
  /\ UNCHANGED <<agent, shared>>

\* Nothing is left of the call in memory.
Over(c, state) ==
  /\ pc' = [pc EXCEPT ![c] = state]
  /\ request' = [request EXCEPT ![c] = NoRequest]
  /\ todo' = [todo EXCEPT ![c] = <<>>]
  /\ undisturbed' = [undisturbed EXCEPT ![c] = FALSE]
  /\ faulted' = [faulted EXCEPT ![c] = FALSE]

\* The process dies and leaves the home as it is; nobody asks for a temporary one again.
Crash(c) ==
  /\ pc[c] = "running"
  /\ Over(c, IF request[c].persistent THEN "idle" ELSE "crashed")
  /\ UNCHANGED <<agent, shared, homes, late>>

\* The caller is done with the home; only a temporary one is removed.
Cleanup(c) ==
  /\ pc[c] \in {"ready", "failed"}
  /\ homes' = IF request[c].persistent THEN homes ELSE [homes EXCEPT ![c] = NoHome]
  /\ Over(c, "idle")
  /\ UNCHANGED <<agent, shared, late>>

\* The CLI, or who uses the home, puts a file of its own in place of the link,
\* or links it elsewhere.
Replace(h, state) ==
  /\ homes[h].made
  /\ homes[h].links["credentials"] # state
  /\ homes' = [homes EXCEPT ![h].links["credentials"] = state]
  /\ undisturbed' = Disturb({c \in Calls : HomeOf(c) = h})
  /\ UNCHANGED <<agent, shared, pc, request, todo, late, faulted>>

\* A role that a failed call was still writing lands where its home is by now,
\* or that write fails too. Only homes of Codex have roles, and they persist.
LateWrite(item) ==
  /\ item \in late
  /\ late' = late \ {item}
  /\ \/ UNCHANGED <<homes, undisturbed>>
     \/ /\ homes[Persistent].dirs["roles"] # None
        /\ homes' = [homes EXCEPT ![Persistent].dirs["roles"] = @ \cup {item}]
        /\ undisturbed' = Disturb({c \in Calls : HomeOf(c) = Persistent})
  /\ UNCHANGED <<agent, shared, pc, request, todo, faulted>>

\* A login or a logout of the account all homes share.
SharedChanges ==
  /\ shared' = ~shared
  /\ UNCHANGED <<agent, homes, pc, request, todo, late, undisturbed, faulted>>

-----------------------------------------------------------------------------

Init ==
  /\ agent \in Agents
  /\ shared \in BOOLEAN
  /\ homes = [h \in Calls \cup {Persistent} |-> NoHome]
  /\ pc = [c \in Calls |-> "idle"]
  /\ request = [c \in Calls |-> NoRequest]
  /\ todo = [c \in Calls |-> <<>>]
  /\ late = {}
  /\ undisturbed = [c \in Calls |-> FALSE]
  /\ faulted = [c \in Calls |-> FALSE]

Next ==
  \/ \E c \in Calls :
       \/ \E q \in Requests : Start(c, q)
       \/ Perform(c)
       \/ SourceMissing(c)
       \/ SourceOptional(c)
       \/ OperationFails(c)
       \/ Crash(c)
       \/ Cleanup(c)
  \/ \E h \in Calls \cup {Persistent}, state \in {"file", "other"} : Replace(h, state)
  \/ \E item \in Items : LateWrite(item)
  \/ SharedChanges

Spec == Init /\ [][Next]_vars

-----------------------------------------------------------------------------
(* Properties.                                                             *)

\* Whatever earlier calls asked for, and wherever they failed or died: the home
\* a call returns has the entries and the files it asked for and no others, as
\* far as the CLI is told about them, and the credentials where they belong.
AsAsked ==
  \A c \in Calls :
    LET q == request[c] home == Home(c) IN
    pc[c] = "ready" /\ undisturbed[c] =>
      /\ home.made
      /\ home.dirs["skills"] = Entries(q.dirs["skills"])
      /\ agent = "claude" => home.dirs["agents"] = Entries(q.dirs["agents"])
      /\ agent = "codex" /\ q.dirs["roles"] # <<>> => home.dirs["roles"] = Entries(q.dirs["roles"])
      /\ agent = "codex" => home.files["config"] = q.id
      /\ agent # "codex" => \A f \in q.given : home.files[f] = q.id
      /\ agent = "claude" => /\ "prompt" \notin q.given => home.files["prompt"] = None
                             /\ home.files["settings"] = q.id
      /\ agent # "agy" => home.links["credentials"] = "right"
      /\ agent = "agy" => home.links["skills"] = "right"

\* A call on its own fails only when an operation does, or when there is nothing
\* to link: whatever an earlier one left behind does not stand in its way.
FailsForAReason ==
  \A c \in Calls : pc[c] = "failed" /\ undisturbed[c] => faulted[c]

\* A right link stays where it is while one call prepares the home, for a CLI
\* that runs in it.
LinkKept ==
  [][\A c \in Calls :
       /\ pc[c] = "running" /\ undisturbed[c] /\ undisturbed'[c]
       /\ Home(c).links["credentials"] = "right" /\ HomeOf(c) = Persistent
       => homes'[HomeOf(c)].links["credentials"] = "right"]_vars

=============================================================================
