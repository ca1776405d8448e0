--------------------------- MODULE ToolLifecycle ----------------------------
(***************************************************************************)
(* The life of a synthesized tool: synthesis/quarantine.py and registry.py *)
(* behind the routes of api/routes/tools.py.  A request is a coroutine     *)
(* that alternates reads of the tools table, file operations in ~/.ghost   *)
(* and writes through the single writer; between two awaits it holds what  *)
(* it read, which other requests may have changed.                         *)
(*                                                                         *)
(* The writer is used as DatabaseWriter proves it: statements apply one by *)
(* one in the order they were put, an answered one is whole and durable,   *)
(* and any may fail.  A failed one changes nothing here; that a failed     *)
(* commit leaves its rows to a later one is DatabaseWriter's subject.      *)
(*                                                                         *)
(* A script's path is its directory, tool name and code hash, so           *)
(* <<name, code>> names a script, and files says that one is there.  Its   *)
(* header also lists dependencies and capabilities, which are not in the   *)
(* path: that a forge of the same name and code with other ones overwrites *)
(* a script is not seen here.  A row's file_path follows its status,       *)
(* because every statement that sets one sets the other.                   *)
(***************************************************************************)
EXTENDS Naturals, Sequences, FiniteSets

CONSTANTS
  Tools,        \* tool ids (uuid4)
  Names, Codes, \* what a script is called and what it does
  Clients,      \* requests that may be in flight together
  NoTool,       \* no row: an empty result
  MaxRequests,  \* bound: requests in a behaviour
  MaxCrashes,   \* bound: deaths of the daemon
  MaxFaults     \* bound: statements that fail for no reason modelled here

ASSUME LifecycleAssumption ==
  /\ NoTool \notin Tools \cup (Names \X Codes) /\ Names # {}
  /\ IsFiniteSet(Clients)
  /\ MaxRequests \in Nat /\ MaxCrashes \in Nat /\ MaxFaults \in Nat

VARIABLES
  made,       \* the script each tool id was forged with, NoTool before
  status,     \* tools.status, or "absent"
  current,    \* tool_current: name -> id
  files,      \* scripts on disk: <<directory, name, code>>
  req,        \* one request per client: its kind, tool and program counter
  pending,    \* statements in the writer's queue: <<client, statement>>
  approvals,  \* tools whose approval reached the database
  ran,        \* executions that found their script: <<tool, its status>>
  erased,     \* tools whose script ToolRegistry.delete() removed
  issued, crashes, faults

vars == <<made, status, current, files, req, pending, approvals, ran, erased,
          issued, crashes, faults>>
history == <<approvals, ran, erased, crashes, faults>>

Script == Names \X Codes
Statuses == {"quarantined", "approved", "registered"}
Kinds == {"forge", "approve", "reject", "run", "delete"}
Statements == {"insert", "approve", "register", "link", "reject", "count",
               "unlink", "purge"}
Answers == {"ok", "not_found", "error", "lost"}
Points == {"read", "readback", "row", "copy", "link", "erase", "execute", "purge", "wait"}

Location(s) == IF s = "registered" THEN "tools" ELSE "quarantine"
Path(t, s) == <<Location(s), made[t][1], made[t][2]>>

TypeOK ==
  /\ made \in [Tools -> Script \cup {NoTool}]
  /\ status \in [Tools -> Statuses \cup {"absent"}]
  /\ \A t \in Tools : status[t] # "absent" => made[t] # NoTool
  /\ current \in [Names -> Tools \cup {NoTool}]
  /\ files \subseteq {"quarantine", "tools"} \X Names \X Codes
  /\ req \in [Clients -> [kind : Kinds, tool : Tools \cup {NoTool},
                          name : Names, seen : Statuses, pc : Points \cup Answers]]
  /\ pending \in Seq(Clients \X Statements)
  /\ approvals \subseteq Tools /\ erased \subseteq Tools
  /\ ran \subseteq Tools \X (Statuses \cup {"absent"})
  /\ issued \in 0..MaxRequests /\ crashes \in 0..MaxCrashes /\ faults \in 0..MaxFaults

Init ==
  /\ made = [t \in Tools |-> NoTool]
  /\ status = [t \in Tools |-> "absent"]
  /\ current = [n \in Names |-> NoTool]
  /\ files = {}
  /\ req = [c \in Clients |-> [kind |-> "forge", tool |-> NoTool, name |-> CHOOSE n \in Names : TRUE,
                               seen |-> "quarantined", pc |-> "ok"]]
  /\ pending = <<>>
  /\ approvals = {} /\ ran = {} /\ erased = {}
  /\ issued = 0 /\ crashes = 0 /\ faults = 0

Idle(c) == req[c].pc \in Answers
At(c, kind, pc) == req[c].kind = kind /\ req[c].pc = pc
Goto(c, pc) == req' = [req EXCEPT ![c].pc = pc]

\* await self.writer.write(...)
Put(c, statement) ==
  /\ pending' = Append(pending, <<c, statement>>)
  /\ Goto(c, "wait")

\* A SELECT: the request goes on with what it saw, or answers 404.
Found(c, t, pc) ==
  /\ req' = [req EXCEPT ![c].tool = t, ![c].seen = status[t], ![c].pc = pc]
Missing(c) == Goto(c, "not_found")

-----------------------------------------------------------------------------
(* A request arrives.                                                      *)

Request(c, kind, t, n, pc) ==
  /\ Idle(c) /\ issued < MaxRequests
  /\ issued' = issued + 1
  /\ req' = [req EXCEPT ![c] =
               [kind |-> kind, tool |-> t, name |-> n, seen |-> "quarantined", pc |-> pc]]

\* QuarantineManager.add: the script is written and the INSERT queued in one
\* step.  The id is fresh (any fresh one will do); the script's path is not.
Forge(c, n, code) ==
  /\ \E t \in Tools : made[t] = NoTool
  /\ LET t == CHOOSE u \in Tools : made[u] = NoTool
     IN  /\ made' = [made EXCEPT ![t] = <<n, code>>]
         /\ Request(c, "forge", t, n, "wait")
  /\ files' = files \cup {<<"quarantine", n, code>>}
  /\ pending' = Append(pending, <<c, "insert">>)
  /\ UNCHANGED <<status, current, history>>

\* An id is told to clients once its INSERT has been executed.
Known(t) ==
  made[t] # NoTool /\ \A c \in Clients : ~(At(c, "forge", "wait") /\ req[c].tool = t)

\* Mutant: the route registers without asking the quarantine.
ApproveUnasked(c, t) ==
  /\ Known(t)
  /\ Request(c, "approve", t, made[t][1], "row")
  /\ UNCHANGED <<made, status, current, files, pending, history>>

\* POST /tools/{tool_id}/approve queues its UPDATE before reading anything.
Approve(c, t) ==
  /\ Known(t)
  /\ Request(c, "approve", t, made[t][1], "wait")
  /\ pending' = Append(pending, <<c, "approve">>)
  /\ UNCHANGED <<made, status, current, files, history>>

Reject(c, t) ==
  /\ Known(t)
  /\ Request(c, "reject", t, made[t][1], "read")
  /\ UNCHANGED <<made, status, current, files, pending, history>>

Run(c, n) ==
  /\ Request(c, "run", NoTool, n, "read")
  /\ UNCHANGED <<made, status, current, files, pending, history>>

\* No route calls ToolRegistry.delete yet; its tests do.
Delete(c, t) ==
  /\ Known(t)
  /\ Request(c, "delete", t, made[t][1], "read")
  /\ UNCHANGED <<made, status, current, files, pending, history>>

-----------------------------------------------------------------------------
(* approve: read back, register: read the row, copy the script, move the   *)
(* row, move the pointer.                                                  *)

ReadBack(c) ==
  /\ At(c, "approve", "readback")
  /\ IF status[req[c].tool] = "absent" THEN Missing(c) ELSE Goto(c, "row")
  /\ UNCHANGED <<made, status, current, files, pending, history, issued>>

\* A row that vanished here still answers 200, with what the read-back saw.
ReadRow(c) ==
  /\ At(c, "approve", "row")
  /\ IF status[req[c].tool] = "absent" THEN Goto(c, "ok")
     ELSE Found(c, req[c].tool, "copy")
  /\ UNCHANGED <<made, status, current, files, pending, history, issued>>

\* Mutant: no src.exists() check around the UPDATE.
CopyUnchecked(c) ==
  /\ At(c, "approve", "copy")
  /\ LET t == req[c].tool
     IN  files' = IF Path(t, req[c].seen) \in files
                    THEN files \cup {Path(t, "registered")} ELSE files
  /\ Put(c, "register")
  /\ UNCHANGED <<made, status, current, history, issued>>

\* A missing script skips the UPDATE; copying a script onto itself raises.
Copy(c) ==
  /\ At(c, "approve", "copy")
  /\ LET t == req[c].tool
         src == Path(t, req[c].seen)
         dst == Path(t, "registered")
     IN  \/ /\ src \in files /\ src # dst
            /\ files' = files \cup {dst}
            /\ Put(c, "register")
         \/ /\ src \in files /\ src = dst
            /\ Goto(c, "error")
            /\ UNCHANGED <<files, pending>>
         \/ /\ src \notin files
            /\ Put(c, "link")
            /\ UNCHANGED files
  /\ UNCHANGED <<made, status, current, history, issued>>

Link(c) ==
  /\ At(c, "approve", "link")
  /\ Put(c, "link")
  /\ UNCHANGED <<made, status, current, files, history, issued>>

-----------------------------------------------------------------------------
(* reject, run and delete.                                                 *)

ReadQuarantined(c) ==
  /\ At(c, "reject", "read")
  /\ IF status[req[c].tool] = "quarantined" THEN Found(c, req[c].tool, "erase")
     ELSE Missing(c)
  /\ UNCHANGED <<made, status, current, files, pending, history, issued>>

EraseRejected(c) ==
  /\ At(c, "reject", "erase")
  /\ files' = files \ {Path(req[c].tool, "quarantined")}
  /\ Put(c, "reject")
  /\ UNCHANGED <<made, status, current, history, issued>>

\* get_current joins tools and tool_current and looks at no status.
ReadCurrent(c) ==
  /\ At(c, "run", "read")
  /\ LET t == current[req[c].name]
     IN  IF t = NoTool THEN Missing(c) ELSE Found(c, t, "execute")
  /\ UNCHANGED <<made, status, current, files, pending, history, issued>>

\* subprocess.run inside the coroutine: nothing else runs until it ends.  A
\* missing script is a failed run, and is counted like any other.
Execute(c) ==
  /\ At(c, "run", "execute")
  /\ LET t == req[c].tool
     IN  ran' = IF Path(t, req[c].seen) \in files THEN ran \cup {<<t, req[c].seen>>} ELSE ran
  /\ Put(c, "count")
  /\ UNCHANGED <<made, status, current, files, approvals, erased, crashes, faults, issued>>

\* Mutant: delete() goes on without a row.
ReadDeletedUnchecked(c) ==
  /\ At(c, "delete", "read")
  /\ Found(c, req[c].tool, "erase")
  /\ UNCHANGED <<made, status, current, files, pending, history, issued>>

ReadDeleted(c) ==
  /\ At(c, "delete", "read")
  /\ IF status[req[c].tool] = "absent" THEN Missing(c) ELSE Found(c, req[c].tool, "erase")
  /\ UNCHANGED <<made, status, current, files, pending, history, issued>>

EraseDeleted(c) ==
  /\ At(c, "delete", "erase")
  /\ files' = files \ {Path(req[c].tool, req[c].seen)}
  /\ erased' = erased \cup {req[c].tool}
  /\ Put(c, "unlink")
  /\ UNCHANGED <<made, status, current, approvals, ran, crashes, faults, issued>>

Purge(c) ==
  /\ At(c, "delete", "purge")
  /\ Put(c, "purge")
  /\ UNCHANGED <<made, status, current, files, history, issued>>

-----------------------------------------------------------------------------
(* The writer executes the statement at the head of its queue and wakes    *)
(* the request that awaits it.                                             *)

Apply(statement) ==
  /\ pending # <<>> /\ Head(pending)[2] = statement
  /\ pending' = Tail(pending)
  /\ UNCHANGED <<made, files, ran, erased, issued, crashes, faults>>

Caller == Head(pending)[1]
Target == req[Caller].tool

\* UNIQUE(name, version), and every row has version 1.
NameTaken == \E u \in Tools : status[u] # "absent" /\ made[u][1] = made[Target][1]

ApplyInsert ==
  /\ Apply("insert")
  /\ IF NameTaken
       THEN Goto(Caller, "error") /\ UNCHANGED status
       ELSE Goto(Caller, "ok") /\ status' = [status EXCEPT ![Target] = "quarantined"]
  /\ UNCHANGED <<current, approvals>>

ApplyApprove ==
  /\ Apply("approve")
  /\ IF status[Target] = "quarantined"
       THEN /\ status' = [status EXCEPT ![Target] = "approved"]
            /\ approvals' = approvals \cup {Target}
       ELSE UNCHANGED <<status, approvals>>
  /\ Goto(Caller, "readback")
  /\ UNCHANGED current

ApplyRegister ==
  /\ Apply("register")
  /\ status' = [status EXCEPT ![Target] = IF @ = "absent" THEN @ ELSE "registered"]
  /\ Goto(Caller, "link")
  /\ UNCHANGED <<current, approvals>>

\* tool_current.current_version_id REFERENCES tools(id), foreign_keys = ON.
ApplyLink ==
  /\ Apply("link")
  /\ IF status[Target] = "absent"
       THEN Goto(Caller, "error") /\ UNCHANGED current
       ELSE Goto(Caller, "ok") /\ current' = [current EXCEPT ![made[Target][1]] = Target]
  /\ UNCHANGED <<status, approvals>>

\* Mutant: the DELETE without AND status = 'quarantined'.
ApplyRejectAny ==
  /\ Apply("reject")
  /\ status' = [status EXCEPT ![Target] = "absent"]
  /\ Goto(Caller, "ok")
  /\ UNCHANGED <<current, approvals>>

ApplyReject ==
  /\ Apply("reject")
  /\ status' = [status EXCEPT ![Target] = IF @ = "quarantined" THEN "absent" ELSE @]
  /\ Goto(Caller, "ok")
  /\ UNCHANGED <<current, approvals>>

ApplyCount ==
  /\ Apply("count")
  /\ Goto(Caller, "ok")
  /\ UNCHANGED <<status, current, approvals>>

ApplyUnlink ==
  /\ Apply("unlink")
  /\ current' = [n \in Names |-> IF current[n] = Target THEN NoTool ELSE current[n]]
  /\ Goto(Caller, "purge")
  /\ UNCHANGED <<status, approvals>>

ApplyPurge ==
  /\ Apply("purge")
  /\ IF \E n \in Names : current[n] = Target
       THEN Goto(Caller, "error") /\ UNCHANGED status
       ELSE Goto(Caller, "ok") /\ status' = [status EXCEPT ![Target] = "absent"]
  /\ UNCHANGED <<current, approvals>>

\* Any statement may fail, a locked or full database: _consumer hands the
\* exception to the request that waits, which does nothing further.
ApplyFails ==
  /\ pending # <<>> /\ faults < MaxFaults
  /\ faults' = faults + 1
  /\ pending' = Tail(pending)
  /\ Goto(Caller, "error")
  /\ UNCHANGED <<made, status, current, files, approvals, ran, erased, issued, crashes>>

ApplyNext ==
  ApplyInsert \/ ApplyApprove \/ ApplyRegister \/ ApplyLink \/ ApplyReject
  \/ ApplyCount \/ ApplyUnlink \/ ApplyPurge \/ ApplyFails

-----------------------------------------------------------------------------
\* The daemon dies and is started again: requests and queue are gone, the
\* database and the directories stay.
Crash ==
  /\ crashes < MaxCrashes
  /\ crashes' = crashes + 1
  /\ pending' = <<>>
  /\ req' = [c \in Clients |-> [req[c] EXCEPT !.pc = IF Idle(c) THEN @ ELSE "lost"]]
  /\ UNCHANGED <<made, status, current, files, approvals, ran, erased, issued, faults>>

Arrive(c) ==
  \/ \E n \in Names, code \in Codes : Forge(c, n, code)
  \/ \E t \in Tools : Approve(c, t) \/ Reject(c, t) \/ Delete(c, t)
  \/ \E n \in Names : Run(c, n)

Advance(c) ==
  ReadBack(c) \/ ReadRow(c) \/ Copy(c) \/ Link(c) \/ ReadQuarantined(c) \/ EraseRejected(c)
  \/ ReadCurrent(c) \/ Execute(c) \/ ReadDeleted(c) \/ EraseDeleted(c) \/ Purge(c)

Next == (\E c \in Clients : Arrive(c) \/ Advance(c)) \/ ApplyNext \/ Crash

Spec == Init /\ [][Next]_vars

-----------------------------------------------------------------------------
(* Nothing is executed that the user did not approve (README.md:46-47),    *)
(* however approvals, rejections, deletions and forges of one script       *)
(* interleave; and a name points at a tool of that name which may be run,  *)
(* never at one that is pending or gone.                                   *)
OnlyApprovedRuns ==
  /\ \A e \in ran : e[1] \in approvals
  /\ \A n \in Names :
       current[n] # NoTool =>
         /\ made[current[n]][1] = n
         /\ status[current[n]] \in {"approved", "registered"}

(* A registered tool has a script of its name and code in the tools        *)
(* directory, whatever statement fails and wherever the daemon dies; only  *)
(* deleting that tool, or one with the same script, takes it away.         *)
RegisteredHasScript ==
  \A t \in Tools :
    status[t] = "registered" /\ (\A u \in erased : made[u] # made[t])
      => Path(t, "registered") \in files

(* A rejection that loses the race against an approval removes no row: an  *)
(* approved tool goes only by delete().                                    *)
ApprovedIsKept ==
  [][\A t \in Tools :
       status[t] \in {"approved", "registered"} /\ t \notin erased
         => status'[t] \in {status[t], "registered"}]_vars

-----------------------------------------------------------------------------
(* How far a tool has come.  One without a row is unknown while it is      *)
(* being forged; afterwards it is gone, with an approval or without.       *)
Phase(t) ==
  IF status[t] # "absent" THEN status[t]
  ELSE IF ~Known(t) THEN "unknown"
  ELSE IF t \in approvals THEN "retired"
  ELSE "discarded"

Loop == INSTANCE HumanInTheLoop
          WITH phase <- [t \in Tools |-> Phase(t)],
               callable <- current,
               executed <- {e[1] : e \in ran}

(* What the user is promised is kept: whatever overlaps, and a crash       *)
(* included, every step takes each tool along HumanInTheLoop's life or     *)
(* changes nothing of it.  A tool leaves the quarantine by the user's      *)
(* decision and never returns; a rejection that loses the race against an  *)
(* approval removes nothing; names call approved tools only.               *)
HumanDecides == Loop!LoopSpec
=============================================================================
