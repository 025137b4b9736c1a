--------------------------- MODULE CommandMailbox ---------------------------
(***************************************************************************)
(* The command mailbox: one file that client processes replace atomically   *)
(* and the resident runtime reads once per tick.                            *)
(*                                                                          *)
(* Producers are _run_active processes of the control CLI that keep a       *)
(* motion command alive by publishing revision after revision.  Stoppers    *)
(* are processes that publish an explicit STOP (the CLI's stop, the         *)
(* operator controller).  A publication is staged without the file lock and *)
(* committed under it.  A publication's identity, which the code does not   *)
(* have, is its place in the order of all commits.                          *)
(***************************************************************************)
EXTENDS Integers, FiniteSets

CONSTANTS
    Producers,  \* CLI processes that publish motion
    Stoppers,   \* processes that publish an explicit STOP
    NoClient,   \* nobody
    Ttl,        \* the lease of one publication, in clock units
    Patience,   \* the time budget of one publication, in clock units
    MaxStarts   \* bound of the model: how many publications are begun

Clients == Producers \cup Stoppers

ASSUME MailboxAssumption ==
    /\ Producers \cap Stoppers = {}
    /\ NoClient \notin Clients
    /\ Ttl \in Nat
    /\ Patience \in Nat
    /\ MaxStarts \in Nat

VARIABLES
    file,       \* the mailbox file
    started,    \* bound: the publications that were begun
    commits,    \* history: the publications that were committed
    lock,       \* who holds the publication lock
    pc,         \* where each process is in its publication
    op,         \* the mode it is publishing
    cursor,     \* ResidentCommandClient._revision
    baseline,   \* the revision its staged publication replaces
    lease,      \* what is left of the lease of its staged publication
    patience,   \* what is left of its time budget
    basis,      \* history: the publication its cursor was taken from
    orphans,    \* history: producers whose mailbox a runtime start removed
    seen,       \* AsyncResidentCommandGateway._mailbox
    readError,  \* AsyncResidentCommandGateway._read_error
    gateway,    \* last revision and identity accepted, removal, fault
    command     \* the mode the last snapshot returned

clientVars == <<started, lock, pc, op, cursor, baseline, lease, patience, basis,
                orphans>>
readerVars == <<seen, readError, gateway, command>>
vars == <<file, commits, clientVars, readerVars>>

Steps == {"OUT", "RUNNING", "STOPPING", "STAGING", "STAGED", "LOCKED", "CHECKED"}
Modes == {"STOP", "MOTION"}
Files == [id : Nat, rev : Nat, mode : Modes, left : -1 .. Ttl]

(* No file: revision 0 for every reader of the revision. *)
Absent == [id |-> 0, rev |-> 0, mode |-> "STOP", left |-> -1]
NoGateway == [rev |-> 0, id |-> 0, requiresNew |-> FALSE, failed |-> FALSE]

TypeOK ==
    /\ file \in Files
    /\ started \in 0 .. MaxStarts
    /\ commits \in Nat
    /\ lock \in Clients \cup {NoClient}
    /\ pc \in [Clients -> Steps]
    /\ op \in [Clients -> Modes]
    /\ cursor \in [Clients -> Nat]
    /\ baseline \in [Clients -> Nat]
    /\ lease \in [Clients -> -1 .. Ttl]
    /\ patience \in [Clients -> -1 .. Patience]
    /\ basis \in [Clients -> Nat]
    /\ orphans \subseteq Producers
    /\ seen \in Files
    /\ readError \in BOOLEAN
    /\ gateway \in [rev : Nat, id : Nat, requiresNew : BOOLEAN, failed : BOOLEAN]
    /\ command \in Modes

Init ==
    /\ file = Absent
    /\ started = 0
    /\ commits = 0
    /\ lock = NoClient
    /\ pc = [c \in Clients |-> "OUT"]
    /\ op = [c \in Clients |-> "STOP"]
    /\ cursor = [c \in Clients |-> 0]
    /\ baseline = [c \in Clients |-> 0]
    /\ lease = [c \in Clients |-> -1]
    /\ patience = [c \in Clients |-> -1]
    /\ basis = [c \in Clients |-> 0]
    /\ orphans = {}
    /\ seen = Absent
    /\ readError = FALSE
    /\ gateway = NoGateway
    /\ command = "STOP"

-----------------------------------------------------------------------------
(* Publication, as a client process executes it.                            *)
Goto(c, step) == pc' = [pc EXCEPT ![c] = step]

Release(c) == lock' = IF lock = c THEN NoClient ELSE lock

(* A publication begins with a full time budget.                            *)
Begin(c, step) ==
    /\ Goto(c, step)
    /\ patience' = [patience EXCEPT ![c] = Patience]

(* Every way out of a heartbeat ends in a STOP publication.                 *)
Unwind(p) == Begin(p, "STOPPING")

Counted ==
    /\ started < MaxStarts
    /\ started' = started + 1

(* A fresh CLI process takes the mailbox cursor before anything else.       *)
Admit(p) ==
    /\ pc[p] = "OUT"
    /\ Counted
    /\ Goto(p, "RUNNING")
    /\ cursor' = [cursor EXCEPT ![p] = file.rev]
    /\ basis' = [basis EXCEPT ![p] = file.id]
    /\ orphans' = orphans \ {p}
    /\ UNCHANGED <<file, commits, lock, op, baseline, lease, patience, readerVars>>

(* Mutant: a heartbeat rebases itself on what the mailbox holds now. *)
MutBeginMotion(p) ==
    /\ pc[p] = "RUNNING"
    /\ Counted
    /\ Begin(p, "STAGING")
    /\ op' = [op EXCEPT ![p] = "MOTION"]
    /\ baseline' = [baseline EXCEPT ![p] = file.rev]
    /\ UNCHANGED <<file, commits, lock, cursor, lease, basis, orphans, readerVars>>

(* The first publication or the next heartbeat: based on the own cursor.    *)
BeginMotion(p) ==
    /\ pc[p] = "RUNNING"
    /\ Counted
    /\ Begin(p, "STAGING")
    /\ op' = [op EXCEPT ![p] = "MOTION"]
    /\ baseline' = [baseline EXCEPT ![p] = cursor[p]]
    /\ UNCHANGED <<file, commits, lock, cursor, lease, basis, orphans, readerVars>>

(* stop_with_reason: owner gone, watchdog or interrupt between heartbeats.  *)
EndMotion(p) ==
    /\ pc[p] = "RUNNING"
    /\ Unwind(p)
    /\ UNCHANGED <<file, started, commits, lock, op, cursor, baseline, lease,
                   basis, orphans, readerVars>>

RequestStop(s) ==
    /\ pc[s] = "OUT"
    /\ Counted
    /\ Begin(s, "STOPPING")
    /\ UNCHANGED <<file, commits, lock, op, cursor, baseline, lease, basis,
                   orphans, readerVars>>

(* An unconditional STOP is based on whatever the mailbox holds now.        *)
BeginStop(c) ==
    /\ pc[c] = "STOPPING"
    /\ Goto(c, "STAGING")
    /\ op' = [op EXCEPT ![c] = "STOP"]
    /\ baseline' = [baseline EXCEPT ![c] = file.rev]
    /\ UNCHANGED <<file, started, commits, lock, cursor, lease, patience, basis,
                   orphans, readerVars>>

(* The temporary file is written; the lease starts now, not at the commit.  *)
Stage(c) ==
    /\ pc[c] = "STAGING"
    /\ Goto(c, "STAGED")
    /\ lease' = [lease EXCEPT ![c] = Ttl]
    /\ UNCHANGED <<file, started, commits, lock, op, cursor, baseline, patience,
                   basis, orphans, readerVars>>

Lock(c) ==
    /\ pc[c] = "STAGED"
    /\ lock = NoClient
    /\ lock' = c
    /\ Goto(c, "LOCKED")
    /\ UNCHANGED <<file, started, commits, op, cursor, baseline, lease, patience,
                   basis, orphans, readerVars>>

(* Mutant: a waiter never gives up. *)
MutLockTimeout(c) == FALSE

(* The deadline passes while another process holds the lock.  A STOP raises; *)
(* a heartbeat unwinds.                                                     *)
LockTimeout(c) ==
    /\ pc[c] = "STAGED"
    /\ lock # NoClient
    /\ patience[c] < 0
    /\ \/ op[c] = "MOTION" /\ Unwind(c)
       \/ op[c] = "STOP" /\ Goto(c, "OUT") /\ UNCHANGED patience
    /\ UNCHANGED <<file, started, commits, lock, op, cursor, baseline, lease,
                   basis, orphans, readerVars>>

Superseded(c) == file.rev # baseline[c]

(* Under the lock: the mailbox still holds the revision this replaces.      *)
Check(c) ==
    /\ pc[c] = "LOCKED"
    /\ ~Superseded(c)
    /\ Goto(c, "CHECKED")
    /\ UNCHANGED <<file, started, commits, lock, op, cursor, baseline, lease,
                   patience, basis, orphans, readerVars>>

(* COMMAND_SUPERSEDED: a heartbeat unwinds, a STOP starts again from the     *)
(* latest revision until its time budget has run out.                       *)
Reject(c) ==
    /\ pc[c] = "LOCKED"
    /\ Superseded(c)
    /\ Release(c)
    /\ \/ op[c] = "MOTION" /\ Unwind(c)
       \/ /\ op[c] = "STOP"
          /\ Goto(c, IF patience[c] < 0 THEN "OUT" ELSE "STOPPING")
          /\ UNCHANGED patience
    /\ UNCHANGED <<file, started, commits, op, cursor, baseline, lease, basis,
                   orphans, readerVars>>

(* The active guard, an interrupt or an I/O error revokes a heartbeat while  *)
(* it is staged or about to be committed.                                   *)
Revoke(p) ==
    /\ pc[p] \in {"STAGING", "STAGED", "LOCKED", "CHECKED"}
    /\ op[p] = "MOTION"
    /\ Release(p)
    /\ Unwind(p)
    /\ UNCHANGED <<file, started, commits, op, cursor, baseline, lease, basis,
                   orphans, readerVars>>

(* Mutant: the revision is not advanced. *)
MutRevision(c) == baseline[c]

Revision(c) == baseline[c] + 1

(* os.replace: the one step that changes the mailbox; then the lock goes.   *)
Replace(c) ==
    /\ pc[c] = "CHECKED"
    /\ file' = [id |-> commits + 1, rev |-> Revision(c), mode |-> op[c],
                left |-> lease[c]]
    /\ commits' = commits + 1
    /\ Release(c)
    /\ cursor' = [cursor EXCEPT ![c] = Revision(c)]
    /\ basis' = [basis EXCEPT ![c] = commits + 1]
    /\ Goto(c, IF op[c] = "MOTION" THEN "RUNNING" ELSE "OUT")
    /\ UNCHANGED <<started, op, baseline, lease, patience, orphans, readerVars>>

(* A process dies anywhere, or a STOP fails with an I/O error; the kernel    *)
(* drops its lock, and what it knew goes with it.                           *)
Crash(c) ==
    /\ pc[c] # "OUT"
    /\ Release(c)
    /\ Goto(c, "OUT")
    /\ op' = [op EXCEPT ![c] = "STOP"]
    /\ cursor' = [cursor EXCEPT ![c] = 0]
    /\ basis' = [basis EXCEPT ![c] = 0]
    /\ baseline' = [baseline EXCEPT ![c] = 0]
    /\ lease' = [lease EXCEPT ![c] = -1]
    /\ patience' = [patience EXCEPT ![c] = -1]
    /\ orphans' = orphans \ {c}
    /\ UNCHANGED <<file, started, commits, readerVars>>

-----------------------------------------------------------------------------
(* The runtime's side.                                                      *)
ReaderPoll ==
    /\ ~readError
    /\ seen # file
    /\ seen' = file
    /\ UNCHANGED <<file, commits, clientVars, readError, gateway, command>>

ReaderFails ==
    /\ ~readError
    /\ readError' = TRUE
    /\ UNCHANGED <<file, commits, clientVars, seen, gateway, command>>

(* A revision that regressed, was rewritten, or did not advance after the    *)
(* mailbox was removed.                                                     *)
Untrusted(f) ==
    /\ gateway.rev # 0
    /\ \/ gateway.requiresNew /\ f.rev <= gateway.rev
       \/ f.rev < gateway.rev
       \/ f.rev = gateway.rev /\ f.id # gateway.id

(* Mutant: expiry is not looked at. *)
MutObey(f) == f.mode

Obey(f) == IF f.left < 0 THEN "STOP" ELSE f.mode

(* One snapshot(); after an error the resident session is over.             *)
Snapshot ==
    /\ ~gateway.failed
    /\ \/ /\ readError \/ (seen.rev # 0 /\ Untrusted(seen))
          /\ gateway' = [gateway EXCEPT !.failed = TRUE]
          /\ command' = "STOP"
       \/ /\ ~readError
          /\ seen.rev = 0
          /\ gateway' = [gateway EXCEPT !.requiresNew = @ \/ gateway.rev # 0]
          /\ command' = "STOP"
       \/ /\ ~readError
          /\ seen.rev # 0
          /\ ~Untrusted(seen)
          /\ gateway' = IF seen.rev > gateway.rev
                        THEN [gateway EXCEPT !.rev = seen.rev, !.id = seen.id,
                                             !.requiresNew = FALSE]
                        ELSE gateway
          /\ command' = Obey(seen)
    /\ UNCHANGED <<file, commits, clientVars, seen, readError>>

(* runtime_start: the old runtime is gone, the file is removed without the   *)
(* lock, a new runtime starts.  The producers were ended some time before,    *)
(* and one that was started since, or that could not be ended, lives on.     *)
RestartRuntime ==
    /\ file' = Absent
    /\ seen' = Absent
    /\ readError' = FALSE
    /\ gateway' = NoGateway
    /\ command' = "STOP"
    /\ orphans' = {p \in Producers : pc[p] # "OUT"}
    /\ UNCHANGED <<commits, started, lock, pc, op, cursor, baseline, lease,
                   patience, basis>>

Elapsed(left) == IF left < 0 THEN left ELSE left - 1

TimePasses ==
    /\ file' = [file EXCEPT !.left = Elapsed(@)]
    /\ seen' = [seen EXCEPT !.left = Elapsed(@)]
    /\ lease' = [c \in Clients |-> Elapsed(lease[c])]
    /\ patience' = [c \in Clients |-> Elapsed(patience[c])]
    /\ UNCHANGED <<started, commits, lock, pc, op, cursor, baseline, basis,
                   orphans, readError, gateway, command>>

-----------------------------------------------------------------------------
ClientStep(c) ==
    \/ BeginStop(c)
    \/ Stage(c)
    \/ Lock(c)
    \/ LockTimeout(c)
    \/ Check(c)
    \/ Reject(c)
    \/ Replace(c)

Next ==
    \/ \E p \in Producers : Admit(p) \/ BeginMotion(p) \/ EndMotion(p) \/ Revoke(p)
    \/ \E s \in Stoppers : RequestStop(s)
    \/ \E c \in Clients : ClientStep(c) \/ Crash(c)
    \/ ReaderPoll
    \/ ReaderFails
    \/ Snapshot
    \/ RestartRuntime
    \/ TimePasses

Spec == Init /\ [][Next]_vars

(* The runtime ticks, its reader thread polls, time passes, and a process    *)
(* that publishes a STOP is scheduled.  Nothing is assumed of producers: one  *)
(* may hang for ever, with or without the lock.                             *)
Fairness ==
    /\ WF_vars(ReaderPoll)
    /\ WF_vars(Snapshot)
    /\ WF_vars(TimePasses)
    /\ \A s \in Stoppers : WF_vars(ClientStep(s))

FairSpec == Spec /\ Fairness

-----------------------------------------------------------------------------
Commits(p) == pc[p] = "CHECKED" /\ pc'[p] = "RUNNING"

(* A motion publication replaces exactly the publication its producer's      *)
(* cursor was taken from: whatever the interleaving of staging, locks,       *)
(* crashes and STOPs, a heartbeat never overwrites a STOP or a newer command  *)
(* it has not seen ("it must never silently rebase a heartbeat").  The one    *)
(* exception is the removal of the mailbox by a runtime start while the       *)
(* producer lives: revisions begin again, so its cursor says nothing of the   *)
(* new mailbox, and until it takes a new cursor it may replace what it has    *)
(* not seen.  StopInvalidatesProducer shows what that leads to.             *)
NoStaleOverwrite ==
    [][\A p \in Producers : Commits(p) /\ p \notin orphans
         => file.id = basis[p]]_vars

(* "A STOP/replacement invalidates this producer, including its first ACTIVE  *)
(* publication": motion is never committed over a STOP that was published     *)
(* after its producer took its cursor.                                      *)
StopInvalidatesProducer ==
    [][\A p \in Producers : Commits(p)
         => ~(file.mode = "STOP" /\ file.id > basis[p])]_vars

(* Two processes staged against the same revision never both commit, and a    *)
(* commit never takes a revision the mailbox has had in this lifetime.  Only  *)
(* runtime_start takes the revision back, by removing the file; it does so     *)
(* without the lock, so a STOP that is being committed then may skip          *)
(* revisions, never repeat one.                                             *)
RevisionsRise ==
    [][file'.id # file.id => file'.rev > file.rev \/ file' = Absent]_vars

(* The runtime gives up on its mailbox only when the read itself failed: no   *)
(* interleaving of the client processes produces a revision the gateway takes *)
(* for a regression or a rewrite.                                           *)
ClientsAreTrusted == gateway.failed => readError

(* When every producer is gone, however it went, the runtime ends up obeying  *)
(* STOP: no heartbeat, no motion.                                           *)
MotionExpires ==
    <>[](\A p \in Producers : pc[p] = "OUT") => <>[](command = "STOP")

(* A process that publishes a STOP always comes back, though a producer that   *)
(* hangs inside the lock may keep it from committing.                       *)
StopReturns == \A s \in Stoppers : pc[s] # "OUT" ~> pc[s] = "OUT"
=============================================================================
