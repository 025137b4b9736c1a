------------------------ MODULE CommandMailboxProofs ------------------------
(***************************************************************************)
(* What CommandMailbox guarantees for any set of processes, any lease, any   *)
(* time budget and any number of publications.                              *)
(***************************************************************************)
EXTENDS CommandMailbox, TLAPS

Holding == {"LOCKED", "CHECKED"}
Publishing == {"STAGING", "STAGED", "LOCKED", "CHECKED"}

(* The producer still acts for the command it was admitted for.             *)
Alive(p) == pc[p] = "RUNNING" \/ (op[p] = "MOTION" /\ pc[p] \in Publishing)

(* Between the check and the replacement nothing but the unlocked removal    *)
(* can touch the file.                                                      *)
LockInv ==
    /\ \A c \in Clients : pc[c] \in Holding <=> lock = c
    /\ \A c \in Clients : pc[c] = "CHECKED" => baseline[c] >= file.rev

(* A living producer whose mailbox was not removed has a cursor that is never *)
(* ahead of the file, and equal to it only for the very publication it was    *)
(* taken from.                                                              *)
CursorInv ==
    \A p \in Producers :
        /\ pc[p] \in Publishing /\ op[p] = "MOTION" => baseline[p] = cursor[p]
        /\ Alive(p) /\ p \notin orphans
             => /\ cursor[p] <= file.rev
                /\ cursor[p] = file.rev => basis[p] = file.id

(* The reader trails the file and the gateway trails the reader.            *)
ReaderInv ==
    /\ seen.rev <= file.rev
    /\ seen.rev = file.rev => seen.id = file.id
    /\ gateway.rev <= seen.rev
    /\ gateway.rev = seen.rev => gateway.id = seen.id
    /\ ~gateway.requiresNew
    /\ gateway.failed => readError

MailboxInv == TypeOK /\ LockInv /\ CursorInv /\ ReaderInv

-----------------------------------------------------------------------------
LEMMA FreshReader ==
    /\ Absent \in Files
    /\ NoGateway \in [rev : Nat, id : Nat, requiresNew : BOOLEAN, failed : BOOLEAN]
<1>1. -1 \in -1 .. Ttl
  BY MailboxAssumption
<1>2. Absent \in Files
  BY <1>1 DEF Absent, Files, Modes
<1>3. FALSE \in BOOLEAN
  OBVIOUS
<1>4. NoGateway \in [rev : Nat, id : Nat, requiresNew : BOOLEAN, failed : BOOLEAN]
  BY <1>3 DEF NoGateway
<1> QED BY <1>2, <1>4

LEMMA InitInv == Init => MailboxInv
<1> SUFFICES ASSUME Init PROVE MailboxInv
  OBVIOUS
<1>1. TypeOK
  <2>1. 0 \in 0 .. MaxStarts /\ -1 \in -1 .. Ttl /\ -1 \in -1 .. Patience
    BY MailboxAssumption
  <2>2. /\ started \in 0 .. MaxStarts /\ commits \in Nat /\ lock \in Clients \cup {NoClient}
        /\ cursor \in [Clients -> Nat] /\ baseline \in [Clients -> Nat]
        /\ lease \in [Clients -> -1 .. Ttl] /\ patience \in [Clients -> -1 .. Patience]
        /\ basis \in [Clients -> Nat] /\ orphans \subseteq Producers
    BY <2>1 DEF Init
  <2>3. /\ pc \in [Clients -> Steps] /\ op \in [Clients -> Modes] /\ command \in Modes
    BY DEF Init, Steps, Modes
  <2>4. /\ file \in Files /\ seen \in Files
        /\ gateway \in [rev : Nat, id : Nat, requiresNew : BOOLEAN, failed : BOOLEAN]
    BY FreshReader DEF Init
  <2>5. readError \in BOOLEAN
    BY DEF Init
  <2> QED BY <2>2, <2>3, <2>4, <2>5 DEF TypeOK
<1>2. LockInv /\ CursorInv
  BY MailboxAssumption
     DEF Init, LockInv, CursorInv, Alive, Holding, Publishing, Clients
<1>3. ~NoGateway.requiresNew /\ ~NoGateway.failed /\ NoGateway.rev = 0 /\ NoGateway.id = 0
  BY DEF NoGateway
<1>4. Absent.rev = 0 /\ Absent.id = 0
  BY DEF Absent
<1>5. ReaderInv
  <2>1. seen = Absent /\ file = Absent /\ gateway = NoGateway
    BY DEF Init
  <2>2. seen.rev <= file.rev /\ gateway.rev <= seen.rev
    BY <1>3, <1>4, <2>1
  <2> QED BY <1>3, <1>4, <2>1, <2>2 DEF ReaderInv
<1> QED BY <1>1, <1>2, <1>5 DEF MailboxInv

(* A client step that leaves the file and the time alone.                   *)
LEMMA TypeClient ==
    ASSUME TypeOK,
           \/ \E p \in Producers : \/ Admit(p) \/ BeginMotion(p) \/ EndMotion(p)
                                   \/ Revoke(p)
           \/ \E s \in Stoppers : RequestStop(s)
           \/ \E c \in Clients : ClientStep(c) \/ Crash(c)
    PROVE TypeOK'
<1> USE MailboxAssumption DEF TypeOK, Clients, Steps, Modes, Files, readerVars
<1>1. CASE \E p \in Producers : Admit(p)
  BY <1>1 DEF Admit, Counted, Goto
<1>2. CASE \E p \in Producers : BeginMotion(p)
  BY <1>2 DEF BeginMotion, Counted, Begin, Goto
<1>3. CASE \E p \in Producers : EndMotion(p)
  BY <1>3 DEF EndMotion, Unwind, Begin, Goto
<1>4. CASE \E p \in Producers : Revoke(p)
  BY <1>4 DEF Revoke, Unwind, Begin, Goto, Release
<1>5. CASE \E s \in Stoppers : RequestStop(s)
  BY <1>5 DEF RequestStop, Counted, Begin, Goto
<1>6. CASE \E c \in Clients : BeginStop(c)
  BY <1>6 DEF BeginStop, Goto
<1>7. CASE \E c \in Clients : Stage(c)
  BY <1>7 DEF Stage, Goto
<1>8. CASE \E c \in Clients : Lock(c)
  BY <1>8 DEF Lock, Goto
<1>9. CASE \E c \in Clients : LockTimeout(c)
  BY <1>9 DEF LockTimeout, Unwind, Begin, Goto
<1>10. CASE \E c \in Clients : Check(c)
  BY <1>10 DEF Check, Goto
<1>11. CASE \E c \in Clients : Reject(c)
  BY <1>11 DEF Reject, Unwind, Begin, Goto, Release
<1>12. CASE \E c \in Clients : Replace(c)
  BY <1>12 DEF Replace, Goto, Release, Revision
<1>13. CASE \E c \in Clients : Crash(c)
  BY <1>13 DEF Crash, Goto, Release
<1> QED BY <1>1, <1>2, <1>3, <1>4, <1>5, <1>6, <1>7, <1>8, <1>9, <1>10, <1>11,
           <1>12, <1>13 DEF ClientStep

LEMMA TypeRuntime ==
    ASSUME TypeOK, ReaderPoll \/ ReaderFails \/ Snapshot \/ RestartRuntime \/ TimePasses
    PROVE TypeOK'
<1> USE MailboxAssumption DEF TypeOK, Clients, Steps, Modes, Files, clientVars
<1>1. CASE ReaderPoll
  BY <1>1 DEF ReaderPoll
<1>2. CASE ReaderFails
  BY <1>2 DEF ReaderFails
<1>3. CASE Snapshot
  <2>1. Obey(seen) \in Modes
    BY DEF Obey
  <2>2. command' \in Modes
    BY <1>3, <2>1 DEF Snapshot
  <2>3. gateway' \in [rev : Nat, id : Nat, requiresNew : BOOLEAN, failed : BOOLEAN]
    <3>1. CASE gateway' = [gateway EXCEPT !.failed = TRUE]
      BY <3>1
    <3>2. CASE gateway' = [gateway EXCEPT !.requiresNew = @ \/ gateway.rev # 0]
      <4>1. (gateway.requiresNew \/ gateway.rev # 0) \in BOOLEAN
        BY Zenon
      <4>2. gateway' = [gateway EXCEPT !.requiresNew = (gateway.requiresNew \/ gateway.rev # 0)]
        BY <3>2
      <4> QED BY <4>1, <4>2
    <3>3. CASE gateway' = [gateway EXCEPT !.rev = seen.rev, !.id = seen.id,
                                          !.requiresNew = FALSE]
      BY <3>3
    <3>4. CASE gateway' = gateway
      BY <3>4
    <3> QED BY <1>3, <3>1, <3>2, <3>3, <3>4 DEF Snapshot
  <2> QED BY <1>3, <2>2, <2>3 DEF Snapshot
<1>4. CASE RestartRuntime
  <2>1. FALSE \in BOOLEAN
    OBVIOUS
  <2> QED BY <1>4, <2>1, FreshReader DEF RestartRuntime
<1>5. CASE TimePasses
  <2> \A n \in -1 .. Ttl : Elapsed(n) \in -1 .. Ttl
    BY DEF Elapsed
  <2> \A n \in -1 .. Patience : Elapsed(n) \in -1 .. Patience
    BY DEF Elapsed
  <2> QED BY <1>5 DEF TimePasses
<1> QED BY <1>1, <1>2, <1>3, <1>4, <1>5

LEMMA TypeStep == ASSUME TypeOK, [Next]_vars PROVE TypeOK'
<1>1. CASE Next
  BY <1>1, TypeClient, TypeRuntime DEF Next
<1>2. CASE UNCHANGED vars
  BY <1>2 DEF vars, clientVars, readerVars, TypeOK
<1> QED BY <1>1, <1>2

-----------------------------------------------------------------------------
LEMMA LockStep == ASSUME MailboxInv, [Next]_vars PROVE LockInv'
<1> USE MailboxAssumption DEF MailboxInv, LockInv, Holding, Clients, readerVars
<1>0. TypeOK
  OBVIOUS
<1>t. pc \in [Clients -> Steps] /\ baseline \in [Clients -> Nat] /\ file.rev \in Nat
  BY <1>0 DEF TypeOK, Files
<1>1. CASE \E p \in Producers : Admit(p)
  BY <1>1, <1>t DEF Admit, Goto
<1>2. CASE \E p \in Producers : BeginMotion(p)
  BY <1>2, <1>t DEF BeginMotion, Begin, Goto
<1>3. CASE \E p \in Producers : EndMotion(p)
  BY <1>3, <1>t DEF EndMotion, Unwind, Begin, Goto
<1>4. CASE \E p \in Producers : Revoke(p)
  BY <1>4, <1>t DEF Revoke, Unwind, Begin, Goto, Release
<1>5. CASE \E s \in Stoppers : RequestStop(s)
  BY <1>5, <1>t DEF RequestStop, Begin, Goto
<1>6. CASE \E c \in Clients : BeginStop(c)
  BY <1>6, <1>t DEF BeginStop, Goto
<1>7. CASE \E c \in Clients : Stage(c)
  BY <1>7, <1>t DEF Stage, Goto
<1>8. CASE \E c \in Clients : Lock(c)
  BY <1>8, <1>t DEF Lock, Goto
<1>9. CASE \E c \in Clients : LockTimeout(c)
  BY <1>9, <1>t DEF LockTimeout, Unwind, Begin, Goto
<1>10. CASE \E c \in Clients : Check(c)
  BY <1>10, <1>t DEF Check, Goto, Superseded
<1>11. CASE \E c \in Clients : Reject(c)
  BY <1>11, <1>t DEF Reject, Unwind, Begin, Goto, Release
<1>12. CASE \E c \in Clients : Replace(c)
  BY <1>12, <1>t DEF Replace, Goto, Release
<1>13. CASE \E c \in Clients : Crash(c)
  BY <1>13, <1>t DEF Crash, Goto, Release
<1>14. CASE ReaderPoll \/ ReaderFails \/ Snapshot
  BY <1>14 DEF ReaderPoll, ReaderFails, Snapshot, clientVars
<1>15. CASE RestartRuntime
  BY <1>15, <1>t DEF RestartRuntime, clientVars, Absent
<1>16. CASE TimePasses
  <2>1. file'.rev = file.rev
    BY <1>16, <1>0 DEF TimePasses, TypeOK, Files
  <2> QED BY <1>16, <2>1 DEF TimePasses
<1>17. CASE UNCHANGED vars
  BY <1>17 DEF vars, clientVars
<1> QED BY <1>1, <1>2, <1>3, <1>4, <1>5, <1>6, <1>7, <1>8, <1>9, <1>10, <1>11,
           <1>12, <1>13, <1>14, <1>15, <1>16, <1>17 DEF ClientStep, Next

(* A commit raises the revision.                                            *)
LEMMA CommitRises ==
    ASSUME MailboxInv, NEW c \in Clients, Replace(c)
    PROVE file'.rev > file.rev /\ file'.rev = baseline[c] + 1 /\ file'.id = commits + 1
BY DEF MailboxInv, TypeOK, Files, LockInv, Replace, Revision

LEMMA CursorStep == ASSUME MailboxInv, [Next]_vars PROVE CursorInv'
<1> USE MailboxAssumption DEF CursorInv, Alive, Publishing, Clients, readerVars
<1>0. TypeOK /\ CursorInv
  BY DEF MailboxInv
<1>t. /\ pc \in [Clients -> Steps] /\ baseline \in [Clients -> Nat] /\ file.rev \in Nat
      /\ cursor \in [Clients -> Nat] /\ basis \in [Clients -> Nat]
      /\ op \in [Clients -> Modes] /\ file.id \in Nat /\ commits \in Nat
  BY <1>0 DEF TypeOK, Files
<1>1. CASE \E p \in Producers : Admit(p)
  BY <1>0, <1>1, <1>t DEF Admit, Goto
<1>2. CASE \E p \in Producers : BeginMotion(p)
  BY <1>0, <1>2, <1>t DEF BeginMotion, Begin, Goto
<1>3. CASE \E p \in Producers : EndMotion(p)
  BY <1>0, <1>3, <1>t DEF EndMotion, Unwind, Begin, Goto
<1>4. CASE \E p \in Producers : Revoke(p)
  BY <1>0, <1>4, <1>t DEF Revoke, Unwind, Begin, Goto, Release
<1>5. CASE \E s \in Stoppers : RequestStop(s)
  BY <1>0, <1>5, <1>t DEF RequestStop, Begin, Goto
<1>6. CASE \E c \in Clients : BeginStop(c)
  BY <1>0, <1>6, <1>t DEF BeginStop, Goto
<1>7. CASE \E c \in Clients : Stage(c)
  BY <1>0, <1>7, <1>t DEF Stage, Goto
<1>8. CASE \E c \in Clients : Lock(c)
  BY <1>0, <1>8, <1>t DEF Lock, Goto
<1>9. CASE \E c \in Clients : LockTimeout(c)
  BY <1>0, <1>9, <1>t DEF LockTimeout, Unwind, Begin, Goto
<1>10. CASE \E c \in Clients : Check(c)
  BY <1>0, <1>10, <1>t DEF Check, Goto
<1>11. CASE \E c \in Clients : Reject(c)
  BY <1>0, <1>11, <1>t DEF Reject, Unwind, Begin, Goto, Release
<1>12. ASSUME NEW c \in Clients, Replace(c) PROVE CursorInv'
  <2>1. file'.rev > file.rev /\ file'.rev = baseline[c] + 1 /\ file'.id = commits + 1
    BY <1>12, CommitRises
  <2> SUFFICES ASSUME NEW p \in Producers PROVE CursorInv!(p)'
    OBVIOUS
  <2>2. CASE p = c
    BY <1>0, <1>12, <1>t, <2>1, <2>2 DEF Replace, Goto, Revision
  <2>3. CASE p # c
    <3>1. UNCHANGED <<pc[p], op[p], cursor[p], baseline[p], basis[p], orphans>>
      BY <1>12, <1>t, <2>3 DEF Replace, Goto
    <3>2. file'.rev \in Nat
      BY <1>t, <2>1
    <3> QED BY <1>0, <1>t, <2>1, <3>1, <3>2
  <2> QED BY <2>2, <2>3
<1>13. CASE \E c \in Clients : Crash(c)
  BY <1>0, <1>13, <1>t DEF Crash, Goto
<1>14. CASE ReaderPoll \/ ReaderFails \/ Snapshot
  BY <1>0, <1>14 DEF ReaderPoll, ReaderFails, Snapshot, clientVars
<1>15. CASE RestartRuntime
  <2>1. UNCHANGED <<pc, op, cursor, baseline>>
    BY <1>15 DEF RestartRuntime
  <2>2. \A p \in Producers : Alive(p) => p \in orphans'
    BY <1>15 DEF RestartRuntime
  <2> QED BY <1>0, <2>1, <2>2
<1>16. CASE TimePasses
  <2>1. file'.rev = file.rev /\ file'.id = file.id
    BY <1>16, <1>0 DEF TimePasses, TypeOK, Files
  <2> QED BY <1>0, <1>16, <2>1 DEF TimePasses
<1>17. CASE UNCHANGED vars
  BY <1>0, <1>17 DEF vars, clientVars
<1> QED BY <1>1, <1>2, <1>3, <1>4, <1>5, <1>6, <1>7, <1>8, <1>9, <1>10, <1>11,
           <1>12, <1>13, <1>14, <1>15, <1>16, <1>17 DEF ClientStep, Next

-----------------------------------------------------------------------------
(* While the reader trails the file, the gateway distrusts nothing it sees.  *)
LEMMA SeenTrusted == ASSUME MailboxInv PROVE ~Untrusted(seen)
BY DEF MailboxInv, ReaderInv, Untrusted, TypeOK, Files

LEMMA ReaderStep == ASSUME MailboxInv, [Next]_vars PROVE ReaderInv'
<1>0. TypeOK /\ ReaderInv
  BY DEF MailboxInv
<1>t. /\ file.rev \in Nat /\ file.id \in Nat /\ seen.rev \in Nat /\ seen.id \in Nat
      /\ gateway.rev \in Nat /\ gateway.id \in Nat
      /\ gateway = [rev |-> gateway.rev, id |-> gateway.id,
                    requiresNew |-> gateway.requiresNew, failed |-> gateway.failed]
  BY <1>0 DEF TypeOK, Files
<1>1. CASE UNCHANGED <<file, readerVars>>
  BY <1>0, <1>1 DEF ReaderInv, readerVars
<1>2. CASE \E c \in Clients : Replace(c)
  <2>1. UNCHANGED readerVars /\ file'.rev > file.rev /\ file'.rev \in Nat
    <3>1. PICK c \in Clients : Replace(c)
      BY <1>2
    <3>2. file'.rev > file.rev /\ file'.rev = baseline[c] + 1
      BY <3>1, CommitRises
    <3>3. baseline[c] \in Nat
      BY <1>0 DEF TypeOK
    <3> QED BY <3>1, <3>2, <3>3 DEF Replace, readerVars
  <2> QED BY <1>0, <1>t, <2>1 DEF ReaderInv, readerVars
<1>3. CASE ReaderPoll
  BY <1>0, <1>t, <1>3 DEF ReaderPoll, ReaderInv
<1>4. CASE ReaderFails
  BY <1>0, <1>4 DEF ReaderFails, ReaderInv
<1>5. CASE Snapshot
  <2>1. UNCHANGED <<file, seen, readError>>
    BY <1>5 DEF Snapshot
  <2>2. CASE readError /\ gateway' = [gateway EXCEPT !.failed = TRUE]
    <3>1. /\ gateway'.rev = gateway.rev /\ gateway'.id = gateway.id
          /\ gateway'.requiresNew = gateway.requiresNew
      BY <2>2, <1>t
    <3> QED BY <1>0, <2>1, <2>2, <3>1 DEF ReaderInv
  <2>3. CASE /\ seen.rev = 0
             /\ gateway' = [gateway EXCEPT !.requiresNew = @ \/ gateway.rev # 0]
    <3>1. gateway.rev = 0
      BY <1>0, <1>t, <2>3 DEF ReaderInv
    <3>2. ~gateway'.requiresNew
      <4>1. gateway'.requiresNew <=> (gateway.requiresNew \/ gateway.rev # 0)
        BY <1>t, <2>3
      <4> QED BY <1>0, <3>1, <4>1 DEF ReaderInv
    <3>3. /\ gateway'.rev = gateway.rev /\ gateway'.id = gateway.id
          /\ gateway'.failed = gateway.failed
      BY <2>3, <1>t
    <3> QED BY <1>0, <2>1, <3>2, <3>3 DEF ReaderInv
  <2>4. CASE seen.rev > gateway.rev
             /\ gateway' = [gateway EXCEPT !.rev = seen.rev, !.id = seen.id,
                                           !.requiresNew = FALSE]
    <3>1. /\ gateway'.rev = seen.rev /\ gateway'.id = seen.id
          /\ gateway'.requiresNew = FALSE /\ gateway'.failed = gateway.failed
      BY <2>4, <1>t
    <3> QED BY <1>0, <1>t, <2>1, <3>1 DEF ReaderInv
  <2>5. CASE gateway' = gateway
    BY <1>0, <2>1, <2>5 DEF ReaderInv
  <2> QED BY <1>5, <2>2, <2>3, <2>4, <2>5, SeenTrusted DEF Snapshot
<1>6. CASE RestartRuntime
  BY <1>6 DEF RestartRuntime, ReaderInv, Absent, NoGateway
<1>7. CASE TimePasses
  <2>1. /\ file'.rev = file.rev /\ file'.id = file.id
        /\ seen'.rev = seen.rev /\ seen'.id = seen.id
    BY <1>7, <1>0 DEF TimePasses, TypeOK, Files
  <2> QED BY <1>0, <1>7, <2>1 DEF TimePasses, ReaderInv
<1>8. CASE \/ \E p \in Producers : Admit(p) \/ BeginMotion(p) \/ EndMotion(p) \/ Revoke(p)
           \/ \E s \in Stoppers : RequestStop(s)
           \/ \E c \in Clients : \/ BeginStop(c) \/ Stage(c) \/ Lock(c) \/ LockTimeout(c)
                                 \/ Check(c) \/ Reject(c) \/ Crash(c)
  BY <1>1, <1>8 DEF Admit, BeginMotion, EndMotion, Revoke, RequestStop, BeginStop,
     Stage, Lock, LockTimeout, Check, Reject, Crash
<1>9. CASE UNCHANGED vars
  BY <1>1, <1>9 DEF vars
<1> QED BY <1>2, <1>3, <1>4, <1>5, <1>6, <1>7, <1>8, <1>9 DEF ClientStep, Next

-----------------------------------------------------------------------------
(* The inductive invariant: lock discipline, cursors, reader.               *)
THEOREM Inductive == Spec => []MailboxInv
<1>1. MailboxInv /\ [Next]_vars => MailboxInv'
  <2> SUFFICES ASSUME MailboxInv, [Next]_vars PROVE MailboxInv'
    OBVIOUS
  <2>1. TypeOK'
    BY TypeStep DEF MailboxInv
  <2> QED BY <2>1, LockStep, CursorStep, ReaderStep DEF MailboxInv
<1> QED BY InitInv, <1>1, PTL DEF Spec

(* Every reachable state of the mailbox and of every process is well typed.  *)
THEOREM TypeCorrect == Spec => []TypeOK
<1>1. MailboxInv => TypeOK
  BY DEF MailboxInv
<1> QED BY Inductive, <1>1, PTL

(* Only a failed read ends the resident session, never the clients.         *)
THEOREM ClientsTrusted == Spec => []ClientsAreTrusted
<1>1. MailboxInv => ClientsAreTrusted
  BY DEF MailboxInv, ReaderInv, ClientsAreTrusted
<1> QED BY Inductive, <1>1, PTL

(* A heartbeat only replaces the publication its cursor was taken from, as    *)
(* long as no runtime start removed the mailbox since it took that cursor.   *)
THEOREM HeartbeatNeverRebases == Spec => NoStaleOverwrite
<1>1. ASSUME MailboxInv, [Next]_vars
      PROVE [\A p \in Producers : Commits(p) /\ p \notin orphans
               => file.id = basis[p]]_vars
  <2> SUFFICES ASSUME NEW p \in Producers, Next, pc[p] = "CHECKED",
                      pc'[p] = "RUNNING", p \notin orphans
               PROVE file.id = basis[p]
    BY <1>1 DEF vars, clientVars, Commits
  <2>1. TypeOK /\ LockInv /\ CursorInv /\ p \in Clients
    BY <1>1 DEF MailboxInv, Clients
  <2>t. pc \in [Clients -> Steps]
    BY <2>1 DEF TypeOK
  <2>2. op[p] = "MOTION"
    <3>1. \A q \in Producers : ~Admit(q) /\ ~BeginMotion(q) /\ ~EndMotion(q) /\ ~Revoke(q)
      BY <2>t, <2>1 DEF Admit, BeginMotion, EndMotion, Revoke, Unwind, Begin, Goto, Clients
    <3>2. \A s \in Stoppers : ~RequestStop(s)
      BY <2>t, <2>1 DEF RequestStop, Begin, Goto, Clients
    <3>3. \A c \in Clients : /\ ~BeginStop(c) /\ ~Stage(c) /\ ~Lock(c) /\ ~LockTimeout(c)
                             /\ ~Check(c) /\ ~Reject(c) /\ ~Crash(c)
      BY <2>t, <2>1 DEF BeginStop, Stage, Lock, LockTimeout, Check, Reject, Crash,
         Unwind, Begin, Goto
    <3>4. ~ReaderPoll /\ ~ReaderFails /\ ~Snapshot /\ ~RestartRuntime /\ ~TimePasses
      BY <2>1 DEF ReaderPoll, ReaderFails, Snapshot, RestartRuntime, TimePasses, clientVars
    <3>5. PICK c \in Clients : Replace(c)
      BY <3>1, <3>2, <3>3, <3>4 DEF Next, ClientStep
    <3> QED BY <2>t, <2>1, <3>5 DEF Replace, Goto
  <2>3. baseline[p] = cursor[p] /\ cursor[p] <= file.rev /\ baseline[p] >= file.rev
    BY <2>1, <2>2 DEF CursorInv, LockInv, Alive, Publishing
  <2>4. cursor[p] = file.rev
    BY <2>1, <2>3 DEF TypeOK, Files
  <2> QED BY <2>1, <2>2, <2>4 DEF CursorInv, Alive, Publishing
<1> QED BY Inductive, <1>1, PTL DEF Spec, NoStaleOverwrite

(* Committed revisions rise; only the removal takes them back.              *)
THEOREM RevisionsAlwaysRise == Spec => RevisionsRise
<1>1. ASSUME MailboxInv, [Next]_vars
      PROVE [file'.id # file.id => file'.rev > file.rev \/ file' = Absent]_vars
  <2> SUFFICES ASSUME Next, file'.id # file.id
               PROVE file'.rev > file.rev \/ file' = Absent
    BY <1>1
  <2>1. CASE \E c \in Clients : Replace(c)
    BY <1>1, <2>1, CommitRises
  <2>2. CASE RestartRuntime
    BY <2>2 DEF RestartRuntime
  <2>3. ~TimePasses
    BY <1>1 DEF TimePasses, MailboxInv, TypeOK, Files
  <2>4. \A c \in Clients :
          BeginStop(c) \/ Stage(c) \/ Lock(c) \/ LockTimeout(c) \/ Check(c) \/ Reject(c)
            \/ Crash(c) => file' = file
    BY DEF BeginStop, Stage, Lock, LockTimeout, Check, Reject, Crash
  <2>5. \A p \in Producers :
          Admit(p) \/ BeginMotion(p) \/ EndMotion(p) \/ Revoke(p) => file' = file
    BY DEF Admit, BeginMotion, EndMotion, Revoke
  <2>6. \A s \in Stoppers : RequestStop(s) => file' = file
    BY DEF RequestStop
  <2>7. ReaderPoll \/ ReaderFails \/ Snapshot => file' = file
    BY DEF ReaderPoll, ReaderFails, Snapshot
  <2> QED BY <2>1, <2>2, <2>3, <2>4, <2>5, <2>6, <2>7 DEF Next, ClientStep
<1> QED BY Inductive, <1>1, PTL DEF Spec, RevisionsRise
=============================================================================
