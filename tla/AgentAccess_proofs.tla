-------------------------- MODULE AgentAccess_proofs --------------------------
(***************************************************************************)
(* Proof that a rotation does not lock the agent out, about AgentToken and *)
(* from the invariants of AgentToken_proofs.                               *)
(*                                                                         *)
(* The argument counts time.  While the agent still has the token that a   *)
(* rotation replaced, the time that token has left and the age of the new  *)
(* token's command add up to RevokeTimeout (Counted).  The command was     *)
(* lost no later than a fault for each ClaimTimeout of its age, and is     *)
(* claimed again before the tick that would make it older (OnItsWay): when *)
(* the faults are used up the agent has it, and RevokeTimeout is longer.   *)
(*                                                                         *)
(* An older command that comes in between is refused, since the agent has  *)
(* the version of its token (Whole), and no tick passes until it is.       *)
(***************************************************************************)
EXTENDS AgentToken_proofs

Newest == Cardinality(TokensThere)

\* Ticks that f faults can cost.
Spent(f) == ClaimTimeout * f

\* Versions number the tokens in the order of their insertion.
Numbers ==
  /\ \A t \in TokensThere : tok[t].ver = t
  /\ \A a \in Admins :
       /\ req[a].pc = "issue" => req[a].ver = Newest + 1
       /\ req[a].pc = "push" => req[a].token = Newest /\ cmd[Newest].status = "none"

\* The file has what the process has, and the version that goes with the token
\* unless the token was just taken.
Whole ==
  /\ agent.tok = disk.tok /\ agent.ver = disk.ver
  /\ agent.pc # "version" => agent.ver = agent.tok \/ (agent.ver = 0 /\ agent.tok = 1)
  /\ ~agent.up => agent.pc = "idle" /\ agent.inbox = <<>>
  /\ agent.pc = "register" => agent.inbox = <<>>
  /\ agent.pc \in {"version", "ack"} => agent.inbox # <<>> /\ agent.tok = Head(agent.inbox)

\* Without commands in memory a reply has one command at most.
OneCommand == memq = <<>> /\ Len(agent.inbox) <= 1

\* The command of token n was not delivered yet.  It waits for the next poll,
\* which comes before a second tick.
Unsent(n) ==
  /\ cmd[n].status = "pending"
  /\ cmd[n].age = 0 \/ (cmd[n].age = 1 /\ ~polled /\ agent.inbox = <<>>)

\* The agent has it, and no time passes until it has handled it.
InHand(n) ==
  /\ cmd[n].status = "delivered" /\ cmd[n].since = 0
  /\ agent.inbox = <<n>>
  /\ cmd[n].age <= Spent(faults) + ClaimTimeout

\* It was delivered and lost.  It is delivered again by the first poll that
\* finds it due.
Lost(n) ==
  /\ cmd[n].status = "delivered"
  /\ agent.inbox # <<n>>
  /\ cmd[n].age <= Spent(faults) + cmd[n].since
  /\ cmd[n].since = ClaimTimeout => ~polled /\ agent.inbox = <<>>

OnItsWay(n) == Unsent(n) \/ InHand(n) \/ Lost(n)

\* A rotation that is in its second or third step, or over: token t was
\* replaced, and by which token.
InIssue(t) ==
  /\ t = Newest /\ tok[t].left = RevokeTimeout
  /\ \E a \in Admins : req[a].pc = "issue" /\ ~req[a].immediate

InPush(t) ==
  /\ t + 1 = Newest /\ tok[Newest].state = "live" /\ tok[t].left = RevokeTimeout
  /\ \E a \in Admins : req[a].pc = "push"

Counted(t) ==
  /\ t + 1 = Newest /\ tok[Newest].state = "live"
  /\ tok[t].left + cmd[Newest].age = RevokeTimeout
  /\ \A a \in Admins : req[a].pc = "idle"
  /\ OnItsWay(Newest)

Replaced(t) == tok[t].state = "pending" /\ (InIssue(t) \/ InPush(t) \/ Counted(t))

Kept == cut \/ tok[agent.tok].state = "live" \/ Replaced(agent.tok)

AccessInv ==
  /\ LastingInv /\ FinalInv /\ Numbers /\ Whole
  /\ Degraded \/ (OneCommand /\ Kept)

\* A rotation is requested after the last one is over, writes to the agent's
\* disk succeed and only the agent writes there, the environment sets no token,
\* and the timeouts are longer than all faults can cost.
Timely ==
  /\ \A a, b \in Admins : a = b
  /\ SkipProbe
  /\ "disk" \notin Faults /\ "edit" \notin Faults /\ "mismatch" \notin Faults
  /\ ~Pinned
  /\ RevokeTimeout > ClaimTimeout * (MaxFaults + 1)
  /\ CommandTtl > ClaimTimeout * (MaxFaults + 1)

\* The agent is not killed between the token and its version.
Untorn == agent.pc = "version" => agent'.up

Orderly == Next /\ Untorn

-----------------------------------------------------------------------------
(* Arithmetic.                                                              *)

LEMMA TimeOut ==
  ASSUME Timely, NEW f \in 0..MaxFaults
  PROVE  /\ Spent(f) \in Nat
         /\ Spent(f) + ClaimTimeout < RevokeTimeout
         /\ Spent(f) + ClaimTimeout < CommandTtl
<1>1. /\ ClaimTimeout \in Nat /\ MaxFaults \in Nat /\ f \in Nat /\ f <= MaxFaults
      /\ RevokeTimeout \in Nat /\ CommandTtl \in Nat
  BY ConstantsAssumption
<1>2. Spent(f) \in Nat
  BY <1>1 DEF Spent
<1>3. ClaimTimeout * (MaxFaults + 1) = Spent(f) + ClaimTimeout + ClaimTimeout * (MaxFaults - f)
  BY <1>1 DEF Spent
<1>4. ClaimTimeout * (MaxFaults - f) >= 0 /\ ClaimTimeout * (MaxFaults - f) \in Int
  <2>1. MaxFaults - f \in Nat
    BY <1>1
  <2>2. \A c, d \in Nat : c * d \in Nat
    OBVIOUS
  <2>. QED BY <1>1, <2>1, <2>2
<1>. QED BY <1>1, <1>2, <1>3, <1>4 DEF Timely

LEMMA SpentMore ==
  ASSUME NEW f \in Nat
  PROVE  Spent(f) \in Nat /\ Spent(f + 1) = Spent(f) + ClaimTimeout
BY ConstantsAssumption DEF Spent

\* A fault, or none.
LEMMA FaultCost ==
  ASSUME TypeOK
  PROVE  /\ faults \in Nat /\ Spent(faults) \in Nat /\ ClaimTimeout \in Nat \ {0}
         /\ \A kind : Fault(kind) => Spent(faults)' = Spent(faults) + ClaimTimeout
         /\ faults' = faults => Spent(faults)' = Spent(faults)
<1>1. faults \in Nat /\ ClaimTimeout \in Nat \ {0}
  BY ConstantsAssumption DEF TypeOK
<1>. QED BY <1>1, SpentMore DEF Fault, Spent

-----------------------------------------------------------------------------
(* Numbers.                                                                 *)

LEMMA NewestThere ==
  ASSUME TableInv
  PROVE  /\ Newest \in Tokens /\ Newest \in Nat \ {0} /\ TokensThere = 1..Newest
         /\ TokensThere \subseteq Tokens /\ Newest \in TokensThere
<1>1. PICK k \in Tokens : TokensThere = 1..k
  BY DEF TableInv, Numbered
<1>2. k \in Nat \ {0}
  BY ConstantTypes
<1>3. Cardinality(TokensThere) = k
  BY <1>1, <1>2, FS_Interval
<1>. QED BY <1>1, <1>2, <1>3 DEF Newest, TokensThere

\* The version that a rotation hands out is the number of its token.
LEMMA NextNumber ==
  ASSUME TableInv, Numbers
  PROVE  NextVersion = Newest + 1
<1> DEFINE S == {tok[t].ver : t \in TokensThere}
<1>1. S = TokensThere
  BY DEF Numbers
<1>2. S \in SUBSET (0..Newest) /\ S # {} /\ Newest \in S /\ Newest \in Nat
  <2> HIDE DEF S
  <2>1. TokensThere \subseteq 0..Newest /\ Newest \in TokensThere /\ Newest \in Nat
    BY NewestThere
  <2> QED BY <1>1, <2>1
<1>3. Max(S) \in S /\ \A v \in S : v <= Max(S)
  <2> HIDE DEF S
  <2> QED BY <1>2, MaxOfBounded
<1>4. Max(S) = Newest
  <2> HIDE DEF S
  <2>1. Max(S) \in 0..Newest /\ Newest <= Max(S)
    BY <1>2, <1>3
  <2> QED BY <1>2, <2>1
<1>. QED BY <1>4 DEF NextVersion

\* What an insertion changes, with one request at a time.
LEMMA IssueNewest ==
  ASSUME \A a, b \in Admins : a = b, TableInv, Numbers, NEW a \in Admins, Issue(a)
  PROVE  /\ Newest' = Newest + 1 /\ Newest' \in Tokens \ TokensThere
         /\ TokensThere' = TokensThere \cup {Newest'}
         /\ tok'[Newest'].state = "live" /\ tok'[Newest'].ver = Newest'
         /\ \A t \in TokensThere : tok'[t] = tok[t]
         /\ req[a].immediate => req'[a].pc = "idle"
         /\ ~req[a].immediate => /\ req'[a].pc = "push" /\ req'[a].token = Newest'
                                 /\ cmd' = cmd
         /\ cmd[Newest'].status = "none"
<1>1. PICK n \in Tokens \ TokensThere :
           /\ n = Newest + 1 /\ TokensThere' = 1..n /\ TokensThere' = TokensThere \cup {n}
           /\ tok'[n] = [state |-> "live", ver |-> req[a].ver, rot |-> req[a].rot, left |-> 0]
           /\ \A t \in Tokens \ {n} : tok'[t] = tok[t]
  BY IssueRow DEF Newest
<1>2. Newest' = n
  <2>1. n \in Nat \ {0}
    BY ConstantTypes
  <2>. QED BY <1>1, <2>1, FS_Interval DEF Newest
<1>3. tok'[n].state = "live" /\ tok'[n].ver = n
  BY <1>1 DEF Issue, Numbers
<1>4. cmd[n].status = "none"
  BY <1>1 DEF TableInv, Carried
<1>5. req \in [Admins -> Request]
  BY TypeParts DEF TableInv
<1>6. req[a].immediate => req'[a].pc = "idle"
  BY <1>5 DEF Issue, Idle
<1>7. ~req[a].immediate => req'[a].pc = "push" /\ req'[a].token = n /\ cmd' = cmd
  <2> SUFFICES ASSUME ~req[a].immediate PROVE req'[a].pc = "push" /\ req'[a].token = n /\ cmd' = cmd
    OBVIOUS
  <2>1. req' = [req EXCEPT ![a].pc = "push", ![a].token = n] /\ cmd' = cmd
    BY <1>1 DEF Issue, Newest
  <2>2. req'[a] = [req[a] EXCEPT !.pc = "push", !.token = n]
    BY <1>5, <2>1
  <2>. QED BY <1>5, <2>1, <2>2 DEF Request
<1>. QED BY <1>1, <1>2, <1>3, <1>4, <1>6, <1>7 DEF TokensThere

LEMMA NewestStays ==
  ASSUME SameRows \/ tok' = tok
  PROVE  Newest' = Newest /\ TokensThere' = TokensThere
<1>1. TokensThere' = TokensThere
  BY SameThere DEF TokensThere
<1>. QED BY <1>1 DEF Newest

LEMMA NumbersStep ==
  ASSUME \A a, b \in Admins : a = b, TableInv, Numbers, [Next]_vars
  PROVE  Numbers'
<1>1. req \in [Admins -> Request] /\ tok \in [Tokens -> Token]
  BY TypeParts DEF TableInv
<1>2. CASE Others
  <2>1. SameRows /\ SameCommands /\ req' = req
    BY <1>2, OthersQuiet DEF Quiet
  <2>2. Newest' = Newest /\ TokensThere' = TokensThere /\ Newest \in Tokens /\ TokensThere \subseteq Tokens
    BY <2>1, NewestStays, NewestThere
  <2>. QED BY <2>1, <2>2 DEF Numbers, SameRows, SameCommands
<1>3. CASE Crash
  <2>1. tok' = tok /\ \A a \in Admins : req'[a].pc = "idle"
    BY <1>3 DEF Crash, Idle
  <2>. QED BY <2>1, NewestStays DEF Numbers
<1>4. CASE UNCHANGED vars
  BY <1>4 DEF vars, Numbers, Newest, TokensThere
<1>5. ASSUME NEW a \in Admins, Push(a) PROVE Numbers'
  <2>1. tok' = tok /\ req'[a].pc = "idle"
    BY <1>1, <1>5 DEF Push, Idle
  <2>2. \A b \in Admins : req'[b].pc = "idle"
    BY <2>1
  <2>. QED BY <2>1, <2>2, NewestStays DEF Numbers
<1>6. ASSUME NEW a \in Admins, NEW i \in BOOLEAN, Rotate(a, i) PROVE Numbers'
  <2>1. SameRows
    BY <1>6, RotateRows DEF TableInv
  <2>2. Newest' = Newest /\ TokensThere' = TokensThere /\ TokensThere \subseteq Tokens
    BY <2>1, NewestStays, NewestThere
  <2>3. req'[a].pc = "issue" /\ req'[a].ver = Newest + 1
    <3>1. req' = [req EXCEPT ![a] = [pc |-> "issue", rot |-> nrot + 1, token |-> 0,
                                     ver |-> NextVersion, immediate |-> i]]
      BY <1>6 DEF Rotate
    <3>. QED BY <1>1, <3>1, NextNumber
  <2>4. \A b \in Admins : req'[b].pc = "issue" /\ req'[b].ver = Newest' + 1
    BY <2>2, <2>3
  <2>. QED BY <2>1, <2>2, <2>4 DEF Numbers, SameRows
<1>7. ASSUME NEW a \in Admins, Issue(a) PROVE Numbers'
  <2>1. /\ Newest' = Newest + 1 /\ TokensThere' = TokensThere \cup {Newest'}
        /\ tok'[Newest'].ver = Newest' /\ \A t \in TokensThere : tok'[t] = tok[t]
        /\ req[a].immediate => req'[a].pc = "idle"
        /\ ~req[a].immediate => req'[a].pc = "push" /\ req'[a].token = Newest' /\ cmd' = cmd
        /\ cmd[Newest'].status = "none"
    BY <1>7, IssueNewest
  <2>2. \A t \in TokensThere' : tok'[t].ver = t
    BY <2>1 DEF Numbers
  <2>3. \A b \in Admins : req'[b] = req'[a]
    BY <2>1
  <2>4. /\ req'[a].pc = "idle" \/ req'[a].pc = "push"
        /\ req'[a].pc = "push" => req'[a].token = Newest' /\ cmd'[Newest'].status = "none"
    BY <2>1
  <2>. QED BY <2>2, <2>3, <2>4 DEF Numbers
<1>. QED BY <1>2, <1>3, <1>4, <1>5, <1>6, <1>7, NextParts

-----------------------------------------------------------------------------
(* The agent's process and file.                                            *)

\* A delivery, a refusal or the end of a confirmation.
LEMMA RestsSame ==
  ASSUME TableInv, agent' = Done \/ AckFailed \/ \E reply : Delivered(reply)
  PROVE  /\ agent'.tok = agent.tok /\ agent'.ver = agent.ver /\ agent'.up = agent.up
         /\ agent'.pc = "idle" \/ (agent'.pc = agent.pc /\ agent'.inbox = agent.inbox)
<1>1. agent \in Process
  BY TypeParts DEF TableInv
<1>2. CASE agent' = Done
  BY <1>1, <1>2 DEF Done, Process
<1>3. CASE \E reply : Delivered(reply)
  BY <1>1, <1>3 DEF Delivered, Process
<1>4. CASE agent' = [agent EXCEPT !.tries = agent.tries + 1]
  BY <1>1, <1>4 DEF Process
<1>. QED BY <1>2, <1>3, <1>4 DEF AckFailed

LEMMA WholeStep ==
  ASSUME Timely, TableInv, Numbers, Whole, Orderly
  PROVE  Whole'
<1>1. /\ agent \in Process /\ disk \in ConfigFile /\ agent.inbox \in Seq(TokensThere)
      /\ tok \in [Tokens -> Token]
  BY TypeParts DEF TableInv, Carried
<1>2. ~Fault("disk")
  BY DEF Fault, Timely
<1>3. CASE UNCHANGED <<agent, disk>>
  BY <1>3 DEF Whole
<1>4. CASE Poll \/ Register \/ Refuse \/ Ack
  <2>1. disk' = disk /\ agent.up /\ agent.pc # "version"
    BY <1>4 DEF Poll, Register, Refuse, Handling, Ack
  <2>2. agent' = agent \/ agent' = Done \/ AckFailed \/ \E reply : Delivered(reply)
    <3>1. CASE Poll
      BY <3>1, Zenon DEF Poll
    <3>2. CASE Register
      BY <3>2, Zenon DEF Register
    <3>3. CASE Refuse
      BY <3>3, Zenon DEF Refuse
    <3>4. CASE Ack
      BY <3>4, Zenon DEF Ack
    <3>. QED BY <1>4, <3>1, <3>2, <3>3, <3>4
  <2>. QED BY <1>3, <2>1, <2>2, RestsSame DEF Whole
<1>5. CASE Kill
  <2>1. agent' = [agent EXCEPT !.up = FALSE, !.pc = "idle", !.inbox = <<>>, !.tries = 0] /\ disk' = disk
    BY <1>5 DEF Kill, Stopped
  <2>2. /\ agent'.up = FALSE /\ agent'.tok = agent.tok /\ agent'.ver = agent.ver
        /\ agent'.pc = "idle" /\ agent'.inbox = <<>>
    BY <1>1, <2>1 DEF Process
  <2>3. agent.pc # "version"
    BY <2>2 DEF Orderly, Untorn
  <2>. QED BY <2>1, <2>2, <2>3 DEF Whole
<1>6. CASE Boot
  <2>. Started = disk.tok
    BY DEF Started, Timely
  <2>1. PICK v \in Versions :
          /\ agent' = [up |-> TRUE, pc |-> "register", tok |-> disk.tok, ver |-> v,
                       inbox |-> <<>>, tries |-> 0]
          /\ \/ disk' = disk /\ v = disk.ver
             \/ /\ disk' = [tok |-> disk.tok, ver |-> v]
                /\ v = tok[disk.tok].ver /\ Valid(disk.tok)
    BY <1>2, <1>6 DEF Boot, Save, files
  <2>2. /\ agent'.tok = disk.tok /\ agent'.ver = v /\ agent'.pc = "register" /\ agent'.up
        /\ agent'.inbox = <<>> /\ ~agent.up /\ disk'.tok = disk.tok /\ disk'.ver = v
    BY <1>6, <2>1 DEF Boot
  <2>3. Valid(disk.tok) => tok[disk.tok].ver = disk.tok
    BY <1>1 DEF Valid, Numbers, TokensThere, ConfigFile
  <2>. QED BY <2>1, <2>2, <2>3 DEF Whole
<1>7. CASE TakeToken
  <2> DEFINE h == Head(agent.inbox)
  <2>1. agent.up /\ agent.inbox # <<>> /\ h \in Tokens
    <3>1. agent.up /\ agent.inbox # <<>>
      BY <1>7 DEF TakeToken, Handling
    <3>2. h \in TokensThere
      BY <1>1, <3>1
    <3>. QED BY <3>1, <3>2 DEF TokensThere
  <2>2. agent' = [agent EXCEPT !.tok = h, !.pc = "version"] /\ disk' = [tok |-> h, ver |-> agent.ver]
    BY <1>2, <1>7 DEF TakeToken
  <2>3. /\ agent'.tok = h /\ agent'.ver = agent.ver /\ agent'.pc = "version" /\ agent'.inbox = agent.inbox
        /\ agent'.up /\ disk'.tok = h /\ disk'.ver = agent.ver
    BY <1>1, <2>1, <2>2 DEF Process
  <2>. QED BY <2>1, <2>3 DEF Whole
<1>8. CASE TakeVersion
  <2> DEFINE h == Head(agent.inbox)
  <2>1. agent.up /\ agent.pc = "version" /\ agent.inbox # <<>> /\ h \in TokensThere /\ agent.tok = h
    <3>1. agent.up /\ agent.pc = "version" /\ agent.inbox # <<>> /\ agent.tok = h
      BY <1>8 DEF TakeVersion, Whole
    <3>2. h \in TokensThere
      BY <1>1, <3>1
    <3>. QED BY <3>1, <3>2
  <2>2. tok[h].ver = h
    BY <2>1 DEF Numbers
  <2>3. agent' = [agent EXCEPT !.ver = h, !.pc = "ack"] /\ disk' = [tok |-> agent.tok, ver |-> h]
    BY <1>2, <1>8, <2>2 DEF TakeVersion, Save
  <2>4. /\ agent'.tok = agent.tok /\ agent'.ver = h /\ agent'.pc = "ack" /\ agent'.inbox = agent.inbox
        /\ agent'.up = agent.up /\ disk'.tok = agent.tok /\ disk'.ver = h
    BY <1>1, <2>3 DEF Process
  <2>. QED BY <2>1, <2>4 DEF Whole
<1>9. UNCHANGED <<agent, disk>> \/ Poll \/ Register \/ Refuse \/ Ack \/ Kill \/ Boot \/ TakeToken \/ TakeVersion
  <2>1. CASE RevokeAll \/ Cleanup \/ Tick \/ Report \/ Crash
    BY <2>1 DEF RevokeAll, Cleanup, Tick, Report, Crash
  <2>2. CASE \E a \in Admins : Issue(a) \/ Push(a) \/ \E i \in BOOLEAN : Rotate(a, i)
    BY <2>2 DEF Issue, Push, Rotate
  <2>. QED BY <2>1, <2>2, NextParts DEF Orderly, Timely, EditConfig, EditDropped, Fault, Others
<1>. QED BY <1>3, <1>4, <1>5, <1>6, <1>7, <1>8, <1>9

-----------------------------------------------------------------------------
(* Commands.                                                                *)

\* A command that was kept in memory stays on record.

\* Commands that are not due are left alone, and with none in memory a reply
\* has the one that is claimed, if any.
LEMMA ClaimOne ==
  ASSUME TableInv, NEW reply, Claim(reply)
  PROVE  /\ \A t \in Tokens \ Claimable : cmd'[t] = cmd[t]
         /\ memq' = <<>>
         /\ memq = <<>> => reply = <<>> \/ \E t \in Latest : reply = <<t>>
<1>1. \A t \in Latest : t \in Claimable /\ t \in Tokens
  BY DEF Latest, Claimable
<1>2. \A t \in Tokens \ Claimable : cmd'[t] = cmd[t]
  <2> SUFFICES ASSUME NEW t \in Tokens \ Claimable PROVE cmd'[t] = cmd[t]
    OBVIOUS
  <2>1. CASE cmd' = cmd
    BY <2>1
  <2>2. CASE cmd' = [u \in Tokens |-> IF u \in Claimable THEN [cmd[u] EXCEPT !.status = "expired"]
                                                       ELSE cmd[u]]
    BY <2>2
  <2>3. ASSUME NEW l \in Latest,
               cmd' = [u \in Tokens |->
                    CASE u = l -> [cmd[u] EXCEPT !.status = "delivered", !.since = 0]
                      [] u \in Claimable \ {l} -> [cmd[u] EXCEPT !.status = "expired"]
                      [] OTHER -> cmd[u]]
        PROVE  cmd'[t] = cmd[t]
    BY <1>1, <2>3
  <2>. QED BY <2>1, <2>2, <2>3, Zenon DEF Claim
<1>3. memq = <<>> => reply = <<>> \/ \E t \in Latest : reply = <<t>>
  <2> SUFFICES ASSUME memq = <<>> PROVE reply = <<>> \/ \E t \in Latest : reply = <<t>>
    OBVIOUS
  <2>1. reply = memq \/ \E t \in Latest : reply = memq \o <<t>>
    BY Zenon DEF Claim
  <2>2. \A t \in Latest : memq \o <<t>> = <<t>>
    BY <1>1
  <2>. QED BY <2>1, <2>2
<1>. QED BY <1>2, <1>3 DEF Claim

\* The newest command is the one that is claimed, as soon as it is due.
LEMMA ClaimNewest ==
  ASSUME TableInv, Numbers, memq = <<>>, tok[Newest].state = "live", NEW reply, Claim(reply)
  PROVE  \/ /\ Newest \in Claimable /\ reply = <<Newest>>
            /\ cmd'[Newest].status = "delivered" /\ cmd'[Newest].since = 0
            /\ cmd'[Newest].age = cmd[Newest].age
         \/ /\ Newest \notin Claimable /\ reply # <<Newest>>
            /\ cmd'[Newest] = cmd[Newest]
<1>1. /\ Newest \in Tokens /\ TokensThere = 1..Newest /\ Newest \in Nat /\ tok[Newest].ver = Newest
      /\ cmd \in [Tokens -> Command]
  BY NewestThere, TypeParts DEF Numbers, TableInv
<1>2. \A t \in Claimable : t \in 1..Newest /\ tok[t].ver = t
  <2>1. \A t \in Claimable : t \in TokensThere
    BY DEF Claimable, TableInv, Carried
  <2>. QED BY <1>1, <2>1 DEF Numbers
<1>3. ASSUME Newest \in Claimable, NEW t \in Latest PROVE t = Newest
  <2>1. t \in 1..Newest /\ tok[t].ver = t /\ tok[Newest].ver <= tok[t].ver
    BY <1>2, <1>3 DEF Latest
  <2>. QED BY <1>1, <2>1
<1>4. CASE Newest \notin Claimable
  <2>1. reply = <<>> \/ \E t \in Latest : reply = <<t>>
    BY ClaimOne
  <2>2. \A t \in Latest : t # Newest
    BY <1>4 DEF Latest
  <2>3. reply # <<Newest>>
    <3>1. CASE reply = <<>>
      BY <3>1
    <3>2. CASE \E t \in Latest : reply = <<t>>
      BY <2>2, <3>2
    <3>. QED BY <2>1, <3>1, <3>2
  <2>. QED BY <1>1, <1>4, <2>3, ClaimOne
<1>5. CASE Newest \in Claimable
  <2>1. Active(tok[Newest].ver)
    BY <1>1 DEF Active
  <2>2. PICK t \in Latest :
          IF Active(tok[t].ver)
          THEN /\ reply = memq \o <<t>>
               /\ cmd' = [u \in Tokens |->
                    CASE u = t -> [cmd[u] EXCEPT !.status = "delivered", !.since = 0]
                      [] u \in Claimable \ {t} -> [cmd[u] EXCEPT !.status = "expired"]
                      [] OTHER -> cmd[u]]
          ELSE /\ reply = memq
               /\ \/ cmd' = cmd
                  \/ cmd' = [u \in Tokens |-> IF u \in Claimable
                                              THEN [cmd[u] EXCEPT !.status = "expired"]
                                              ELSE cmd[u]]
    BY <1>5, Zenon DEF Claim
  <2>3. t = Newest
    BY <1>3, <1>5
  <2>4. reply = memq \o <<Newest>> /\ cmd'[Newest] = [cmd[Newest] EXCEPT !.status = "delivered", !.since = 0]
    BY <1>1, <2>1, <2>2, <2>3
  <2>5. reply = <<Newest>>
    BY <1>1, <2>4
  <2>. QED BY <1>1, <1>5, <2>4, <2>5 DEF Command
<1>. QED BY <1>4, <1>5

\* A command that was kept in memory stays on record.
LEMMA DegradedStays ==
  ASSUME \A a, b \in Admins : a = b, TableInv, Numbers, Next, Degraded
  PROVE  Degraded'
<1>1. PICK t \in Tokens : cmd[t].status = "memory"
  BY DEF Degraded
<1>2. t \notin Claimable
  BY <1>1 DEF Claimable
<1> SUFFICES cmd'[t] = cmd[t]
  BY <1>1 DEF Degraded
<1>3. CASE \E reply : Claim(reply)
  BY <1>2, <1>3, ClaimOne
<1>4. CASE cmd' = cmd
  BY <1>4
<1>5. CASE Tick
  BY <1>1, <1>5 DEF Tick
<1>6. ASSUME NEW a \in Admins, Push(a) PROVE cmd'[t] = cmd[t]
  <2>1. \A u \in Tokens \ {req[a].token} : cmd'[u] = cmd[u]
    BY <1>6, PushCommand
  <2>2. cmd[req[a].token].status = "none"
    BY <1>6 DEF Push, Numbers
  <2>. QED BY <1>1, <2>1, <2>2
<1>7. ASSUME NEW a \in Admins, Issue(a) PROVE cmd'[t] = cmd[t]
  <2>1. cmd[Newest + 1].status = "none"
    BY <1>7, IssueNewest
  <2>2. cmd' = cmd \/ cmd' = [cmd EXCEPT ![Newest + 1].status = "manual"]
    BY <1>7 DEF Issue, Newest
  <2>. QED BY <1>1, <2>1, <2>2, TypeParts DEF TableInv
<1>8. CASE Poll \/ Register \/ Ack \/ Report
  BY <1>3, <1>4, <1>8, Zenon DEF Poll, Register, Ack, Report
<1>9. CASE Boot \/ Refuse \/ TakeToken \/ TakeVersion \/ Kill \/ EditConfig \/ EditDropped \/ RevokeAll \/ Cleanup \/ Crash
  BY <1>4, <1>9 DEF Boot, Refuse, TakeToken, TakeVersion, Kill, EditConfig, EditDropped, Save, Stopped, RevokeAll, Cleanup, Crash
<1>10. CASE \E a \in Admins, i \in BOOLEAN : Rotate(a, i)
  BY <1>4, <1>10 DEF Rotate
<1>. QED BY <1>5, <1>6, <1>7, <1>8, <1>9, <1>10, NextParts DEF Others

LEMMA OneCommandStep ==
  ASSUME TableInv, OneCommand, Next, ~Degraded'
  PROVE  OneCommand'
<1>1. agent \in Process /\ agent.inbox \in Seq(Tokens) /\ cmd \in [Tokens -> Command]
  BY TypeParts DEF TableInv, Process
<1>2. CASE UNCHANGED <<memq, agent>>
  BY <1>2 DEF OneCommand
<1>3. \A t : Len(<<t>>) = 1
  OBVIOUS
<1>4. CASE Poll \/ Register \/ Ack \/ Report
  <2>1. memq' = <<>>
    BY <1>4, ClaimOne, Zenon DEF Poll, Register, Ack, Report, OneCommand
  <2>2. ASSUME NEW reply, Delivered(reply), Claim(reply) PROVE Len(agent'.inbox) <= 1
    <3>1. agent'.inbox = reply
      BY <1>1, <2>2 DEF Delivered, Process
    <3>2. reply = <<>> \/ \E t \in Latest : reply = <<t>>
      BY <2>2, ClaimOne DEF OneCommand
    <3>. QED BY <3>1, <3>2
  <2>3. ASSUME Delivered(<<>>) PROVE Len(agent'.inbox) <= 1
    BY <1>1, <2>3 DEF Delivered, Process
  <2>4. ASSUME agent' = Done, agent.inbox # <<>> PROVE Len(agent'.inbox) <= 1
    <3>1. agent'.inbox = Tail(agent.inbox)
      BY <1>1, <2>4 DEF Done, Process
    <3>. QED BY <1>1, <2>4, <3>1 DEF OneCommand
  <2>5. ASSUME agent' = [agent EXCEPT !.tries = agent.tries + 1] PROVE Len(agent'.inbox) <= 1
    BY <1>1, <2>5 DEF OneCommand, Process
  <2>6. agent.inbox # <<>> \/ ~Ack
    BY DEF Ack, TableInv, Carried
  <2>7. CASE Ack
    <3>1. agent' = Done \/ agent' = [agent EXCEPT !.tries = agent.tries + 1]
      BY <2>7, Zenon DEF Ack, AckFailed
    <3>. QED BY <2>1, <2>4, <2>5, <2>6, <2>7, <3>1 DEF OneCommand
  <2>8. CASE Register
    <3>1. Delivered(<<>>) \/ \E reply : Delivered(reply) /\ Claim(reply)
      BY <2>8, Zenon DEF Register
    <3>. QED BY <2>1, <2>2, <2>3, <3>1 DEF OneCommand
  <2>9. CASE Poll \/ Report
    <3>1. agent' = agent \/ \E reply : Delivered(reply) /\ Claim(reply)
      BY <2>9, Zenon DEF Poll, Report
    <3>. QED BY <2>1, <2>2, <3>1 DEF OneCommand
  <2>. QED BY <1>4, <2>7, <2>8, <2>9
<1>5. CASE Boot \/ Kill \/ EditConfig \/ EditDropped
  <2>1. memq' = memq
    BY <1>5 DEF Boot, Kill, EditConfig, EditDropped, Stopped
  <2>2. agent'.inbox = <<>>
    <3>1. CASE Boot
      BY <3>1 DEF Boot
    <3>2. CASE Kill \/ EditConfig \/ EditDropped
      BY <1>1, <3>2 DEF Kill, EditConfig, EditDropped, Stopped, Process
    <3>. QED BY <1>5, <3>1, <3>2
  <2>. QED BY <2>1, <2>2 DEF OneCommand
<1>6. CASE Refuse
  <2>1. agent'.inbox = Tail(agent.inbox) /\ agent.inbox # <<>> /\ memq' = memq
    BY <1>1, <1>6 DEF Refuse, Handling, Done, Process
  <2>. QED BY <1>1, <2>1 DEF OneCommand
<1>7. CASE TakeToken \/ TakeVersion
  <2>1. agent'.inbox = agent.inbox /\ memq' = memq
    BY <1>1, <1>7 DEF TakeToken, TakeVersion, Process
  <2>. QED BY <2>1 DEF OneCommand
<1>8. ASSUME NEW a \in Admins, Push(a) PROVE OneCommand'
  <2> DEFINE t == req[a].token
  <2>1. t \in Tokens /\ agent' = agent
    BY <1>8, PushCommand DEF Push
  <2>2. memq' = memq
    <3>1. ASSUME cmd' = [cmd EXCEPT ![t] = [NoCommand EXCEPT !.status = "memory", !.rot = req[a].rot]]
          PROVE  FALSE
      <4>1. cmd'[t].status = "memory"
        BY <1>1, <2>1, <3>1 DEF NoCommand
      <4>. QED BY <2>1, <4>1 DEF Degraded
    <3>. QED BY <1>8, <3>1 DEF Push
  <2>. QED BY <2>1, <2>2 DEF OneCommand
<1>9. CASE Crash
  BY <1>9 DEF Crash, OneCommand
<1>10. CASE RevokeAll \/ Cleanup \/ Tick \/ \E a \in Admins : Issue(a) \/ \E i \in BOOLEAN : Rotate(a, i)
  <2>1. UNCHANGED <<memq, agent>>
    BY <1>10 DEF RevokeAll, Cleanup, Tick, Issue, Rotate
  <2>. QED BY <1>2, <2>1
<1>. QED BY <1>4, <1>5, <1>6, <1>7, <1>8, <1>9, <1>10, NextParts DEF Others

-----------------------------------------------------------------------------
(* The newest command on its way.                                           *)

\* What the steps below start from: the agent has the token before the newest.
Behind(n) ==
  /\ AccessInv /\ ~Degraded
  /\ n = Newest /\ tok[agent.tok].state = "pending" /\ Counted(agent.tok)

LEMMA BehindFacts ==
  ASSUME Timely, NEW n, Behind(n)
  PROVE  /\ n \in Tokens /\ n \in Nat /\ agent.tok \in Nat /\ agent.tok # n /\ agent.tok + 1 = n
         /\ tok[n].state = "live" /\ tok[n].ver = n /\ cmd[n] \in Command
         /\ cmd[n].age \in Nat /\ cmd[n].since \in 0..ClaimTimeout /\ ClaimTimeout \in Nat \ {0}
         /\ Spent(faults) \in Nat /\ cmd[n].age <= Spent(faults) + ClaimTimeout
         /\ cmd[n].age < CommandTtl /\ tok[agent.tok].left > 0
         /\ Valid(agent.tok)
         /\ n \in Claimable <=> cmd[n].status = "pending" \/ cmd[n].since = ClaimTimeout
         /\ cmd[n].status = "pending" => cmd[n].age <= 1
         /\ agent.inbox \in Seq(Tokens) /\ Len(agent.inbox) <= 1 /\ memq = <<>>
<1>1. /\ TableInv /\ TypeOK /\ Numbers /\ OneCommand /\ Counted(agent.tok) /\ n = Newest
      /\ OnItsWay(n)
  BY DEF Behind, AccessInv, FinalInv, TableInv, Counted
<1>2. /\ n \in Tokens /\ n \in Nat /\ tok[n].ver = n /\ cmd[n] \in Command /\ agent \in Process
  BY <1>1, NewestThere, TypeParts DEF Numbers
<1>3. agent.tok \in Nat /\ agent.inbox \in Seq(Tokens)
  BY <1>2, ConstantTypes DEF Process
<1>4. ClaimTimeout \in Nat \ {0} /\ CommandTtl \in Nat /\ RevokeTimeout \in Nat
  BY ConstantsAssumption
<1>5. cmd[n].age \in Nat /\ cmd[n].since \in 0..ClaimTimeout
  BY <1>2, <1>4 DEF Command
<1>6. /\ Spent(faults) \in Nat /\ Spent(faults) + ClaimTimeout < RevokeTimeout
      /\ Spent(faults) + ClaimTimeout < CommandTtl
  BY <1>1, TimeOut DEF TypeOK
<1>7. /\ cmd[n].age <= Spent(faults) + ClaimTimeout
      /\ cmd[n].status = "pending" => cmd[n].age <= 1
      /\ cmd[n].status = "pending" \/ cmd[n].status = "delivered"
  <2>1. CASE Unsent(n)
    BY <1>4, <1>6, <2>1 DEF Unsent
  <2>2. CASE InHand(n)
    BY <2>2 DEF InHand
  <2>3. CASE Lost(n)
    BY <1>4, <1>5, <1>6, <2>3 DEF Lost
  <2>. QED BY <1>1, <2>1, <2>2, <2>3 DEF OnItsWay
<1>8. tok[agent.tok].left \in Nat /\ tok[agent.tok].left + cmd[n].age = RevokeTimeout
  <2>1. tok[agent.tok].left \in Nat
    <3>1. agent.tok \in Tokens /\ tok \in [Tokens -> Token]
      BY <1>1, <1>2, TypeParts DEF Process
    <3>2. tok[agent.tok].left \in 0..RevokeTimeout
      BY <3>1 DEF Token
    <3>. QED BY <1>4, <3>2
  <2>. QED BY <1>1, <2>1 DEF Counted
<1>9. cmd[n].age < CommandTtl /\ tok[agent.tok].left > 0
  BY <1>4, <1>5, <1>6, <1>7, <1>8
<1>10. n \in Claimable <=> cmd[n].status = "pending" \/ cmd[n].since = ClaimTimeout
  BY <1>2, <1>4, <1>5, <1>7, <1>9 DEF Claimable
<1>11. agent.tok + 1 = n /\ agent.tok # n /\ tok[n].state = "live"
  BY <1>1, <1>2, <1>3 DEF Counted
<1>12. Valid(agent.tok)
  BY <1>9 DEF Behind, Valid
<1>. QED BY <1>1, <1>2, <1>3, <1>4, <1>5, <1>6, <1>7, <1>9, <1>10, <1>11, <1>12 DEF OneCommand

\* What a claim makes of the newest command, whoever it answers.
LEMMA ClaimAt ==
  ASSUME Timely, NEW n, Behind(n), NEW reply, Claim(reply)
  PROVE  /\ cmd'[n].age = cmd[n].age
         /\ \/ /\ n \in Claimable /\ reply = <<n>>
               /\ cmd'[n].status = "delivered" /\ cmd'[n].since = 0
            \/ /\ cmd[n].status = "delivered" /\ cmd[n].since # ClaimTimeout
               /\ reply # <<n>> /\ cmd'[n] = cmd[n]
<1>1. TableInv /\ Numbers /\ memq = <<>> /\ n = Newest /\ tok[n].state = "live"
  BY BehindFacts DEF Behind, AccessInv, FinalInv
<1>2. cmd[n].status = "pending" \/ cmd[n].status = "delivered"
  BY DEF Behind, Counted, OnItsWay, Unsent, InHand, Lost
<1>. QED BY <1>1, <1>2, ClaimNewest, BehindFacts

\* A claim whose answer is read, one whose answer is lost with a fault, and
\* steps that leave the commands alone.
LEMMA ReadClaim ==
  ASSUME Timely, NEW n, Behind(n), NEW reply, Claim(reply),
         agent.inbox = <<>>, agent'.inbox = reply, faults' = faults
  PROVE  cmd'[n].age = cmd[n].age /\ OnItsWay(n)'
<1>1. Spent(faults)' = Spent(faults)
  BY DEF Spent
<1>2. CASE n \in Claimable /\ reply = <<n>> /\ cmd'[n].status = "delivered" /\ cmd'[n].since = 0
  BY <1>1, <1>2, ClaimAt, BehindFacts DEF OnItsWay, InHand
<1>3. CASE /\ cmd[n].status = "delivered" /\ cmd[n].since # ClaimTimeout
           /\ reply # <<n>> /\ cmd'[n] = cmd[n]
  <2>1. Lost(n)
    BY <1>3 DEF Behind, Counted, OnItsWay, Unsent, InHand, Lost
  <2>. QED BY <1>1, <1>3, <2>1, ClaimAt DEF OnItsWay, Lost
<1>. QED BY <1>2, <1>3, ClaimAt

LEMMA LostClaim ==
  ASSUME Timely, NEW n, Behind(n), NEW reply, Claim(reply),
         NEW kind, Fault(kind), agent'.inbox = agent.inbox \/ agent'.inbox = <<>>
  PROVE  cmd'[n].age = cmd[n].age /\ OnItsWay(n)'
<1>1. Spent(faults)' = Spent(faults) + ClaimTimeout /\ TypeOK
  BY FaultCost DEF Behind, AccessInv, FinalInv, TableInv
<1>2. CASE n \in Claimable /\ cmd'[n].status = "delivered" /\ cmd'[n].since = 0
  <2>1. /\ cmd'[n].age <= Spent(faults)' + cmd'[n].since
        /\ cmd'[n].age <= Spent(faults)' + ClaimTimeout
        /\ cmd'[n].since # ClaimTimeout
    BY <1>1, <1>2, ClaimAt, BehindFacts
  <2>2. CASE agent'.inbox = <<n>>
    BY <1>2, <2>1, <2>2, ClaimAt DEF OnItsWay, InHand
  <2>3. CASE agent'.inbox # <<n>>
    BY <1>2, <2>1, <2>3, ClaimAt DEF OnItsWay, Lost
  <2>. QED BY <2>2, <2>3
<1>3. CASE cmd[n].status = "delivered" /\ cmd[n].since # ClaimTimeout /\ cmd'[n] = cmd[n]
  <2>1. CASE InHand(n)
    <3>1. cmd'[n].age <= Spent(faults)' + 0 /\ cmd'[n].age <= Spent(faults)' + ClaimTimeout
      BY <1>1, <1>3, BehindFacts
    <3>2. cmd'[n].since = 0
      BY <1>3, <2>1 DEF InHand
    <3>. QED BY <1>3, <3>1, <3>2 DEF OnItsWay, InHand, Lost
  <2>2. CASE Lost(n)
    <3>1. cmd'[n].age <= Spent(faults)' + cmd'[n].since
      BY <1>1, <1>3, <2>2, BehindFacts DEF Lost
    <3>2. agent'.inbox # <<n>>
      <4>1. <<>> # <<n>>
        OBVIOUS
      <4>. QED BY <2>2, <4>1 DEF Lost
    <3>. QED BY <1>3, <3>1, <3>2 DEF OnItsWay, Lost
  <2>. QED BY <1>3, <2>1, <2>2 DEF Behind, Counted, OnItsWay, Unsent
<1>. QED BY <1>2, <1>3, ClaimAt

LEMMA NoClaim ==
  ASSUME Timely, NEW n, Behind(n), UNCHANGED <<cmd, polled>>,
         faults' = faults \/ \E kind : Fault(kind),
         \/ agent'.inbox = agent.inbox
         \/ agent'.inbox = <<>> /\ (agent.inbox # <<n>> \/ \E kind : Fault(kind))
  PROVE  cmd'[n].age = cmd[n].age /\ OnItsWay(n)'
<1>1. /\ TypeOK
      /\ Spent(faults)' = Spent(faults) \/ Spent(faults)' = Spent(faults) + ClaimTimeout
      /\ (\E kind : Fault(kind)) => Spent(faults)' = Spent(faults) + ClaimTimeout
  BY FaultCost DEF Behind, AccessInv, FinalInv, TableInv
<1>2. <<>> # <<n>>
  OBVIOUS
<1>3. CASE Unsent(n)
  BY <1>3 DEF Unsent, OnItsWay
<1>4. CASE InHand(n)
  <2>1. cmd[n].age <= Spent(faults)' + ClaimTimeout
    BY <1>1, <1>4, BehindFacts DEF InHand
  <2>2. CASE agent'.inbox = <<n>>
    BY <1>4, <2>1, <2>2 DEF InHand, OnItsWay
  <2>3. CASE agent'.inbox = <<>> /\ \E kind : Fault(kind)
    <3>1. cmd[n].age <= Spent(faults)' + cmd[n].since /\ cmd[n].since # ClaimTimeout
      BY <1>1, <1>4, <2>3, BehindFacts DEF InHand
    <3>. QED BY <1>2, <1>4, <2>3, <3>1 DEF InHand, Lost, OnItsWay
  <2>. QED BY <1>4, <2>2, <2>3 DEF InHand
<1>5. CASE Lost(n)
  <2>1. cmd[n].age <= Spent(faults)' + cmd[n].since
    BY <1>1, <1>5, BehindFacts DEF Lost
  <2>2. agent'.inbox # <<n>> /\ (agent.inbox = <<>> => agent'.inbox = <<>>)
    BY <1>2, <1>5 DEF Lost
  <2>. QED BY <1>5, <2>1, <2>2 DEF Lost, OnItsWay
<1>. QED BY <1>3, <1>4, <1>5 DEF Behind, Counted, OnItsWay

\* A poll, a first message, a report whose answer is not read.
LEMMA AnswerWay ==
  ASSUME Timely, NEW n, Behind(n), Poll \/ Register \/ Report
  PROVE  cmd'[n].age = cmd[n].age /\ OnItsWay(n)'
<1>1. Valid(agent.tok) /\ agent \in Process /\ Whole
  BY BehindFacts, TypeParts DEF Behind, AccessInv, FinalInv, TableInv
<1>2. ASSUME NEW reply, Delivered(reply) PROVE agent'.inbox = reply
  BY <1>1, <1>2 DEF Delivered, Process
<1>3. CASE Poll
  <2>1. agent.inbox = <<>>
    BY <1>3 DEF Poll
  <2>2. PICK reply \in Replies : /\ Claim(reply)
                                 /\ \/ Delivered(reply) /\ UNCHANGED faults
                                    \/ Fault("reply") /\ UNCHANGED agent
    BY <1>1, <1>3 DEF Poll
  <2>3. CASE Delivered(reply) /\ UNCHANGED faults
    BY <1>2, <2>1, <2>2, <2>3, ReadClaim
  <2>4. CASE Fault("reply") /\ UNCHANGED agent
    BY <2>2, <2>4, LostClaim
  <2>. QED BY <2>2, <2>3, <2>4
<1>4. CASE Report
  <2>1. PICK reply \in Replies : Claim(reply)
    BY <1>4 DEF Report
  <2>2. Fault("report") /\ agent' = agent
    BY <1>4 DEF Report
  <2>. QED BY <2>1, <2>2, LostClaim
<1>5. CASE Register
  <2>1. agent.inbox = <<>>
    BY <1>1, <1>5 DEF Register, Whole
  <2>2. CASE \E reply \in Replies : Claim(reply) /\ Delivered(reply) /\ UNCHANGED faults
    <3>1. PICK reply \in Replies : Claim(reply) /\ Delivered(reply) /\ UNCHANGED faults
      BY <2>2
    <3>. QED BY <1>2, <2>1, <3>1, ReadClaim
  <2>3. CASE \E reply \in Replies : Claim(reply) /\ Fault("reply") /\ Delivered(<<>>)
    <3>1. PICK reply \in Replies : Claim(reply) /\ Fault("reply") /\ Delivered(<<>>)
      BY <2>3
    <3>. QED BY <1>2, <3>1, LostClaim
  <2>4. CASE Fault("request") /\ Delivered(<<>>) /\ UNCHANGED <<cmd, memq>>
    <3>1. polled' = polled /\ agent'.inbox = agent.inbox
      BY <1>2, <1>5, <2>1, <2>4 DEF Register
    <3>. QED BY <2>4, <3>1, NoClaim
  <2>. QED BY <1>5, <2>2, <2>3, <2>4, Zenon DEF Register
<1>. QED BY <1>3, <1>4, <1>5

\* A confirmation, of the token the agent has: what it claims is not read.
LEMMA AckWay ==
  ASSUME Timely, NEW n, Behind(n), Ack
  PROVE  cmd'[n].age = cmd[n].age /\ OnItsWay(n)'
<1>1. /\ agent \in Process /\ agent.inbox \in Seq(Tokens) /\ Len(agent.inbox) <= 1
      /\ agent.inbox # <<>> /\ agent.tok = Head(agent.inbox) /\ agent.tok # n
  <2>1. agent \in Process /\ Whole
    BY TypeParts DEF Behind, AccessInv, FinalInv, TableInv
  <2>. QED BY <2>1, BehindFacts DEF Ack, Whole
<1>2. agent.inbox # <<n>>
  BY <1>1
<1>3. agent'.inbox = agent.inbox \/ agent'.inbox = <<>>
  <2>1. CASE agent' = Done
    <3>1. agent'.inbox = Tail(agent.inbox)
      BY <1>1, <2>1 DEF Done, Process
    <3>2. Tail(agent.inbox) = <<>>
      BY <1>1
    <3>. QED BY <3>1, <3>2
  <2>2. CASE agent' = [agent EXCEPT !.tries = agent.tries + 1]
    BY <1>1, <2>2 DEF Process
  <2>. QED BY <2>1, <2>2, Zenon DEF Ack, AckFailed
<1>4. faults' = faults \/ \E kind : Fault(kind)
  BY Zenon DEF Ack
<1>5. CASE \E reply \in Replies : Claim(reply)
  <2>1. PICK reply \in Replies : Claim(reply)
    BY <1>5
  <2>2. agent'.inbox # <<n>>
    <3>1. <<>> # <<n>>
      OBVIOUS
    <3>. QED BY <1>2, <1>3, <3>1
  <2>3. /\ Spent(faults)' >= Spent(faults) /\ Spent(faults)' \in Nat /\ Spent(faults) \in Nat
        /\ ClaimTimeout \in Nat \ {0}
    BY <1>4, FaultCost DEF Behind, AccessInv, FinalInv, TableInv
  <2>4. CASE Unsent(n)
    <3>1. cmd[n].age = 0
      BY <1>1, <2>4 DEF Unsent
    <3>2. cmd'[n].status = "delivered" /\ cmd'[n].since = 0 /\ cmd'[n].age = 0
      BY <2>1, <2>4, <3>1, ClaimAt DEF Unsent
    <3>. QED BY <2>2, <2>3, <3>1, <3>2 DEF OnItsWay, Lost
  <2>5. CASE Lost(n)
    <3>1. cmd[n].since # ClaimTimeout /\ cmd[n].status = "delivered"
      BY <1>1, <2>5 DEF Lost
    <3>2. cmd'[n] = cmd[n]
      BY <2>1, <3>1, ClaimAt, BehindFacts
    <3>3. cmd[n].age <= Spent(faults)' + cmd[n].since
      BY <2>3, <2>5, BehindFacts DEF Lost
    <3>. QED BY <2>2, <3>1, <3>2, <3>3 DEF OnItsWay, Lost
  <2>. QED BY <1>2, <2>4, <2>5 DEF Behind, Counted, OnItsWay, InHand
<1>6. CASE cmd' = cmd
  <2>1. polled' = polled
    BY DEF Ack
  <2>. QED BY <1>2, <1>3, <1>4, <1>6, <2>1, NoClaim
<1>. QED BY <1>5, <1>6, Zenon DEF Ack

\* The agent's own steps, as long as it does not take the newest token.
LEMMA LocalWay ==
  ASSUME Timely, NEW n, Behind(n),
         Boot \/ Refuse \/ TakeVersion \/ Kill \/ Cleanup \/ Crash \/ (TakeToken /\ agent'.tok = agent.tok)
  PROVE  cmd'[n].age = cmd[n].age /\ OnItsWay(n)'
<1>1. /\ agent \in Process /\ agent.inbox \in Seq(Tokens) /\ Len(agent.inbox) <= 1 /\ Whole
  BY BehindFacts, TypeParts DEF Behind, AccessInv, FinalInv, TableInv
<1>2. UNCHANGED <<cmd, polled>>
  BY DEF Boot, Refuse, TakeVersion, Kill, Cleanup, Crash, TakeToken, Save
<1>3. faults' = faults \/ \E kind : Fault(kind)
  BY DEF Boot, Refuse, TakeVersion, Kill, Cleanup, Crash, TakeToken, Save
<1>4. CASE Refuse
  <2>1. agent'.inbox = Tail(agent.inbox) /\ agent.inbox # <<>> /\ agent.pc = "idle"
    BY <1>1, <1>4 DEF Refuse, Handling, Done, Process
  <2>2. agent'.inbox = <<>>
    BY <1>1, <2>1
  <2>3. agent.inbox # <<n>>
    <3> SUFFICES ASSUME agent.inbox = <<n>> PROVE FALSE
      OBVIOUS
    <3>1. ~Newer(n)
      BY <1>4 DEF Refuse, ProbePasses, Timely
    <3>2. agent.ver = agent.tok \/ (agent.ver = 0 /\ agent.tok = 1)
      BY <1>1, <2>1 DEF Whole
    <3>. QED BY <3>1, <3>2, BehindFacts DEF Newer
  <2>. QED BY <1>2, <1>3, <2>2, <2>3, NoClaim
<1>5. CASE Boot
  <2>1. agent'.inbox = <<>> /\ agent.inbox = <<>>
    BY <1>1, <1>5 DEF Boot, Whole
  <2>. QED BY <1>2, <1>3, <2>1, NoClaim
<1>6. CASE Kill
  <2>1. agent' = [agent EXCEPT !.up = FALSE, !.pc = "idle", !.inbox = <<>>, !.tries = 0] /\ Fault("kill")
    BY <1>6 DEF Kill, Stopped
  <2>2. agent'.inbox = <<>>
    BY <1>1, <2>1 DEF Process
  <2>. QED BY <1>2, <1>3, <2>1, <2>2, NoClaim
<1>7. CASE TakeVersion \/ TakeToken \/ Cleanup \/ Crash
  <2>1. agent'.inbox = agent.inbox
    BY <1>1, <1>7 DEF TakeVersion, TakeToken, Cleanup, Crash, Process, Save
  <2>. QED BY <1>2, <1>3, <2>1, NoClaim
<1>. QED BY <1>4, <1>5, <1>6, <1>7

\* A tick comes after a poll: what the poll found due it claimed.
LEMMA TickWay ==
  ASSUME Timely, NEW n, Behind(n), Tick, ~cut'
  PROVE  /\ OnItsWay(n)'
         /\ tok'[agent.tok].left + cmd'[n].age = tok[agent.tok].left + cmd[n].age
<1>1. agent.up /\ polled /\ agent.inbox = <<>>
  BY DEF Tick, Behind, AccessInv, Whole, Started, Timely
<1>2. polled' = FALSE /\ agent' = agent /\ faults' = faults
  BY DEF Tick
<1>3. /\ cmd[n].age \in Nat /\ cmd[n].since \in Nat /\ cmd[n].age < CommandTtl /\ cmd[n] \in Command
      /\ n \in Tokens /\ agent.tok \in Tokens /\ tok \in [Tokens -> Token]
      /\ tok[agent.tok].left > 0 /\ ClaimTimeout \in Nat \ {0} /\ Spent(faults) \in Nat
  BY BehindFacts, TypeParts DEF Behind, AccessInv, FinalInv, TableInv, Process
<1>4. tok'[agent.tok].left = tok[agent.tok].left - 1 /\ tok[agent.tok].left \in Nat
  <2>1. tok[agent.tok] \in Token /\ tok[agent.tok].left \in 0..RevokeTimeout
    BY <1>3 DEF Token
  <2>2. tok'[agent.tok] = [tok[agent.tok] EXCEPT !.left = Less(tok[agent.tok].left)]
    BY <1>3 DEF Tick, Behind
  <2>. QED BY <1>3, <2>1, <2>2, ConstantsAssumption DEF Token, Less
<1>5. CASE Unsent(n)
  <2>1. cmd[n].age = 0 /\ cmd[n].status = "pending"
    BY <1>1, <1>5 DEF Unsent
  <2>2. cmd'[n] = [cmd[n] EXCEPT !.age = More(cmd[n].age, CommandTtl), !.since = cmd[n].since]
    BY <1>3, <2>1 DEF Tick
  <2>3. cmd'[n].age = 1 /\ cmd'[n].status = "pending"
    BY <1>3, <2>1, <2>2 DEF Command, More
  <2>. QED BY <1>1, <1>2, <1>4, <2>1, <2>3 DEF OnItsWay, Unsent
<1>6. CASE Lost(n)
  <2>1. cmd[n].status = "delivered" /\ cmd[n].since # ClaimTimeout
    BY <1>1, <1>6 DEF Lost
  <2>2. cmd'[n] = [cmd[n] EXCEPT !.age = More(cmd[n].age, CommandTtl), !.since = More(cmd[n].since, ClaimTimeout)]
    BY <1>3, <2>1 DEF Tick
  <2>3. cmd'[n].age = cmd[n].age + 1 /\ cmd'[n].since = cmd[n].since + 1 /\ cmd'[n].status = "delivered"
    BY <1>3, <2>1, <2>2 DEF Command, More
  <2>4. cmd'[n].age <= Spent(faults)' + cmd'[n].since
    <3>1. Spent(faults)' = Spent(faults)
      BY <1>2 DEF Spent
    <3>. QED BY <1>3, <1>6, <2>3, <3>1 DEF Lost
  <2>5. agent'.inbox = <<>> /\ <<>> # <<n>>
    BY <1>1, <1>2
  <2>. QED BY <1>2, <1>3, <1>4, <2>3, <2>4, <2>5 DEF OnItsWay, Lost
<1>7. ~InHand(n)
  <2>1. <<>> # <<n>>
    OBVIOUS
  <2>. QED BY <1>1, <2>1 DEF InHand
<1>. QED BY <1>5, <1>6, <1>7 DEF Behind, Counted, OnItsWay

-----------------------------------------------------------------------------
(* The token the agent has.                                                 *)

\* Steps that neither touch the token the agent has, while it is valid, nor a
\* lasting one.
Steady == Poll \/ Register \/ Report \/ Ack \/ Boot \/ Refuse \/ TakeToken \/ TakeVersion \/ Kill
          \/ Cleanup \/ Crash

LEMMA OrderlyParts ==
  Timely /\ Orderly => Steady \/ Tick \/ RevokeAll
                       \/ \E a \in Admins : Issue(a) \/ Push(a) \/ \E i \in BOOLEAN : Rotate(a, i)
BY NextParts DEF Orderly, Timely, EditConfig, EditDropped, Fault, Others, Steady

LEMMA LiveIsNewest ==
  ASSUME AccessInv, NEW t \in Tokens, tok[t].state = "live"
  PROVE  t = Newest
<1>1. TableInv /\ Numbers /\ OneLastingToken
  BY DEF AccessInv, LastingInv
<1>2. /\ Newest \in TokensThere /\ t \in TokensThere /\ TokensThere = 1..Newest /\ Newest \in Nat
      /\ tok[t].ver = t /\ tok[Newest].ver = Newest
  <2>1. t \in TokensThere
    BY DEF TokensThere
  <2>. QED BY <1>1, <2>1, NewestThere DEF Numbers
<1> SUFFICES ASSUME t # Newest PROVE FALSE
  OBVIOUS
<1>3. tok[Newest].ver < tok[t].ver
  BY <1>1, <1>2 DEF OneLastingToken
<1>. QED BY <1>2, <1>3

\* A confirmation spares the token that it confirms, and every lasting one.
LEMMA SteadyRows ==
  ASSUME AccessInv, Steady
  PROVE  /\ Newest' = Newest
         /\ Valid(agent.tok) => tok'[agent.tok] = tok[agent.tok]
         /\ \A t \in Tokens : tok[t].state = "live" => tok'[t] = tok[t]
         /\ req' = req \/ (Crash /\ \A a \in Admins : req'[a].pc = "idle")
<1>1. /\ TableInv /\ Superseded /\ Whole /\ tok \in [Tokens -> Token] /\ agent \in Process
      /\ agent.tok \in Tokens
  <2>1. TableInv /\ Superseded /\ Whole
    BY DEF AccessInv, FinalInv
  <2>2. tok \in [Tokens -> Token] /\ agent \in Process
    BY <2>1, TypeParts DEF TableInv
  <2>. QED BY <2>1, <2>2 DEF Process
<1>2. \A t \in Tokens : tok[t].ver \in Nat
  BY <1>1, ConstantTypes DEF Token
<1>3. req' = req \/ (Crash /\ \A a \in Admins : req'[a].pc = "idle")
  BY DEF Steady, Poll, Register, Report, Ack, Boot, Refuse, TakeToken, TakeVersion, Kill, Cleanup, Crash, Idle, Save
<1>4. Newest' = Newest
  <2>1. SameRows \/ tok' = tok
    BY <1>1, OthersQuiet DEF Steady, Others, Quiet, Crash
  <2>. QED BY <2>1, NewestStays
<1>5. CASE tok' = tok
  BY <1>3, <1>4, <1>5
<1>6. CASE Ack
  <2>1. agent.tok = Head(agent.inbox)
    BY <1>1, <1>6 DEF Ack, Whole
  <2>2. CASE Confirm(cmd[agent.tok].rot)
    <3>1. CASE UNCHANGED <<tok, gone>>
      BY <1>5, <3>1
    <3>2. CASE \E u \in Tokens : /\ tok[u].state = "pending" /\ tok[u].rot = cmd[agent.tok].rot
                                 /\ tok' = [tok EXCEPT ![u].state = "revoked"]
      <4>1. PICK u \in Tokens : /\ tok[u].state = "pending" /\ tok[u].rot = cmd[agent.tok].rot
                                /\ tok' = [tok EXCEPT ![u].state = "revoked"]
        BY <3>2
      <4>2. tok[u].ver < tok[agent.tok].ver
        BY <1>1, <4>1 DEF Superseded, Older
      <4>3. u # agent.tok
        BY <1>1, <1>2, <4>2
      <4>4. \A t \in Tokens \ {u} : tok'[t] = tok[t]
        BY <1>1, <4>1
      <4>. QED BY <1>1, <1>3, <1>4, <4>1, <4>3, <4>4
    <3>. QED BY <2>2, <3>1, <3>2 DEF Confirm
  <2>. QED BY <1>5, <1>6, <2>1, <2>2 DEF Ack
<1>7. CASE Cleanup
  <2>1. \A t \in Tokens : ~(tok[t].state = "pending" /\ tok[t].left = 0) => tok'[t] = tok[t]
    BY <1>7 DEF Cleanup
  <2>2. Valid(agent.tok) => ~(tok[agent.tok].state = "pending" /\ tok[agent.tok].left = 0)
    BY DEF Valid
  <2>. QED BY <1>1, <1>3, <1>4, <2>1, <2>2
<1>. QED BY <1>5, <1>6, <1>7 DEF Steady, Poll, Register, Report, Boot, Refuse, TakeToken, TakeVersion, Kill, Crash

\* The agent takes no token but the newest, once it has one of the last two.
LEMMA TakesNewest ==
  ASSUME Timely, AccessInv, Orderly, agent.tok = Newest \/ agent.tok + 1 = Newest
  PROVE  agent'.tok = agent.tok \/ (TakeToken /\ agent'.tok = Newest)
<1>1. /\ TableInv /\ Numbers /\ Whole /\ agent \in Process /\ agent.tok \in Nat
      /\ agent.inbox \in Seq(TokensThere) /\ disk \in ConfigFile
  <2>1. TableInv /\ Numbers /\ Whole
    BY DEF AccessInv, LastingInv
  <2>2. agent \in Process /\ agent.inbox \in Seq(TokensThere) /\ disk \in ConfigFile
    BY <2>1, TypeParts DEF TableInv, Carried
  <2>. QED BY <2>1, <2>2, ConstantTypes DEF Process
<1>2. CASE TakeToken
  <2> DEFINE h == Head(agent.inbox)
  <2>1. agent.inbox # <<>> /\ agent.pc = "idle" /\ Newer(h)
    BY <1>2 DEF TakeToken, Handling
  <2>2. h \in TokensThere
    BY <1>1, <2>1
  <2>3. h \in 1..Newest /\ Newest \in Nat /\ tok[h].ver = h
    BY <1>1, <2>2, NewestThere DEF Numbers
  <2>4. agent.ver = agent.tok \/ (agent.ver = 0 /\ agent.tok = 1)
    BY <1>1, <2>1 DEF Whole
  <2>5. h = agent.tok \/ h = Newest
    <3> HIDE DEF h
    <3> QED BY <1>1, <2>1, <2>3, <2>4 DEF Newer
  <2>6. agent'.tok = h
    BY <1>1, <1>2 DEF TakeToken, Process
  <2>. QED BY <1>2, <2>5, <2>6
<1>3. CASE agent' = Done \/ AckFailed \/ \E reply : Delivered(reply)
  BY <1>1, <1>3, RestsSame
<1>4. CASE agent' = agent
  BY <1>4
<1>5. CASE Boot
  BY <1>1, <1>5 DEF Boot, Whole, Started, Timely
<1>6. CASE TakeVersion \/ Kill
  BY <1>1, <1>6 DEF TakeVersion, Kill, Stopped, Save, Process
<1>7. CASE Poll \/ Register \/ Refuse \/ Ack
  BY <1>3, <1>4, <1>7, Zenon DEF Poll, Register, Refuse, Ack
<1>8. CASE Report \/ Cleanup \/ Crash \/ Tick \/ RevokeAll
  BY <1>4, <1>8 DEF Report, Cleanup, Crash, Tick, RevokeAll
<1>9. CASE \E a \in Admins : Issue(a) \/ Push(a) \/ \E i \in BOOLEAN : Rotate(a, i)
  BY <1>4, <1>9 DEF Issue, Push, Rotate
<1>. QED BY <1>2, <1>5, <1>6, <1>7, <1>8, <1>9, OrderlyParts DEF Steady

\* From a token that lasts: a rotation replaces it, or it stays.
LEMMA LiveStep ==
  ASSUME Timely, AccessInv, Orderly, ~cut', NEW t, t = agent.tok, tok[t].state = "live"
  PROVE  \/ agent'.tok = t /\ tok'[t].state = "live"
         \/ agent'.tok = t /\ tok'[t].state = "pending" /\ InIssue(t)'
<1>1. /\ TableInv /\ TypeOK /\ Vacant /\ tok \in [Tokens -> Token] /\ req \in [Admins -> Request]
      /\ t \in Tokens /\ t = Newest
  <2>1. TableInv /\ TypeOK /\ Vacant
    BY DEF AccessInv, LastingInv, TableInv
  <2>2. tok \in [Tokens -> Token] /\ req \in [Admins -> Request] /\ t \in Tokens
    BY <2>1, TypeParts DEF Process
  <2>. QED BY <2>1, <2>2, LiveIsNewest
<1>2. agent'.tok = t
  BY <1>1, TakesNewest
<1>3. CASE Steady
  BY <1>1, <1>2, <1>3, SteadyRows
<1>4. CASE Tick
  <2>1. tok'[t] = [tok[t] EXCEPT !.left = tok[t].left]
    BY <1>1, <1>4 DEF Tick
  <2>. QED BY <1>1, <1>2, <2>1 DEF Token
<1>5. CASE RevokeAll
  BY <1>5 DEF RevokeAll
<1>6. CASE \E a \in Admins : Push(a)
  BY <1>2, <1>6 DEF Push
<1>7. ASSUME NEW a \in Admins, Issue(a) PROVE FALSE
  BY <1>1, <1>7 DEF Issue, Vacant, TokensThere
<1>8. ASSUME NEW a \in Admins, NEW i \in BOOLEAN, Rotate(a, i)
      PROVE  tok'[t].state = "pending" /\ InIssue(t)'
  <2>1. ~i
    BY <1>8 DEF Rotate
  <2>2. tok'[t] = [tok[t] EXCEPT !.state = "pending", !.rot = nrot + 1, !.left = RevokeTimeout]
    BY <1>1, <1>8, <2>1 DEF Rotate
  <2>3. tok'[t].state = "pending" /\ tok'[t].left = RevokeTimeout
    BY <1>1, <2>2 DEF Token
  <2>4. req'[a].pc = "issue" /\ ~req'[a].immediate
    BY <1>1, <1>8, <2>1 DEF Rotate
  <2>5. Newest' = Newest
    BY <1>1, <1>8, RotateRows, NewestStays
  <2>. QED BY <1>1, <2>3, <2>4, <2>5 DEF InIssue
<1>. QED BY <1>2, <1>3, <1>4, <1>5, <1>6, <1>7, <1>8, OrderlyParts

\* From a token that was replaced: it stays accepted until the agent has the
\* newest.
LEMMA ReplacedStep ==
  ASSUME Timely, AccessInv, Orderly, ~Degraded, ~Degraded', ~cut',
         NEW t, t = agent.tok, Replaced(t)
  PROVE  \/ tok'[agent'.tok].state = "live"
         \/ /\ agent'.tok = t /\ tok'[t].state = "pending"
            /\ InIssue(t)' \/ InPush(t)' \/ Counted(t)'
<1>1. /\ TableInv /\ TypeOK /\ Numbers /\ Whole /\ tok \in [Tokens -> Token] /\ cmd \in [Tokens -> Command]
      /\ req \in [Admins -> Request] /\ t \in Tokens /\ tok[t].state = "pending"
      /\ Newest \in Tokens /\ TokensThere \subseteq Tokens /\ t \in TokensThere /\ Newest \in TokensThere
      /\ \A a, b \in Admins : a = b
  <2>1. TableInv /\ TypeOK /\ Numbers /\ Whole
    BY DEF AccessInv, LastingInv, TableInv
  <2>2. /\ tok \in [Tokens -> Token] /\ cmd \in [Tokens -> Command] /\ req \in [Admins -> Request]
        /\ t \in Tokens
    BY <2>1, TypeParts DEF Process
  <2>. QED BY <2>1, <2>2, NewestThere DEF Timely, Replaced, TokensThere
<1>2. PICK n : n = Newest
  OBVIOUS
<1>3. Counted(t) => Behind(n)
  BY <1>1, <1>2 DEF Behind
<1>4. Valid(t)
  <2>1. CASE InIssue(t) \/ InPush(t)
    BY <1>1, <2>1, ConstantsAssumption DEF InIssue, InPush, Valid
  <2>2. CASE Counted(t)
    BY <1>3, <2>2, BehindFacts
  <2>. QED BY <2>1, <2>2 DEF Replaced
<1>5. agent'.tok = t \/ (TakeToken /\ agent'.tok = n /\ n # t)
  BY <1>2, TakesNewest DEF Replaced, InIssue, InPush, Counted
<1>6. CASE Steady
  <2>1. /\ Newest' = n /\ tok'[t] = tok[t]
        /\ tok[n].state = "live" => tok'[n] = tok[n]
        /\ req' = req \/ (Crash /\ \A a \in Admins : req'[a].pc = "idle")
    BY <1>1, <1>2, <1>4, <1>6, SteadyRows
  <2>2. Crash => \A a \in Admins : req[a].pc = "idle"
    BY DEF Crash
  <2>3. CASE agent'.tok # t
    <3>1. tok[n].state = "live"
      BY <1>2, <1>5, <2>3 DEF Replaced, InIssue, InPush, Counted
    <3>. QED BY <1>5, <2>1, <2>3, <3>1
  <2>4. CASE agent'.tok = t /\ InIssue(t)
    <3>1. req' = req
      BY <2>1, <2>2, <2>4 DEF InIssue
    <3>. QED BY <1>1, <1>2, <2>1, <2>4, <3>1 DEF InIssue
  <2>5. CASE agent'.tok = t /\ InPush(t)
    <3>1. req' = req
      BY <2>1, <2>2, <2>5 DEF InPush
    <3>. QED BY <1>1, <1>2, <2>1, <2>5, <3>1 DEF InPush
  <2>6. CASE agent'.tok = t /\ Counted(t)
    <3>1. cmd'[n].age = cmd[n].age /\ OnItsWay(n)'
      BY <1>3, <1>6, <2>6, AnswerWay, AckWay, LocalWay DEF Steady
    <3>2. \A a \in Admins : req'[a].pc = "idle"
      BY <2>1, <2>6 DEF Counted
    <3>. QED BY <1>1, <1>2, <2>1, <2>6, <3>1, <3>2 DEF Counted
  <2>. QED BY <2>3, <2>4, <2>5, <2>6 DEF Replaced
<1>7. CASE Tick
  <2>1. agent' = agent /\ req' = req /\ Counted(t)
    BY <1>7 DEF Tick, Replaced, InIssue, InPush
  <2>2. OnItsWay(n)' /\ tok'[t].left + cmd'[n].age = tok[t].left + cmd[n].age
    BY <1>3, <1>7, <2>1, TickWay
  <2>3. \A u \in Tokens : tok'[u].state = tok[u].state
    <3> SUFFICES ASSUME NEW u \in Tokens PROVE tok'[u].state = tok[u].state
      OBVIOUS
    <3>1. \E m : tok'[u] = [tok[u] EXCEPT !.left = m]
      BY <1>7 DEF Tick
    <3>. QED BY <1>1, <3>1 DEF Token
  <2>4. Newest' = n
    <3>1. SameRows
      BY <1>1, <1>7, OthersQuiet DEF Others, Quiet
    <3>. QED BY <1>2, <3>1, NewestStays
  <2>. QED BY <1>1, <1>2, <2>1, <2>2, <2>3, <2>4 DEF Counted
<1>8. CASE RevokeAll
  BY <1>8 DEF RevokeAll
<1>9. ASSUME NEW a \in Admins, NEW i \in BOOLEAN, Rotate(a, i) PROVE FALSE
  BY <1>1, <1>9 DEF Rotate
<1>10. ASSUME NEW a \in Admins, Issue(a)
       PROVE  agent'.tok = t /\ tok'[t].state = "pending" /\ InPush(t)'
  <2>1. InIssue(t) /\ ~req[a].immediate
    BY <1>1, <1>10 DEF Issue, Replaced, InIssue, InPush, Counted
  <2>2. /\ Newest' = Newest + 1 /\ tok'[Newest'].state = "live" /\ tok'[t] = tok[t]
        /\ req'[a].pc = "push"
    BY <1>1, <1>10, <2>1, IssueNewest
  <2>3. agent' = agent
    BY <1>10 DEF Issue
  <2>. QED BY <1>1, <2>1, <2>2, <2>3 DEF InIssue, InPush
<1>11. ASSUME NEW a \in Admins, Push(a)
       PROVE  agent'.tok = t /\ tok'[t].state = "pending" /\ Counted(t)'
  <2>1. InPush(t)
    BY <1>1, <1>11 DEF Push, Replaced, InIssue, InPush, Counted
  <2>2. req[a].token = n /\ tok' = tok /\ agent' = agent /\ Newest' = n
    BY <1>2, <1>11, NewestStays DEF Push, Numbers, AccessInv
  <2>3. cmd'[n].status = "pending" /\ cmd'[n].age = 0
    <3>1. PICK status \in {"pending", "memory"} :
            cmd' = [cmd EXCEPT ![n] = [NoCommand EXCEPT !.status = status, !.rot = req[a].rot]]
      BY <1>11, <2>2 DEF Push
    <3>2. cmd'[n] = [NoCommand EXCEPT !.status = status, !.rot = req[a].rot]
      BY <1>1, <1>2, <3>1
    <3>3. cmd'[n].status = status /\ cmd'[n].age = 0
      BY <3>2 DEF NoCommand
    <3>4. status # "memory"
      BY <1>1, <1>2, <3>3 DEF Degraded
    <3>. QED BY <3>3, <3>4
  <2>4. \A b \in Admins : req'[b].pc = "idle"
    <3>1. req'[a].pc = "idle"
      BY <1>1, <1>11 DEF Push, Idle
    <3>. QED BY <1>1, <3>1
  <2>5. tok[t].left + 0 = RevokeTimeout
    BY <2>1, ConstantsAssumption DEF InPush
  <2>. QED BY <1>1, <1>2, <2>1, <2>2, <2>3, <2>4, <2>5 DEF InPush, Counted, OnItsWay, Unsent
<1>. QED BY <1>6, <1>7, <1>8, <1>9, <1>10, <1>11, OrderlyParts

\* Access that was cut comes back with a token that lasts.
LEMMA CutEnds ==
  ASSUME Timely, TableInv, Orderly, cut, ~cut'
  PROVE  tok'[agent'.tok].state = "live"
<1>1. agent \in Process
  BY TypeParts DEF TableInv
<1>2. Boot \/ TakeToken
  BY OrderlyParts DEF Steady, Poll, Register, Report, Ack, Refuse, TakeVersion, Kill, Cleanup, Crash,
     Tick, RevokeAll, Issue, Push, Rotate
<1>3. CASE Boot
  <2>1. agent'.tok = Started /\ tok' = tok
    BY <1>3 DEF Boot
  <2>2. cut' = (cut /\ tok[Started].state # "live")
    BY <1>3 DEF Boot
  <2>. QED BY <2>1, <2>2
<1>4. CASE TakeToken
  BY <1>1, <1>4 DEF TakeToken, Process
<1>. QED BY <1>2, <1>3, <1>4

LEMMA AccessStep ==
  ASSUME Timely, AccessInv, Orderly
  PROVE  AccessInv'
<1>1. \A a, b \in Admins : a = b
  BY DEF Timely
<1>2. [Next]_vars /\ Next /\ OwnFile /\ TableInv
  BY DEF Orderly, Timely, OwnFile, AccessInv, LastingInv
<1>3. LastingInv' /\ FinalInv' /\ Numbers' /\ Whole'
  BY <1>1, <1>2, LastingStep, FinalStep, NumbersStep, WholeStep DEF AccessInv
<1>4. ASSUME ~Degraded' PROVE OneCommand' /\ Kept'
  <2>1. ~Degraded
    BY <1>1, <1>2, <1>4, DegradedStays DEF AccessInv
  <2>2. OneCommand'
    BY <1>2, <1>4, <2>1, OneCommandStep DEF AccessInv
  <2>3. ASSUME ~cut' PROVE tok'[agent'.tok].state = "live" \/ Replaced(agent.tok)'
    <3>1. CASE cut
      BY <1>2, <2>3, <3>1, CutEnds
    <3>2. CASE tok[agent.tok].state = "live"
      BY <2>3, <3>2, LiveStep DEF Replaced
    <3>3. CASE Replaced(agent.tok)
      BY <1>4, <2>1, <2>3, <3>3, ReplacedStep DEF Replaced
    <3>. QED BY <2>1, <3>1, <3>2, <3>3 DEF AccessInv, Kept
  <2>. QED BY <2>2, <2>3 DEF Kept
<1>. QED BY <1>3, <1>4 DEF AccessInv

-----------------------------------------------------------------------------

LEMMA InitAccess == Init => AccessInv
<1> SUFFICES ASSUME Init PROVE AccessInv
  OBVIOUS
<1>1. TableInv /\ LastingInv /\ FinalInv
  BY InitLasting, InitFinal DEF LastingInv
<1>2. \A t \in TokensThere : t = 1
  BY DEF Init, Unused, TokensThere
<1>3. 1 \in Tokens /\ tok[1] = [Unused EXCEPT !.state = "live", !.ver = 1]
  BY ConstantTypes DEF Init
<1>4. tok[1].state = "live" /\ tok[1].ver = 1
  BY <1>3 DEF Unused
<1>5. Numbers
  <2>1. \A a \in Admins : req[a].pc = "idle"
    BY DEF Init, Idle
  <2>. QED BY <1>2, <1>4, <2>1 DEF Numbers
<1>6. agent.tok = 1 /\ Whole /\ OneCommand
  <2>1. PICK v \in {0, 1} : /\ agent = [up |-> TRUE, pc |-> "idle", tok |-> 1, ver |-> v,
                                        inbox |-> <<>>, tries |-> 0]
                            /\ disk = [tok |-> 1, ver |-> v]
    BY DEF Init
  <2>2. Whole /\ agent.tok = 1 /\ agent.inbox = <<>>
    BY <2>1 DEF Whole
  <2>. QED BY <2>2 DEF Init, OneCommand
<1>. QED BY <1>1, <1>4, <1>5, <1>6 DEF AccessInv, Kept

LEMMA AccessValid == Timely /\ AccessInv => AgentKeepsAccess
<1> SUFFICES ASSUME Timely, AccessInv, ~cut, ~Degraded PROVE Valid(agent.tok)
  BY DEF AgentKeepsAccess
<1>1. CASE tok[agent.tok].state = "live"
  BY <1>1 DEF Valid
<1>2. CASE tok[agent.tok].state = "pending" /\ (InIssue(agent.tok) \/ InPush(agent.tok))
  BY <1>2, ConstantsAssumption DEF InIssue, InPush, Valid
<1>3. CASE tok[agent.tok].state = "pending" /\ Counted(agent.tok)
  <2>1. PICK n : n = Newest
    OBVIOUS
  <2>2. Behind(n)
    BY <1>3, <2>1 DEF Behind
  <2>. QED BY <2>2, BehindFacts
<1>. QED BY <1>1, <1>2, <1>3 DEF AccessInv, Kept, Replaced

LEMMA AccessTaken == Timely /\ AccessInv => PushTakenInTime
<1> SUFFICES ASSUME Timely, AccessInv, ~cut, ~Degraded, NEW t \in Tokens,
                    tok[t].state = "live", cmd[t].status \notin {"none", "manual"},
                    t \notin {agent.tok, disk.tok}
             PROVE  cmd[t].status # "expired" /\ cmd[t].age <= ClaimTimeout * (faults + 1)
  BY DEF PushTakenInTime
<1>1. t = Newest
  BY LiveIsNewest
<1>2. tok[agent.tok].state # "live"
  <2>1. agent.tok \in Tokens
    BY TypeParts DEF AccessInv, FinalInv, TableInv, Process
  <2>. QED BY <1>1, <2>1, LiveIsNewest
<1>3. Replaced(agent.tok)
  BY <1>2 DEF AccessInv, Kept
\* The rotation is over: one in its third step has no command yet.
<1>4. Counted(agent.tok)
  <2>1. ~InIssue(agent.tok)
    BY <1>1 DEF InIssue
  <2>2. ~InPush(agent.tok)
    BY <1>1 DEF InPush, AccessInv, Numbers
  <2>. QED BY <1>3, <2>1, <2>2 DEF Replaced
<1>5. cmd[t].status # "expired"
  BY <1>1, <1>4 DEF Counted, OnItsWay, Unsent, InHand, Lost
<1>6. cmd[t].age <= Spent(faults) + ClaimTimeout
  <2>1. Behind(t)
    BY <1>1, <1>3, <1>4 DEF Behind, Replaced
  <2>. QED BY <2>1, BehindFacts
<1>7. ClaimTimeout * (faults + 1) = Spent(faults) + ClaimTimeout
  BY SpentMore DEF AccessInv, FinalInv, TableInv, TypeOK, Spent
<1>. QED BY <1>5, <1>6, <1>7

LEMMA AccessNext ==
  ASSUME Timely
  PROVE  AccessInv /\ [Next]_vars /\ [Untorn]_vars => AccessInv'
<1> SUFFICES ASSUME AccessInv, [Next]_vars, [Untorn]_vars
             PROVE  AccessInv'
  OBVIOUS
<1>1. CASE Orderly
  BY <1>1, AccessStep
<1>2. CASE UNCHANGED vars
  <2>1. LastingInv' /\ FinalInv'
    BY LastingStep, FinalStep DEF Timely, OwnFile, AccessInv
  <2>2. Newest' = Newest /\ Degraded' = Degraded
    BY <1>2 DEF vars, Newest, TokensThere, Degraded
  <2>3. Numbers' /\ Whole' /\ (OneCommand' <=> OneCommand)
    BY <1>2, <2>2 DEF vars, AccessInv, Numbers, TokensThere, Whole, OneCommand
  <2>4. Kept' <=> Kept
    BY <1>2, <2>2 DEF vars, Kept, Replaced, InIssue, InPush, Counted, OnItsWay, Unsent, InHand, Lost, Spent
  <2>. QED BY <2>1, <2>2, <2>3, <2>4 DEF AccessInv
<1>. QED BY <1>1, <1>2 DEF Orderly

\* An agent that runs has a token the server accepts, through any number of
\* rotations, each lost or doubled request, reply, command and restart: if the
\* grace period of a replaced token and the life of a command are longer than
\* one claim timeout for each fault, and one more.  The next rotation is
\* requested after the last one is over, and nobody cuts the agent off; its file
\* is written by itself only, the environment sets no token, and the agent is not
\* killed between the two writes of a token and its version.
THEOREM AccessIsKept ==
  ASSUME Timely
  PROVE  Spec /\ [][Untorn]_vars => []AgentKeepsAccess
<1>1. AccessInv => AgentKeepsAccess
  BY AccessValid
<1>. QED BY <1>1, AccessNext, InitAccess, PTL DEF Spec

\* The agent takes the token of a queued command before the command is older
\* than a claim timeout for each fault so far, and one more, and the command does
\* not expire unread: from the premises of AccessIsKept, for any number of faults.
THEOREM PushIsTakenInTime ==
  ASSUME Timely
  PROVE  Spec /\ [][Untorn]_vars => []PushTakenInTime
<1>1. AccessInv => PushTakenInTime
  BY AccessTaken
<1>. QED BY <1>1, AccessNext, InitAccess, PTL DEF Spec
====
