-------------------------- MODULE AgentToken_proofs --------------------------
(***************************************************************************)
(* Proofs about AgentToken, for any number of requests, rotations and      *)
(* faults, and for all timeouts.                                           *)
(*                                                                         *)
(* Rows of the token table are numbered in the order of their insertion,   *)
(* and a rotation inserts one at most: that bounds their number and their  *)
(* versions (Numbered), and with it the types.  What a confirmation revokes *)
(* is older than the token that its rotation issued (Superseded), and the  *)
(* agent has that one on disk (InStep), so that neither it nor a command   *)
(* delivered late brings an older one back.                                *)
(***************************************************************************)
EXTENDS AgentToken, FiniteSetTheorems, SequenceTheorems, WellFoundedInduction, TLAPS

Issuing == {a \in Admins : req[a].pc = "issue"}

\* Rows are inserted one after the other; each of them had a rotation, but for
\* the first, and each rotation under way may insert one more.
Numbered ==
  /\ \E k \in Tokens : TokensThere = 1..k
  /\ IsFiniteSet(Issuing)
  /\ Cardinality(TokensThere) + Cardinality(Issuing) <= nrot + 1

\* Versions and rotation ids are those given so far.
Given ==
  /\ \A t \in Tokens : tok[t].ver <= nrot + 1 /\ cmd[t].rot <= nrot
  /\ \A a \in Admins : req[a].ver <= nrot + 1 /\ req[a].rot <= nrot

\* A command carries a token of the table.
Carried ==
  /\ \A t \in Tokens : cmd[t].rot # 0 \/ cmd[t].status # "none" => t \in TokensThere
  /\ memq \in Seq(TokensThere) /\ agent.inbox \in Seq(TokensThere)
  /\ \A a \in Admins : req[a].pc = "push" => req[a].token \in TokensThere
  /\ agent.pc \in {"version", "ack"} => agent.inbox # <<>>

TableInv == TypeOK /\ Numbered /\ Given /\ Carried

\* With one request at a time, the rotation that is about to insert a token
\* has left no lasting one, and its version is the highest.
Vacant ==
  \A a \in Admins : req[a].pc = "issue" =>
    \A t \in TokensThere : tok[t].state # "live" /\ tok[t].ver < req[a].ver

LastingInv == TableInv /\ Vacant /\ OneLastingToken

\* What waits for rotation r has a lower version than v.
Older(r, v) == \A u \in Tokens : tok[u].state = "pending" /\ tok[u].rot = r => tok[u].ver < v

\* What waits for a rotation is older than the token that the rotation issues.
Superseded ==
  /\ \A t \in Tokens : tok[t].state = "pending" => tok[t].rot # 0
  /\ \A t \in Tokens : Older(cmd[t].rot, tok[t].ver)
  /\ \A a \in Admins : /\ req[a].pc = "issue" => Older(req[a].rot, req[a].ver)
                       /\ req[a].pc = "push" => Older(req[a].rot, tok[req[a].token].ver)

\* The process and its file agree, and what it is about to confirm it has.
InStep ==
  agent.up =>
    /\ agent.tok = disk.tok /\ agent.ver = disk.ver
    /\ agent.pc \in {"version", "ack"} => agent.tok = Head(agent.inbox)
    /\ agent.pc = "version" => agent.ver <= tok[agent.tok].ver
    /\ agent.pc = "ack" => agent.ver = tok[agent.tok].ver

\* A confirmed token is revoked and older than what is on disk.
Outdated == \A g \in gone : tok[g].state = "revoked" /\ tok[g].ver < disk.ver

Apart == gone \cap {agent.tok, disk.tok} = {}

FinalInv == TableInv /\ Superseded /\ InStep /\ Outdated /\ Apart

-----------------------------------------------------------------------------
(* Maxima, records and sequences.                                           *)

LEMMA MaxOfBounded ==
  ASSUME NEW n \in Nat, NEW S \in SUBSET (0..n), S # {}
  PROVE  Max(S) \in S /\ \A x \in S : x <= Max(S)
<1> DEFINE T == {n - x : x \in S}
<1>1. T \subseteq Nat /\ T # {}
  <2>1. \A x \in S : n - x \in Nat
    OBVIOUS
  <2>. QED BY <2>1
<1>2. PICK y \in T : \A z \in T : ~(<<z, y>> \in OpToRel(<, Nat))
  <2> HIDE DEF T
  <2> QED BY <1>1, NatLessThanWellFounded, WFMin
<1>3. \A z \in T : ~(z < y)
  BY <1>1, <1>2 DEF OpToRel
<1>4. \E m \in S : \A x \in S : m >= x
  BY <1>3
<1>. QED BY <1>4 DEF Max

Token == [state : {"none", "live", "pending", "revoked"}, ver : Versions,
          rot : Rotations, left : 0..RevokeTimeout]
Command == [status : {"none", "manual", "memory", "pending", "delivered", "expired"},
            rot : Rotations, age : 0..CommandTtl, since : 0..ClaimTimeout]
Request == [pc : {"idle", "issue", "push"}, rot : Rotations, ver : Versions,
            token : 0..(MaxRotations + 1), immediate : BOOLEAN]
Process == [up : BOOLEAN, pc : {"idle", "register", "version", "ack"}, tok : Tokens,
            ver : Versions, inbox : Seq(Tokens), tries : 0..2]

ConfigFile == [tok : Tokens, ver : Versions]

LEMMA TypeParts ==
  TypeOK <=> /\ tok \in [Tokens -> Token] /\ cmd \in [Tokens -> Command]
             /\ memq \in Seq(Tokens) /\ req \in [Admins -> Request] /\ nrot \in Rotations
             /\ agent \in Process /\ disk \in ConfigFile /\ bak \in ConfigFile
             /\ polled \in BOOLEAN /\ cut \in BOOLEAN /\ faults \in 0..MaxFaults
             /\ gone \subseteq Tokens
BY DEF TypeOK, Token, Command, Request, Process, ConfigFile

LEMMA ConstantTypes ==
  /\ Tokens \subseteq Nat \ {0} /\ Versions \subseteq Nat /\ Rotations \subseteq Nat
  /\ 1 \in Tokens /\ 0 \in Versions /\ 1 \in Versions /\ 0 \in Rotations
  /\ Tokens \subseteq Versions
BY ConstantsAssumption DEF Tokens, Versions, Rotations

LEMMA SeqGrows == ASSUME NEW S, NEW T, S \subseteq T, NEW s \in Seq(S) PROVE s \in Seq(T)
BY SeqMonotonic

-----------------------------------------------------------------------------
(* The initial state.                                                       *)

LEMMA InitTable == Init => TableInv
<1> SUFFICES ASSUME Init PROVE TableInv
  OBVIOUS
<1>1. Unused = [state |-> "none", ver |-> 0, rot |-> 0, left |-> 0]
  BY DEF Unused
<1>2. 0 \in 0..RevokeTimeout /\ 0 \in 0..CommandTtl /\ 0 \in 0..ClaimTimeout /\ 0 \in 0..MaxFaults
  BY ConstantsAssumption
<1>3. \A t \in Tokens : /\ tok[t] \in Token
                        /\ tok[t].state = IF t = 1 THEN "live" ELSE "none"
                        /\ tok[t].ver <= 1
  <2> SUFFICES ASSUME NEW t \in Tokens
               PROVE  tok[t] \in Token /\ (tok[t].state = IF t = 1 THEN "live" ELSE "none") /\ tok[t].ver <= 1
    OBVIOUS
  <2>1. Unused \in Token
    BY <1>1, <1>2, ConstantTypes DEF Token
  <2>2. CASE t = 1
    <3>1. tok[t] = [Unused EXCEPT !.state = "live", !.ver = 1]
      BY <2>2 DEF Init
    <3>2. tok[t] \in Token
      BY <2>1, <3>1, ConstantTypes DEF Token
    <3>3. tok[t].state = "live" /\ tok[t].ver = 1
      BY <2>1, <3>1 DEF Token
    <3>. QED BY <2>2, <3>2, <3>3
  <2>3. CASE t # 1
    BY <1>1, <2>1, <2>3 DEF Init
  <2>. QED BY <2>2, <2>3
<1>4. tok \in [Tokens -> Token]
  BY <1>3 DEF Init
<1>5. NoCommand \in Command /\ cmd \in [Tokens -> Command]
  BY <1>2, ConstantTypes DEF Init, NoCommand, Command
<1>6. Idle \in Request /\ req \in [Admins -> Request]
  <2>1. 0 \in 0..(MaxRotations + 1)
    BY ConstantsAssumption
  <2>2. Idle \in Request
    BY <2>1, ConstantTypes DEF Idle, Request
  <2>. QED BY <2>2 DEF Init
<1>7. agent \in Process /\ disk \in ConfigFile /\ bak \in ConfigFile
  BY ConstantTypes DEF Init, Process, ConfigFile
<1>8. TypeOK
  <2>1. polled \in BOOLEAN /\ cut \in BOOLEAN
    BY Zenon DEF Init
  <2>3. memq \in Seq(Tokens)
    BY DEF Init
  <2>2. nrot \in Rotations /\ faults \in 0..MaxFaults /\ gone \subseteq Tokens
    BY <1>2, ConstantTypes DEF Init
  <2>. QED BY <1>4, <1>5, <1>6, <1>7, <2>1, <2>2, <2>3, TypeParts
<1>9. TokensThere = {1} /\ TokensThere = 1..1
  <2>1. \A t \in Tokens : tok[t].state # "none" <=> t = 1
    BY <1>3
  <2>2. TokensThere = {1}
    BY <2>1, ConstantTypes DEF TokensThere
  <2>. QED BY <2>2
<1>10. Issuing = {}
  BY DEF Init, Issuing, Idle
<1>11. Numbered
  <2>1. Cardinality(TokensThere) = 1 /\ Cardinality(Issuing) = 0 /\ IsFiniteSet(Issuing)
    BY <1>9, <1>10, FS_Singleton, FS_EmptySet
  <2>2. nrot = 0
    BY DEF Init
  <2>. QED BY <1>9, <2>1, <2>2, ConstantTypes DEF Numbered
<1>12. Given
  <2>1. \A t \in Tokens : tok[t].ver <= 1 /\ cmd[t].rot = 0
    BY <1>3 DEF Init, NoCommand
  <2>2. \A a \in Admins : req[a].ver = 0 /\ req[a].rot = 0
    BY DEF Init, Idle
  <2>. QED BY <2>1, <2>2 DEF Init, Given
<1>13. Carried
  <2>1. \A t \in Tokens : cmd[t].rot = 0 /\ cmd[t].status = "none"
    BY DEF Init, NoCommand
  <2>2. \A a \in Admins : req[a].pc = "idle"
    BY DEF Init, Idle
  <2>3. memq = <<>> /\ agent.inbox = <<>> /\ agent.pc = "idle"
    BY DEF Init
  <2>. QED BY <2>1, <2>2, <2>3 DEF Carried
<1>. QED BY <1>8, <1>11, <1>12, <1>13 DEF TableInv

-----------------------------------------------------------------------------
(* Steps that insert no token and touch no request.                         *)

\* Rows keep their number and version, whatever becomes of their state.
SameRows ==
  /\ tok' \in [Tokens -> Token]
  /\ \A t \in Tokens : tok'[t].ver = tok[t].ver /\ (tok'[t].state = "none" <=> tok[t].state = "none")

\* Commands keep their rotation, and those that are not sent stay so.
SameCommands ==
  /\ cmd' \in [Tokens -> Command]
  /\ \A t \in Tokens : cmd'[t].rot = cmd[t].rot /\ (cmd'[t].status = "none" <=> cmd[t].status = "none")
  /\ memq' \in Seq(TokensThere)

\* The agent has commands of the table, the one it works on included.
SoundAgent ==
  /\ agent' \in Process /\ disk' \in ConfigFile /\ bak' \in ConfigFile
  /\ agent'.inbox \in Seq(TokensThere)
  /\ agent'.pc \in {"version", "ack"} => agent'.inbox # <<>>

SoundRest == polled' \in BOOLEAN /\ cut' \in BOOLEAN /\ faults' \in 0..MaxFaults /\ gone' \subseteq Tokens

Quiet == SameRows /\ SameCommands /\ SoundAgent /\ SoundRest /\ UNCHANGED <<req, nrot>>

LEMMA SameThere == SameRows => TokensThere' = TokensThere
BY DEF SameRows, TokensThere

LEMMA QuietTable == TableInv /\ Quiet => TableInv'
<1> SUFFICES ASSUME TableInv, Quiet PROVE TableInv'
  OBVIOUS
<1>1. TokensThere' = TokensThere /\ Issuing' = Issuing
  BY SameThere DEF Quiet, Issuing
<1>2. TypeOK'
  <2>1. TokensThere \subseteq Tokens
    BY DEF TokensThere
  <2>2. memq' \in Seq(Tokens)
    BY <2>1, SeqGrows DEF Quiet, SameCommands
  <2>. QED BY <2>2, TypeParts DEF Quiet, SameRows, SameCommands, SoundAgent, SoundRest,
              TableInv, TypeOK, Token, Command, Process, ConfigFile
<1>3. Numbered'
  BY <1>1 DEF Quiet, TableInv, Numbered
<1>4. Given'
  BY DEF Quiet, SameRows, SameCommands, TableInv, Given
<1>5. Carried'
  BY <1>1 DEF Quiet, SameCommands, SoundAgent, TableInv, Carried
<1>. QED BY <1>2, <1>3, <1>4, <1>5 DEF TableInv

LEMMA FaultType ==
  ASSUME TypeOK, faults' = faults \/ \E kind \in AllFaults : Fault(kind)
  PROVE  faults' \in 0..MaxFaults
BY ConstantsAssumption DEF TypeOK, Fault

\* A delivery takes commands of the table, and leaves their rotations alone.
LEMMA ClaimKeeps ==
  ASSUME TableInv, NEW reply \in Replies, Claim(reply)
  PROVE  SameCommands /\ reply \in Seq(TokensThere)
<1>1. TypeOK /\ Carried /\ cmd \in [Tokens -> Command]
  BY TypeParts DEF TableInv
<1>2. \A t \in Claimable : t \in Tokens /\ t \in TokensThere /\ cmd[t].status # "none"
  BY <1>1 DEF Claimable, Carried
<1>3. reply \in Seq(TokensThere)
  <2>1. CASE reply = memq
    BY <1>1, <2>1 DEF Carried
  <2>2. CASE \E t \in Latest : reply = memq \o <<t>>
    <3>1. PICK t \in Latest : reply = memq \o <<t>>
      BY <2>2
    <3>2. t \in TokensThere
      BY <1>2 DEF Latest
    <3>. QED BY <1>1, <3>1, <3>2 DEF Carried
  <2>. QED BY <2>1, <2>2 DEF Claim
<1>4. memq' \in Seq(TokensThere)
  <2>1. memq' = <<>>
    BY Zenon DEF Claim
  <2>. QED BY <2>1
<1>5. 0 \in 0..ClaimTimeout
  BY ConstantsAssumption
<1>6. CASE cmd' = cmd
  BY <1>1, <1>4, <1>6, <1>3 DEF SameCommands
<1>7. CASE \E t \in Latest : cmd' = [u \in Tokens |->
                    CASE u = t -> [cmd[u] EXCEPT !.status = "delivered", !.since = 0]
                      [] u \in Claimable \ {t} -> [cmd[u] EXCEPT !.status = "expired"]
                      [] OTHER -> cmd[u]]
  <2>1. PICK t \in Latest : cmd' = [u \in Tokens |->
                    CASE u = t -> [cmd[u] EXCEPT !.status = "delivered", !.since = 0]
                      [] u \in Claimable \ {t} -> [cmd[u] EXCEPT !.status = "expired"]
                      [] OTHER -> cmd[u]]
    BY <1>7
  <2>2. t \in Claimable
    BY DEF Latest
  <2>3. ASSUME NEW u \in Tokens
        PROVE  /\ cmd'[u] \in Command /\ cmd'[u].rot = cmd[u].rot
               /\ cmd'[u].status = "none" <=> cmd[u].status = "none"
    <3>1. CASE u = t
      BY <1>1, <1>2, <1>5, <2>1, <2>2, <3>1 DEF Command
    <3>2. CASE u # t /\ u \in Claimable
      BY <1>1, <1>2, <2>1, <3>2 DEF Command
    <3>3. CASE u # t /\ u \notin Claimable
      BY <1>1, <2>1, <3>3
    <3>. QED BY <3>1, <3>2, <3>3
  <2>. QED BY <1>3, <1>4, <2>1, <2>3 DEF SameCommands
<1>8. CASE cmd' = [u \in Tokens |-> IF u \in Claimable THEN [cmd[u] EXCEPT !.status = "expired"]
                                                     ELSE cmd[u]]
  <2>1. ASSUME NEW u \in Tokens
        PROVE  /\ cmd'[u] \in Command /\ cmd'[u].rot = cmd[u].rot
               /\ cmd'[u].status = "none" <=> cmd[u].status = "none"
    BY <1>1, <1>2, <1>8 DEF Command
  <2>. QED BY <1>3, <1>4, <1>8, <2>1 DEF SameCommands
<1>9. CASE cmd' # cmd
  <2>1. PICK t \in Latest :
          IF Active(tok[t].ver)
          THEN cmd' = [u \in Tokens |->
                    CASE u = t -> [cmd[u] EXCEPT !.status = "delivered", !.since = 0]
                      [] u \in Claimable \ {t} -> [cmd[u] EXCEPT !.status = "expired"]
                      [] OTHER -> cmd[u]]
          ELSE cmd' = [u \in Tokens |-> IF u \in Claimable THEN [cmd[u] EXCEPT !.status = "expired"]
                                                           ELSE cmd[u]]
    BY <1>9, Zenon DEF Claim
  <2>. QED BY <1>7, <1>8, <2>1
<1>. QED BY <1>3, <1>6, <1>9

\* Tokens change their state, not their row.
LEMMA StateKeeps ==
  ASSUME TypeOK, NEW S \in SUBSET TokensThere, NEW state \in {"live", "pending", "revoked"},
         tok' = [t \in Tokens |-> IF t \in S THEN [tok[t] EXCEPT !.state = state] ELSE tok[t]]
  PROVE  SameRows
<1>1. tok \in [Tokens -> Token]
  BY TypeParts
<1>2. \A t \in S : t \in Tokens /\ tok[t].state # "none"
  BY DEF TokensThere
<1>3. ASSUME NEW t \in Tokens
      PROVE  tok'[t] \in Token /\ tok'[t].ver = tok[t].ver /\ (tok'[t].state = "none" <=> tok[t].state = "none")
  <2>1. CASE t \in S
    BY <1>1, <1>2, <2>1 DEF Token
  <2>2. CASE t \notin S
    BY <1>1, <2>2
  <2>. QED BY <2>1, <2>2
<1>. QED BY <1>3 DEF SameRows

\* A confirmation.
LEMMA ConfirmKeeps ==
  ASSUME TypeOK, NEW rot, Confirm(rot)
  PROVE  SameRows /\ gone' \subseteq Tokens
<1>1. tok \in [Tokens -> Token] /\ gone \subseteq Tokens
  BY TypeParts
<1>2. CASE UNCHANGED <<tok, gone>>
  BY <1>1, <1>2 DEF SameRows
<1>3. CASE \E t \in Tokens : /\ tok[t].state = "pending"
                             /\ tok' = [tok EXCEPT ![t].state = "revoked"] /\ gone' = gone \cup {t}
  <2>1. PICK t \in Tokens : /\ tok[t].state = "pending"
                            /\ tok' = [tok EXCEPT ![t].state = "revoked"] /\ gone' = gone \cup {t}
    BY <1>3
  <2>2. tok'[t] = [tok[t] EXCEPT !.state = "revoked"]
    BY <1>1, <2>1
  <2>3. tok'[t] \in Token /\ tok'[t].ver = tok[t].ver /\ tok'[t].state = "revoked"
    BY <1>1, <2>2 DEF Token
  <2>4. \A u \in Tokens \ {t} : tok'[u] = tok[u]
    BY <1>1, <2>1
  <2>. QED BY <1>1, <2>1, <2>3, <2>4 DEF SameRows
<1>. QED BY <1>2, <1>3 DEF Confirm

LEMMA SameAll ==
  ASSUME TableInv
  PROVE  /\ tok' = tok => SameRows
         /\ UNCHANGED <<cmd, memq>> => SameCommands
         /\ UNCHANGED <<agent, disk, bak>> => SoundAgent
<1>1. TypeOK /\ Carried
  BY DEF TableInv
<1>2. tok' = tok => SameRows
  BY <1>1, TypeParts DEF SameRows
<1>3. UNCHANGED <<cmd, memq>> => SameCommands
  BY <1>1, TypeParts DEF SameCommands, Carried
<1>4. UNCHANGED <<agent, disk, bak>> => SoundAgent
  BY <1>1, TypeParts DEF SoundAgent, Carried
<1>. QED BY <1>2, <1>3, <1>4

LEMMA DeliveredSound ==
  ASSUME TableInv, NEW reply \in Seq(TokensThere), Delivered(reply), UNCHANGED <<disk, bak>>
  PROVE  SoundAgent
<1>1. reply \in Seq(Tokens)
  BY SeqGrows DEF TokensThere
<1>2. agent \in Process /\ disk \in ConfigFile /\ bak \in ConfigFile
  BY TypeParts DEF TableInv
<1>3. agent' = [agent EXCEPT !.pc = "idle", !.inbox = reply]
  BY DEF Delivered
<1>4. agent' \in Process /\ agent'.pc = "idle" /\ agent'.inbox = reply
  BY <1>1, <1>2, <1>3 DEF Process
<1>. QED BY <1>2, <1>4 DEF SoundAgent

LEMMA PollQuiet == ASSUME TableInv, Poll \/ Register \/ Report PROVE Quiet
<1>1. TypeOK /\ polled \in BOOLEAN /\ cut \in BOOLEAN /\ gone \subseteq Tokens
  BY TypeParts DEF TableInv
<1>2. SameRows /\ UNCHANGED <<req, nrot>>
  BY SameAll DEF Poll, Register, Report
<1>3. SameCommands
  <2>1. CASE UNCHANGED <<cmd, memq>>
    BY <2>1, SameAll
  <2>2. CASE \E reply \in Replies : Claim(reply)
    BY <2>2, ClaimKeeps
  <2>. QED BY <2>1, <2>2 DEF Poll, Register, Report
<1>4. SoundAgent
  <2>1. UNCHANGED <<disk, bak>>
    BY DEF Poll, Register, Report
  <2>2. CASE UNCHANGED agent
    BY <2>1, <2>2, SameAll
  <2>3. CASE Delivered(<<>>)
    <3>1. <<>> \in Seq(TokensThere)
      OBVIOUS
    <3>. QED BY <2>1, <2>3, <3>1, DeliveredSound
  <2>4. CASE \E reply \in Replies : Claim(reply) /\ Delivered(reply)
    BY <2>1, <2>4, DeliveredSound, ClaimKeeps
  <2>5. CASE Poll \/ Report
    BY <2>2, <2>4, <2>5, Zenon DEF Poll, Report
  <2>6. CASE Register
    BY <2>3, <2>4, <2>6, Zenon DEF Register
  <2>. QED BY <2>5, <2>6
<1>5. faults' \in 0..MaxFaults
  BY <1>1, FaultType DEF Poll, Register, Report, AllFaults
<1>6. polled' \in BOOLEAN /\ cut' \in BOOLEAN /\ gone' \subseteq Tokens
  <2>1. polled' \in {TRUE, polled} /\ cut' = cut /\ gone' = gone
    BY DEF Poll, Register, Report
  <2>. QED BY <1>1, <2>1
<1>. QED BY <1>2, <1>3, <1>4, <1>5, <1>6 DEF Quiet, SoundRest

\* The agent between two commands.
LEMMA AtRest ==
  ASSUME NEW p \in Process, NEW s \in Seq(Tokens)
  PROVE  LET q == [p EXCEPT !.pc = "idle", !.inbox = s, !.tries = 0]
         IN  q \in Process /\ q.inbox = s /\ q.pc = "idle"
<1> DEFINE p1 == [p EXCEPT !.pc = "idle"]
           p2 == [p1 EXCEPT !.inbox = s]
           p3 == [p2 EXCEPT !.tries = 0]
<1>1. p1 \in Process /\ p1.pc = "idle"
  BY DEF Process
<1>2. p2 \in Process /\ p2.pc = "idle" /\ p2.inbox = s
  <2> HIDE DEF p1
  <2> QED BY <1>1 DEF Process
<1>3. p3 \in Process /\ p3.pc = "idle" /\ p3.inbox = s
  <2> HIDE DEF p2
  <2> QED BY <1>2 DEF Process
<1>. QED BY <1>3

\* The agent's own steps on its process and file.
LEMMA LocalQuiet ==
  ASSUME TableInv, Boot \/ Refuse \/ TakeToken \/ TakeVersion \/ Kill \/ EditConfig \/ EditDropped
  PROVE  Quiet
<1>1. TypeOK /\ Carried /\ tok \in [Tokens -> Token] /\ agent \in Process
      /\ disk \in ConfigFile /\ bak \in ConfigFile /\ polled \in BOOLEAN /\ cut \in BOOLEAN
  BY TypeParts DEF TableInv
<1>2. UNCHANGED <<tok, cmd, memq, req, nrot, polled, gone>>
  BY DEF Boot, Refuse, TakeToken, TakeVersion, Kill, EditConfig, EditDropped
<1>3. faults' \in 0..MaxFaults
  BY <1>1, FaultType DEF Boot, Refuse, TakeToken, TakeVersion, Save, Kill, EditConfig, EditDropped, AllFaults
<1>4. cut' \in BOOLEAN
  <2>1. CASE Boot \/ TakeToken
    BY <1>1, <2>1, Zenon DEF Boot, TakeToken
  <2>2. CASE Refuse \/ TakeVersion \/ Kill \/ EditConfig \/ EditDropped
    BY <1>1, <2>2 DEF Refuse, TakeVersion, Kill, EditConfig, EditDropped
  <2>. QED BY <2>1, <2>2
<1>5. SoundRest
  BY <1>1, <1>2, <1>3, <1>4, TypeParts DEF SoundRest
<1>6. \A t \in Tokens : tok[t].ver \in Versions
  BY <1>1 DEF Token
<1>7. agent.inbox \in Seq(TokensThere) /\ agent.inbox \in Seq(Tokens)
  BY <1>1 DEF Carried, Process
<1>8. SoundAgent
  <2>1. CASE Boot
    <3>0. Started \in Tokens
      BY <1>1, ConstantTypes DEF Started, ConfigFile
    <3>1. PICK v \in Versions :
            /\ agent' = [up |-> TRUE, pc |-> "register", tok |-> Started, ver |-> v,
                         inbox |-> <<>>, tries |-> 0]
            /\ UNCHANGED files \/ (disk' = [tok |-> Started, ver |-> v] /\ bak' = disk)
      BY <2>1 DEF Boot, Save
    <3>2. disk' \in ConfigFile /\ bak' \in ConfigFile
      BY <1>1, <3>0, <3>1 DEF ConfigFile, files
    <3>3. agent' \in Process /\ agent'.inbox = <<>> /\ agent'.pc = "register"
      BY <3>0, <3>1 DEF Process
    <3>. QED BY <3>2, <3>3 DEF SoundAgent
  <2>2. CASE Refuse
    <3>1. agent' = [agent EXCEPT !.pc = "idle", !.inbox = Tail(agent.inbox), !.tries = 0] /\ disk' = disk /\ bak' = bak
      BY <2>2 DEF Refuse, Done
    <3>2. agent.inbox # <<>>
      BY <2>2 DEF Refuse, Handling
    <3>3. Tail(agent.inbox) \in Seq(TokensThere) /\ Tail(agent.inbox) \in Seq(Tokens)
      BY <1>7, <3>2
    <3>4. agent' \in Process /\ agent'.inbox = Tail(agent.inbox) /\ agent'.pc = "idle"
      BY <1>1, <3>1, <3>3, AtRest
    <3>. QED BY <1>1, <3>1, <3>3, <3>4 DEF SoundAgent
  <2>3. CASE TakeToken
    <3>1. agent.inbox # <<>> /\ agent' = [agent EXCEPT !.tok = Head(agent.inbox), !.pc = "version"]
      BY <2>3 DEF TakeToken, Handling
    <3>2. Head(agent.inbox) \in Tokens
      BY <1>7, <3>1
    <3>3. disk' \in ConfigFile /\ bak' \in ConfigFile
      <4>1. agent.ver \in Versions
        BY <1>1 DEF Process
      <4>2. LET file == [tok |-> Head(agent.inbox), ver |-> agent.ver] IN
              UNCHANGED files \/ (disk' = file /\ bak' \in {file, disk})
        BY <2>3, Zenon DEF TakeToken
      <4>. QED BY <1>1, <3>2, <4>1, <4>2 DEF ConfigFile, files
    <3>4. agent' \in Process /\ agent'.inbox = agent.inbox
      BY <1>1, <3>1, <3>2 DEF Process
    <3>. QED BY <1>7, <3>1, <3>3, <3>4 DEF SoundAgent
  <2>4. CASE TakeVersion
    <3>1. agent.inbox # <<>>
      BY <1>1, <2>4 DEF TakeVersion, Carried
    <3>2. PICK v \in Versions : /\ agent' = [agent EXCEPT !.ver = v, !.pc = "ack"]
                                /\ \/ disk' = [tok |-> agent.tok, ver |-> v] /\ bak' = disk
                                   \/ UNCHANGED files
      <4>1. Head(agent.inbox) \in Tokens
        BY <1>7, <3>1
      <4>. QED BY <1>6, <2>4, <4>1 DEF TakeVersion, Save
    <3>3. disk' \in ConfigFile /\ bak' \in ConfigFile
      BY <1>1, <3>2 DEF Process, ConfigFile, files
    <3>4. agent' \in Process /\ agent'.inbox = agent.inbox
      BY <1>1, <3>2 DEF Process
    <3>. QED BY <1>7, <3>1, <3>3, <3>4 DEF SoundAgent
  <2>5. CASE Kill \/ EditConfig \/ EditDropped
    <3>1. agent' = [agent EXCEPT !.up = FALSE, !.pc = "idle", !.inbox = <<>>, !.tries = 0]
      BY <2>5 DEF Kill, EditConfig, EditDropped, Stopped
    <3>2. disk' \in ConfigFile /\ bak' \in ConfigFile
      BY <1>1, <2>5 DEF Kill, EditConfig, EditDropped, ConfigFile
    <3>3. agent' \in Process /\ agent'.inbox = <<>> /\ agent'.pc = "idle"
      <4>1. [agent EXCEPT !.up = FALSE] \in Process
        BY <1>1 DEF Process
      <4>2. agent' = [[agent EXCEPT !.up = FALSE] EXCEPT !.pc = "idle", !.inbox = <<>>, !.tries = 0]
        BY <3>1
      <4>3. <<>> \in Seq(Tokens)
        OBVIOUS
      <4>. QED BY <4>1, <4>2, <4>3, AtRest
    <3>. QED BY <3>2, <3>3 DEF SoundAgent
  <2>. QED BY <2>1, <2>2, <2>3, <2>4, <2>5
<1>. QED BY <1>2, <1>5, <1>8, SameAll DEF Quiet

LEMMA AckQuiet == ASSUME TableInv, Ack PROVE Quiet
<1>1. TypeOK /\ Carried /\ agent \in Process /\ disk \in ConfigFile /\ bak \in ConfigFile
      /\ polled \in BOOLEAN /\ cut \in BOOLEAN /\ gone \subseteq Tokens
  BY TypeParts DEF TableInv
<1>2. UNCHANGED <<req, nrot, disk, bak, polled, cut>>
  BY DEF Ack
<1>3. SameRows /\ gone' \subseteq Tokens
  <2>1. CASE UNCHANGED <<tok, gone>>
    BY <1>1, <2>1, SameAll
  <2>2. CASE Confirm(cmd[Head(agent.inbox)].rot)
    BY <1>1, <2>2, ConfirmKeeps
  <2>. QED BY <2>1, <2>2 DEF Ack
<1>4. SameCommands
  <2>1. CASE UNCHANGED <<cmd, memq>>
    BY <2>1, SameAll
  <2>2. CASE \E reply \in Replies : Claim(reply)
    BY <2>2, ClaimKeeps
  <2>. QED BY <2>1, <2>2 DEF Ack
<1>5. faults' \in 0..MaxFaults
  BY <1>1, FaultType DEF Ack, AllFaults
<1>6. agent.inbox \in Seq(TokensThere) /\ agent.inbox # <<>> /\ agent.inbox \in Seq(Tokens)
  BY <1>1 DEF Ack, Carried, Process
<1>7. SoundAgent
  <2>1. CASE agent' = Done
    <3>1. Tail(agent.inbox) \in Seq(TokensThere) /\ Tail(agent.inbox) \in Seq(Tokens)
      BY <1>6
    <3>2. agent' = [agent EXCEPT !.pc = "idle", !.inbox = Tail(agent.inbox), !.tries = 0]
      BY <2>1 DEF Done
    <3>3. agent' \in Process /\ agent'.inbox = Tail(agent.inbox) /\ agent'.pc = "idle"
      BY <1>1, <3>1, <3>2, AtRest
    <3>. QED BY <1>1, <1>2, <3>1, <3>3 DEF SoundAgent
  <2>2. CASE agent.tries < 2 /\ agent' = [agent EXCEPT !.tries = agent.tries + 1]
    <3>1. agent' \in Process /\ agent'.inbox = agent.inbox
      BY <1>1, <2>2 DEF Process
    <3>. QED BY <1>1, <1>2, <1>6, <3>1 DEF SoundAgent
  <2>. QED BY <2>1, <2>2 DEF Ack, AckFailed
<1>. QED BY <1>1, <1>2, <1>3, <1>4, <1>5, <1>7 DEF Quiet, SoundRest

\* Revocations, and time.
LEMMA ServerQuiet == ASSUME TableInv, RevokeAll \/ Cleanup \/ Tick PROVE Quiet
<1>1. TypeOK /\ tok \in [Tokens -> Token] /\ cmd \in [Tokens -> Command]
      /\ polled \in BOOLEAN /\ cut \in BOOLEAN
  BY TypeParts DEF TableInv
<1>2. SameRows
  <2>1. CASE RevokeAll
    <3>1. {t \in Tokens : tok[t].state \in {"live", "pending"}} \in SUBSET TokensThere
      BY DEF TokensThere
    <3>2. tok' = [t \in Tokens |-> IF t \in {u \in Tokens : tok[u].state \in {"live", "pending"}}
                                  THEN [tok[t] EXCEPT !.state = "revoked"] ELSE tok[t]]
      BY <2>1 DEF RevokeAll
    <3>. QED BY <1>1, <3>1, <3>2, StateKeeps
  <2>2. CASE Cleanup
    <3>1. {t \in Tokens : tok[t].state = "pending" /\ tok[t].left = 0} \in SUBSET TokensThere
      BY DEF TokensThere
    <3>2. tok' = [t \in Tokens |-> IF t \in {u \in Tokens : tok[u].state = "pending" /\ tok[u].left = 0}
                                  THEN [tok[t] EXCEPT !.state = "revoked"] ELSE tok[t]]
      BY <2>2 DEF Cleanup
    <3>. QED BY <1>1, <3>1, <3>2, StateKeeps
  <2>3. CASE Tick
    <3>1. ASSUME NEW t \in Tokens
          PROVE  tok'[t] \in Token /\ tok'[t].ver = tok[t].ver /\ tok'[t].state = tok[t].state
      <4>1. tok[t] \in Token
        BY <1>1
      <4>2. PICK n \in 0..RevokeTimeout : tok'[t] = [tok[t] EXCEPT !.left = n]
        <5>1. Less(tok[t].left) \in 0..RevokeTimeout /\ tok[t].left \in 0..RevokeTimeout
          BY <4>1, ConstantsAssumption DEF Less, Token
        <5>2. tok'[t] = [tok[t] EXCEPT !.left = IF tok[t].state = "pending" THEN Less(tok[t].left)
                                                                        ELSE tok[t].left]
          BY <2>3 DEF Tick
        <5>. QED BY <5>1, <5>2
      <4>. QED BY <4>1, <4>2 DEF Token
    <3>2. tok' \in [Tokens -> Token]
      BY <2>3, <3>1 DEF Tick
    <3>. QED BY <3>1, <3>2 DEF SameRows
  <2>. QED BY <2>1, <2>2, <2>3
<1>3. SameCommands
  <2>1. memq' = memq
    BY DEF RevokeAll, Cleanup, Tick
  <2>2. CASE cmd' = cmd
    BY <2>1, <2>2, SameAll
  <2>3. CASE Tick
    <3>1. ASSUME NEW t \in Tokens
          PROVE  cmd'[t] \in Command /\ cmd'[t].rot = cmd[t].rot /\ cmd'[t].status = cmd[t].status
      <4>1. cmd[t] \in Command
        BY <1>1
      <4>2. CASE cmd[t].status \in {"pending", "delivered"}
        <5>1. PICK n \in 0..CommandTtl, m \in 0..ClaimTimeout : cmd'[t] = [cmd[t] EXCEPT !.age = n, !.since = m]
          <6>1. More(cmd[t].age, CommandTtl) \in 0..CommandTtl
            BY <4>1, ConstantsAssumption DEF More, Command
          <6>2. More(cmd[t].since, ClaimTimeout) \in 0..ClaimTimeout /\ cmd[t].since \in 0..ClaimTimeout
            BY <4>1, ConstantsAssumption DEF More, Command
          <6>3. cmd'[t] = [cmd[t] EXCEPT !.age = More(cmd[t].age, CommandTtl),
                             !.since = IF cmd[t].status = "delivered" THEN More(cmd[t].since, ClaimTimeout)
                                                                      ELSE cmd[t].since]
            BY <2>3, <4>2 DEF Tick
          <6>. QED BY <6>1, <6>2, <6>3
        <5>. QED BY <4>1, <5>1 DEF Command
      <4>3. CASE cmd[t].status \notin {"pending", "delivered"}
        BY <2>3, <4>1, <4>3 DEF Tick
      <4>. QED BY <4>2, <4>3
    <3>2. cmd' \in [Tokens -> Command]
      BY <2>3, <3>1 DEF Tick
    <3>3. memq \in Seq(TokensThere)
      BY DEF TableInv, Carried
    <3>. QED BY <2>1, <3>1, <3>2, <3>3 DEF SameCommands
  <2>. QED BY <2>2, <2>3 DEF RevokeAll, Cleanup
<1>4. SoundAgent /\ UNCHANGED <<req, nrot>>
  BY SameAll DEF RevokeAll, Cleanup, Tick
<1>5. polled' \in BOOLEAN /\ cut' \in BOOLEAN
  <2>1. CASE RevokeAll \/ Cleanup
    BY <1>1, <2>1 DEF RevokeAll, Cleanup
  <2>2. CASE Tick
    BY <1>1, <2>2, Zenon DEF Tick
  <2>. QED BY <2>1, <2>2
<1>6. faults' \in 0..MaxFaults /\ gone' \subseteq Tokens
  BY <1>1, TypeParts DEF RevokeAll, Cleanup, Tick
<1>. QED BY <1>2, <1>3, <1>4, <1>5, <1>6 DEF Quiet, SoundRest

-----------------------------------------------------------------------------
(* Rotations.                                                               *)

\* The version of the next token is higher than any, and there is one for each
\* rotation.
LEMMA NextVersionBound ==
  ASSUME TableInv
  PROVE  /\ NextVersion \in 1..(nrot + 2)
         /\ \A t \in TokensThere : tok[t].ver < NextVersion
<1> DEFINE S == {tok[t].ver : t \in TokensThere}
<1>1. tok \in [Tokens -> Token] /\ nrot \in Nat
  BY TypeParts, ConstantTypes DEF TableInv
<1>2. \A t \in TokensThere : t \in Tokens /\ tok[t].ver \in 0..(nrot + 1)
  <2>1. \A t \in Tokens : tok[t].ver \in Nat /\ tok[t].ver <= nrot + 1
    BY <1>1, ConstantTypes DEF Token, TableInv, Given
  <2>. QED BY <1>1, <2>1 DEF TokensThere
<1>3. S \in SUBSET (0..(nrot + 1))
  BY <1>2
<1>4. S # {}
  <2>1. PICK k \in Tokens : TokensThere = 1..k
    BY DEF TableInv, Numbered
  <2>2. k \in TokensThere
    BY <2>1, ConstantTypes
  <2>. QED BY <2>2
<1>5. Max(S) \in S /\ \A v \in S : v <= Max(S)
  <2> HIDE DEF S
  <2>1. nrot + 1 \in Nat
    BY <1>1
  <2> QED BY <1>3, <1>4, <2>1, MaxOfBounded
<1>6. Max(S) \in 0..(nrot + 1)
  BY <1>3, <1>5
<1>7. \A t \in TokensThere : tok[t].ver <= Max(S)
  BY <1>5
<1>8. NextVersion = Max(S) + 1
  BY DEF NextVersion
<1> HIDE DEF S
<1>. QED BY <1>1, <1>2, <1>6, <1>7, <1>8

\* What a rotation makes of a token.
LEMMA RotateRows ==
  ASSUME TypeOK, NEW a \in Admins, NEW immediate \in BOOLEAN, Rotate(a, immediate)
  PROVE  /\ SameRows
         /\ \A t \in Tokens :
              /\ tok'[t].state # "live"
              /\ tok'[t].state = "pending" => tok[t].state = "live" /\ tok'[t].rot = nrot + 1
<1>1. tok \in [Tokens -> Token] /\ nrot + 1 \in Rotations /\ RevokeTimeout \in 0..RevokeTimeout
  <2>1. tok \in [Tokens -> Token] /\ nrot \in 0..MaxRotations /\ nrot < MaxRotations
    BY TypeParts DEF Rotate, Rotations
  <2>. QED BY <2>1, ConstantsAssumption DEF Rotations
<1>2. ASSUME NEW t \in Tokens
      PROVE  /\ tok'[t] \in Token /\ tok'[t].ver = tok[t].ver
             /\ tok'[t].state = "none" <=> tok[t].state = "none"
             /\ tok'[t].state # "live"
             /\ tok'[t].state = "pending" => tok[t].state = "live" /\ tok'[t].rot = nrot + 1
  <2>0. tok'[t] = CASE tok[t].state = "pending" -> [tok[t] EXCEPT !.state = "revoked"]
         [] tok[t].state = "live" /\ immediate -> [tok[t] EXCEPT !.state = "revoked"]
         [] tok[t].state = "live" /\ ~immediate ->
              [tok[t] EXCEPT !.state = "pending", !.rot = nrot + 1, !.left = RevokeTimeout]
         [] OTHER -> tok[t]
    BY DEF Rotate
  <2>1. CASE tok[t].state = "pending" \/ (tok[t].state = "live" /\ immediate)
    <3>1. tok'[t] = [tok[t] EXCEPT !.state = "revoked"]
      BY <2>0, <2>1
    <3>. QED BY <1>1, <2>1, <3>1 DEF Token
  <2>2. CASE tok[t].state = "live" /\ ~immediate
    <3>1. tok'[t] = [tok[t] EXCEPT !.state = "pending", !.rot = nrot + 1, !.left = RevokeTimeout]
      BY <2>0, <2>2
    <3>. QED BY <1>1, <2>2, <3>1 DEF Token
  <2>3. CASE tok[t].state \notin {"live", "pending"}
    <3>1. tok'[t] = tok[t]
      BY <2>0, <2>3
    <3>. QED BY <1>1, <2>3, <3>1
  <2>. QED BY <2>1, <2>2, <2>3
<1>3. tok' \in [Tokens -> Token]
  BY <1>2 DEF Rotate
<1>. QED BY <1>2, <1>3 DEF SameRows

LEMMA RotateTable ==
  ASSUME TableInv, NEW a \in Admins, NEW immediate \in BOOLEAN, Rotate(a, immediate)
  PROVE  TableInv'
<1>1. /\ TypeOK /\ req \in [Admins -> Request] /\ agent \in Process /\ nrot \in Nat
      /\ nrot < MaxRotations /\ MaxRotations \in Nat /\ cut \in BOOLEAN
  BY TypeParts, ConstantTypes, ConstantsAssumption DEF TableInv, Rotate
<1>2. SameRows /\ TokensThere' = TokensThere
  BY <1>1, RotateRows, SameThere
<1>3. nrot' = nrot + 1 /\ nrot' \in Rotations /\ UNCHANGED <<cmd, memq, agent, disk, bak, polled, faults, gone>>
  <2>1. nrot' = nrot + 1 /\ UNCHANGED <<cmd, memq, agent, disk, bak, polled, faults, gone>>
    BY DEF Rotate
  <2>. QED BY <1>1, <2>1 DEF Rotations
<1>4. NextVersion \in Versions /\ NextVersion <= nrot' + 1
  BY <1>1, <1>3, NextVersionBound DEF Versions
<1>5. /\ req' = [req EXCEPT ![a] = [pc |-> "issue", rot |-> nrot + 1, token |-> 0,
                                    ver |-> NextVersion, immediate |-> immediate]]
      /\ req[a].pc = "idle"
  BY DEF Rotate
<1>6. \A b \in Admins \ {a} : req'[b] = req[b]
  BY <1>1, <1>5
<1>7. req'[a] = [pc |-> "issue", rot |-> nrot + 1, token |-> 0, ver |-> NextVersion, immediate |-> immediate]
  BY <1>1, <1>5
<1>8. req' \in [Admins -> Request]
  <2>1. 0 \in 0..(MaxRotations + 1)
    BY <1>1
  <2>2. req'[a] \in Request
    BY <1>3, <1>4, <1>7, <2>1 DEF Request
  <2>. QED BY <1>1, <1>5, <1>7, <2>2
<1>9. cut' \in BOOLEAN
  BY <1>1, Zenon DEF Rotate
<1>10. TypeOK'
  BY <1>1, <1>2, <1>3, <1>8, <1>9, TypeParts DEF SameRows, TypeOK, Token, Command, Request, Process
<1>11. Numbered'
  <2>1. Issuing' = Issuing \cup {a} /\ a \notin Issuing
    BY <1>5, <1>6, <1>7 DEF Issuing
  <2>2. IsFiniteSet(Issuing') /\ Cardinality(Issuing') = Cardinality(Issuing) + 1
    BY <2>1, FS_AddElement DEF TableInv, Numbered
  <2>3. IsFiniteSet(TokensThere)
    BY FS_Interval, ConstantTypes DEF TableInv, Numbered
  <2>4. Cardinality(TokensThere) \in Nat /\ Cardinality(Issuing) \in Nat
    BY <2>3, FS_CardinalityType DEF TableInv, Numbered
  <2>. QED BY <1>1, <1>2, <1>3, <2>2, <2>4 DEF TableInv, Numbered
<1>12. Given'
  <2>1. \A t \in Tokens : tok'[t].ver <= nrot' + 1 /\ cmd'[t].rot <= nrot'
    <3>1. \A t \in Tokens : tok[t].ver \in Nat /\ cmd[t].rot \in Nat
      BY <1>1, ConstantTypes, TypeParts DEF Token, Command
    <3>. QED BY <1>1, <1>2, <1>3, <3>1 DEF SameRows, TableInv, Given
  <2>2. \A b \in Admins : req'[b].ver <= nrot' + 1 /\ req'[b].rot <= nrot'
    <3>1. \A b \in Admins : req[b].ver \in Nat /\ req[b].rot \in Nat
      BY <1>1, ConstantTypes DEF Request
    <3>. QED BY <1>1, <1>3, <1>4, <1>6, <1>7, <3>1 DEF TableInv, Given
  <2>. QED BY <2>1, <2>2 DEF Given
<1>13. Carried'
  BY <1>2, <1>3, <1>6, <1>7 DEF TableInv, Carried
<1>. QED BY <1>10, <1>11, <1>12, <1>13 DEF TableInv

\* The row that a rotation inserts is the next one, and there is room for it.
LEMMA IssueRow ==
  ASSUME TableInv, NEW a \in Admins, Issue(a)
  PROVE  \E n \in Tokens \ TokensThere :
           /\ n = Cardinality(TokensThere) + 1 /\ TokensThere = 1..(n - 1)
           /\ TokensThere' = 1..n /\ TokensThere' = TokensThere \cup {n}
           /\ tok' \in [Tokens -> Token]
           /\ tok'[n] = [state |-> "live", ver |-> req[a].ver, rot |-> req[a].rot, left |-> 0]
           /\ \A t \in Tokens \ {n} : tok'[t] = tok[t]
           /\ n <= nrot + 1
<1>1. /\ tok \in [Tokens -> Token] /\ req \in [Admins -> Request] /\ nrot \in Nat
      /\ nrot <= MaxRotations /\ MaxRotations \in Nat
  <2>1. nrot \in 0..MaxRotations /\ MaxRotations \in Nat
    BY TypeParts, ConstantsAssumption DEF TableInv, Rotations
  <2>. QED BY <2>1, TypeParts DEF TableInv
<1>2. PICK k \in Tokens : TokensThere = 1..k
  BY DEF TableInv, Numbered
<1>3. k \in Nat /\ k > 0 /\ Cardinality(TokensThere) = k
  <2>1. k \in Nat /\ k > 0
    BY ConstantTypes
  <2>. QED BY <1>2, <2>1, FS_Interval
<1>4. k <= nrot
  <2>1. a \in Issuing /\ IsFiniteSet(Issuing)
    BY DEF Issue, Issuing, TableInv, Numbered
  <2>2. Cardinality(Issuing) \in Nat /\ Cardinality(Issuing) # 0
    BY <2>1, FS_CardinalityType, FS_EmptySet
  <2>. QED BY <1>1, <1>3, <2>2 DEF TableInv, Numbered
<1>5. k + 1 \in Tokens /\ k + 1 \notin TokensThere
  BY <1>1, <1>2, <1>3, <1>4 DEF Tokens
<1>6. tok' = [tok EXCEPT ![k + 1] = [state |-> "live", ver |-> req[a].ver, rot |-> req[a].rot, left |-> 0]]
  BY <1>3 DEF Issue
<1>7. [state |-> "live", ver |-> req[a].ver, rot |-> req[a].rot, left |-> 0] \in Token
  <2>1. 0 \in 0..RevokeTimeout
    BY ConstantsAssumption
  <2>. QED BY <1>1, <2>1 DEF Token, Request
<1>8. /\ tok' \in [Tokens -> Token]
      /\ tok'[k + 1] = [state |-> "live", ver |-> req[a].ver, rot |-> req[a].rot, left |-> 0]
      /\ \A t \in Tokens \ {k + 1} : tok'[t] = tok[t]
  BY <1>1, <1>5, <1>6, <1>7
<1>9. TokensThere' = TokensThere \cup {k + 1}
  <2>1. tok'[k + 1].state = "live"
    BY <1>8
  <2>. QED BY <1>5, <1>8, <2>1 DEF TokensThere
<1>10. TokensThere' = 1..(k + 1) /\ TokensThere = 1..((k + 1) - 1)
  BY <1>2, <1>3, <1>9
<1>. QED BY <1>1, <1>3, <1>4, <1>5, <1>8, <1>9, <1>10

LEMMA IssueTable == ASSUME TableInv, NEW a \in Admins, Issue(a) PROVE TableInv'
<1>1. PICK n \in Tokens \ TokensThere :
           /\ n = Cardinality(TokensThere) + 1 /\ TokensThere = 1..(n - 1)
           /\ TokensThere' = 1..n /\ TokensThere' = TokensThere \cup {n}
           /\ tok' \in [Tokens -> Token]
           /\ tok'[n] = [state |-> "live", ver |-> req[a].ver, rot |-> req[a].rot, left |-> 0]
           /\ \A t \in Tokens \ {n} : tok'[t] = tok[t]
           /\ n <= nrot + 1
  BY IssueRow
<1>2. /\ req \in [Admins -> Request] /\ cmd \in [Tokens -> Command] /\ nrot \in Nat /\ n \in Nat /\ n > 0
      /\ memq \in Seq(TokensThere) /\ agent.inbox \in Seq(TokensThere)
  <2>1. req \in [Admins -> Request] /\ cmd \in [Tokens -> Command] /\ nrot \in Nat
    BY TypeParts, ConstantTypes DEF TableInv
  <2>2. n \in Nat /\ n > 0
    BY ConstantTypes
  <2>. QED BY <2>1, <2>2 DEF TableInv, Carried
<1>3. UNCHANGED <<memq, nrot, agent, disk, bak, polled, faults, cut, gone>> /\ req[a].pc = "issue"
  BY DEF Issue
<1>4. /\ cmd' \in [Tokens -> Command] /\ \A t \in Tokens : cmd'[t].rot = cmd[t].rot
      /\ \A t \in Tokens \ {n} : cmd'[t] = cmd[t]
  <2>1. CASE cmd' = cmd
    BY <1>2, <2>1
  <2>2. CASE cmd' = [cmd EXCEPT ![n].status = "manual"]
    <3>1. cmd'[n] = [cmd[n] EXCEPT !.status = "manual"]
      BY <1>2, <2>2
    <3>2. cmd[n] \in Command
      BY <1>2
    <3>3. cmd'[n] \in Command /\ cmd'[n].rot = cmd[n].rot
      BY <3>1, <3>2 DEF Command
    <3>. QED BY <1>2, <2>2, <3>3
  <2>. QED BY <1>1, <2>1, <2>2 DEF Issue
<1>5. /\ req' \in [Admins -> Request] /\ req'[a].pc # "issue"
      /\ req'[a].ver \in {0, req[a].ver} /\ req'[a].rot \in {0, req[a].rot}
      /\ req'[a].pc = "push" => req'[a].token = n
      /\ \A b \in Admins \ {a} : req'[b] = req[b]
  <2>1. CASE req' = [req EXCEPT ![a] = Idle]
    <3>1. Idle \in Request
      <4>1. 0 \in 0..(MaxRotations + 1)
        BY ConstantsAssumption
      <4>. QED BY <4>1, ConstantTypes DEF Idle, Request
    <3>2. req'[a] = Idle /\ \A b \in Admins \ {a} : req'[b] = req[b]
      BY <1>2, <2>1
    <3>. QED BY <1>2, <2>1, <3>1, <3>2 DEF Idle
  <2>2. CASE req' = [req EXCEPT ![a].pc = "push", ![a].token = n]
    <3>1. req'[a] = [req[a] EXCEPT !.pc = "push", !.token = n] /\ \A b \in Admins \ {a} : req'[b] = req[b]
      BY <1>2, <2>2
    <3>2. n \in 0..(MaxRotations + 1)
      BY <1>2 DEF Tokens
    <3>3. req'[a] \in Request /\ req'[a].pc = "push" /\ req'[a].token = n
          /\ req'[a].ver = req[a].ver /\ req'[a].rot = req[a].rot
      <4>1. req[a] \in Request
        BY <1>2
      <4>. QED BY <3>1, <3>2, <4>1 DEF Request
    <3>4. req' \in [Admins -> Request]
      BY <1>2, <2>2, <3>1, <3>3
    <3>. QED BY <3>1, <3>3, <3>4
  <2>. QED BY <1>1, <2>1, <2>2 DEF Issue
<1>6. TypeOK'
  BY <1>1, <1>3, <1>4, <1>5, TypeParts DEF TableInv, TypeOK, Token, Command, Request, Process
<1>7. Numbered'
  <2>1. Issuing' = Issuing \ {a} /\ a \in Issuing
    BY <1>3, <1>5 DEF Issuing
  <2>2. IsFiniteSet(Issuing') /\ Cardinality(Issuing') = Cardinality(Issuing) - 1
    BY <2>1, FS_RemoveElement DEF TableInv, Numbered
  <2>3. Cardinality(TokensThere') = n /\ Cardinality(TokensThere) = n - 1
    <3>1. 1 \in Int /\ n \in Int /\ n - 1 \in Int /\ ~(1 > n)
      BY <1>2
    <3>2. Cardinality(1..n) = n - 1 + 1 /\ Cardinality(1..(n - 1)) = IF 1 > n - 1 THEN 0 ELSE n - 1 - 1 + 1
      BY <3>1, FS_Interval
    <3>3. Cardinality(1..n) = n /\ Cardinality(1..(n - 1)) = n - 1
      BY <1>2, <3>2
    <3>. QED BY <1>1, <3>3, Zenon
  <2>4. Cardinality(Issuing) \in Nat
    BY FS_CardinalityType DEF TableInv, Numbered
  <2>. QED BY <1>1, <1>2, <1>3, <2>2, <2>3, <2>4 DEF TableInv, Numbered
<1>8. Given'
  <2>1. \A t \in Tokens : tok'[t].ver <= nrot' + 1 /\ cmd'[t].rot <= nrot'
    <3>1. req[a].ver <= nrot + 1 /\ tok'[n].ver = req[a].ver
      BY <1>1 DEF TableInv, Given
    <3>. QED BY <1>1, <1>3, <1>4, <3>1 DEF TableInv, Given
  <2>2. \A b \in Admins : req'[b].ver <= nrot' + 1 /\ req'[b].rot <= nrot'
    BY <1>2, <1>3, <1>5 DEF TableInv, Given
  <2>. QED BY <2>1, <2>2 DEF Given
<1>9. Carried'
  <2>1. memq' \in Seq(TokensThere') /\ agent'.inbox \in Seq(TokensThere')
    <3>1. TokensThere \subseteq TokensThere'
      BY <1>1
    <3>. QED BY <1>2, <1>3, <3>1, SeqGrows
  <2>2. \A t \in Tokens : cmd'[t].rot # 0 \/ cmd'[t].status # "none" => t \in TokensThere'
    BY <1>1, <1>4 DEF TableInv, Carried
  <2>3. \A b \in Admins : req'[b].pc = "push" => req'[b].token \in TokensThere'
    BY <1>1, <1>5 DEF TableInv, Carried
  <2>. QED BY <1>3, <2>1, <2>2, <2>3 DEF TableInv, Carried
<1>. QED BY <1>6, <1>7, <1>8, <1>9 DEF TableInv

\* Requests that end.
LEMMA RequestEnds ==
  ASSUME TableInv, req' \in [Admins -> Request], \A b \in Admins : req'[b] \in {req[b], Idle},
         UNCHANGED <<tok, nrot>>
  PROVE  /\ TokensThere' = TokensThere /\ Numbered'
         /\ \A b \in Admins : /\ req'[b].ver <= nrot' + 1 /\ req'[b].rot <= nrot'
                              /\ req'[b].pc = "push" => req'[b].token \in TokensThere'
<1>1. TokensThere' = TokensThere
  BY DEF TokensThere
<1>2. Issuing' \in SUBSET Issuing
  BY DEF Issuing, Idle
<1>3. IsFiniteSet(Issuing') /\ Cardinality(Issuing') <= Cardinality(Issuing)
  BY <1>2, FS_Subset DEF TableInv, Numbered
<1>4. /\ Cardinality(TokensThere) \in Nat /\ Cardinality(Issuing) \in Nat /\ Cardinality(Issuing') \in Nat
      /\ nrot \in Nat
  <2>1. IsFiniteSet(TokensThere)
    BY FS_Interval, ConstantTypes DEF TableInv, Numbered
  <2>. QED BY <1>3, <2>1, FS_CardinalityType, TypeParts, ConstantTypes DEF TableInv, Numbered
<1>5. Numbered'
  BY <1>1, <1>3, <1>4 DEF TableInv, Numbered
<1>6. \A b \in Admins : /\ req'[b].ver <= nrot' + 1 /\ req'[b].rot <= nrot'
                        /\ req'[b].pc = "push" => req'[b].token \in TokensThere'
  BY <1>1, <1>4 DEF TableInv, Given, Carried, Idle
<1>. QED BY <1>1, <1>5, <1>6

\* The command that a request queues.
LEMMA PushCommand ==
  ASSUME TableInv, NEW a \in Admins, Push(a)
  PROVE  LET t == req[a].token IN
         /\ t \in TokensThere /\ t \in Tokens
         /\ cmd' \in [Tokens -> Command] /\ cmd'[t].rot = req[a].rot
         /\ \A u \in Tokens \ {t} : cmd'[u] = cmd[u]
         /\ memq' \in Seq(TokensThere) /\ faults' \in 0..MaxFaults
<1> DEFINE t == req[a].token
<1>1. /\ req[a] \in Request /\ cmd \in [Tokens -> Command] /\ memq \in Seq(TokensThere) /\ TypeOK
      /\ t \in TokensThere /\ t \in Tokens
  BY TypeParts DEF TableInv, Carried, Push, TokensThere
<1>2. NoCommand \in Command
  <2>1. 0 \in 0..CommandTtl /\ 0 \in 0..ClaimTimeout
    BY ConstantsAssumption
  <2>. QED BY <2>1, ConstantTypes DEF NoCommand, Command
<1>3. PICK status \in {"pending", "memory"} :
        cmd' = [cmd EXCEPT ![t] = [NoCommand EXCEPT !.status = status, !.rot = req[a].rot]]
  BY DEF Push
<1>4. cmd'[t] = [NoCommand EXCEPT !.status = status, !.rot = req[a].rot]
      /\ \A u \in Tokens \ {t} : cmd'[u] = cmd[u]
  BY <1>1, <1>3
<1>5. cmd'[t] \in Command /\ cmd'[t].rot = req[a].rot
  BY <1>1, <1>2, <1>4 DEF Command, Request
<1>6. cmd' \in [Tokens -> Command]
  BY <1>1, <1>3, <1>4, <1>5
<1>7. memq' = memq \/ memq' = Append(memq, t)
  BY DEF Push
<1>8. memq' \in Seq(TokensThere)
  BY <1>1, <1>7
<1>9. faults' \in 0..MaxFaults
  BY <1>1, FaultType DEF Push, AllFaults
<1>. QED BY <1>1, <1>4, <1>5, <1>6, <1>8, <1>9

LEMMA PushTable == ASSUME TableInv, NEW a \in Admins, Push(a) PROVE TableInv'
<1> DEFINE t == req[a].token
<1>1. /\ t \in TokensThere /\ t \in Tokens
      /\ cmd' \in [Tokens -> Command] /\ cmd'[t].rot = req[a].rot
      /\ \A u \in Tokens \ {t} : cmd'[u] = cmd[u]
      /\ memq' \in Seq(TokensThere) /\ faults' \in 0..MaxFaults
  BY PushCommand
<1>2. req \in [Admins -> Request] /\ Idle \in Request
  <2>1. 0 \in 0..(MaxRotations + 1)
    BY ConstantsAssumption
  <2>. QED BY <2>1, ConstantTypes, TypeParts DEF TableInv, Idle, Request
<1>3. req' = [req EXCEPT ![a] = Idle] /\ UNCHANGED <<tok, nrot, agent, disk, bak, polled, cut, gone>>
  BY DEF Push
<1>4. req' \in [Admins -> Request] /\ \A b \in Admins : req'[b] \in {req[b], Idle}
  BY <1>2, <1>3
<1>5. /\ TokensThere' = TokensThere /\ Numbered'
      /\ \A b \in Admins : /\ req'[b].ver <= nrot' + 1 /\ req'[b].rot <= nrot'
                           /\ req'[b].pc = "push" => req'[b].token \in TokensThere'
  BY <1>3, <1>4, RequestEnds
<1>6. TypeOK'
  <2>1. memq' \in Seq(Tokens)
    BY <1>1, SeqGrows DEF TokensThere
  <2>. QED BY <1>1, <1>3, <1>4, <2>1, TypeParts DEF TableInv, TypeOK, Token, Command, Request, Process
<1>7. Given'
  <2>1. \A u \in Tokens : tok'[u].ver <= nrot' + 1 /\ cmd'[u].rot <= nrot'
    BY <1>1, <1>3 DEF TableInv, Given
  <2>. QED BY <1>5, <2>1 DEF Given
<1>8. Carried'
  <2>1. \A u \in Tokens : cmd'[u].rot # 0 \/ cmd'[u].status # "none" => u \in TokensThere'
    BY <1>1, <1>5 DEF TableInv, Carried
  <2>. QED BY <1>1, <1>3, <1>5, <2>1 DEF TableInv, Carried
<1>. QED BY <1>5, <1>6, <1>7, <1>8 DEF TableInv

LEMMA CrashTable == ASSUME TableInv, Crash PROVE TableInv'
<1>1. /\ req' = [a \in Admins |-> Idle] /\ memq' = <<>>
      /\ UNCHANGED <<tok, cmd, nrot, agent, disk, bak, polled, gone>>
  BY DEF Crash
<1>2. Idle \in Request
  <2>1. 0 \in 0..(MaxRotations + 1)
    BY ConstantsAssumption
  <2>. QED BY <2>1, ConstantTypes DEF Idle, Request
<1>3. req' \in [Admins -> Request] /\ \A b \in Admins : req'[b] \in {req[b], Idle}
  BY <1>1, <1>2
<1>4. /\ TokensThere' = TokensThere /\ Numbered'
      /\ \A b \in Admins : /\ req'[b].ver <= nrot' + 1 /\ req'[b].rot <= nrot'
                           /\ req'[b].pc = "push" => req'[b].token \in TokensThere'
  BY <1>1, <1>3, RequestEnds
<1>5. memq' \in Seq(Tokens) /\ memq' \in Seq(TokensThere)
  BY <1>1
<1>6. cut' \in BOOLEAN
  BY Zenon, TypeParts DEF Crash, TableInv
<1>7. faults' \in 0..MaxFaults
  BY FaultType DEF Crash, AllFaults, TableInv
<1>8. TypeOK'
  BY <1>1, <1>3, <1>5, <1>6, <1>7, TypeParts DEF TableInv, TypeOK, Token, Command, Request, Process
<1>9. Given'
  BY <1>1, <1>4 DEF TableInv, Given
<1>10. Carried'
  BY <1>1, <1>4, <1>5 DEF TableInv, Carried
<1>. QED BY <1>4, <1>8, <1>9, <1>10 DEF TableInv

\* The steps that leave rows and requests alone.
Others == Poll \/ Register \/ Boot \/ Refuse \/ TakeToken \/ TakeVersion \/ Ack \/ Report \/ Kill
          \/ EditConfig \/ EditDropped \/ RevokeAll \/ Cleanup \/ Tick

LEMMA OthersQuiet == TableInv /\ Others => Quiet
BY PollQuiet, LocalQuiet, AckQuiet, ServerQuiet DEF Others

LEMMA NextParts ==
  Next <=> Others \/ Crash \/ \E a \in Admins : Issue(a) \/ Push(a) \/ \E i \in BOOLEAN : Rotate(a, i)
BY DEF Next, Others, Agent, Serve

LEMMA TableStep == TableInv /\ [Next]_vars => TableInv'
<1> SUFFICES ASSUME TableInv, [Next]_vars PROVE TableInv'
  OBVIOUS
<1>1. CASE Others
  BY <1>1, OthersQuiet, QuietTable
<1>2. CASE UNCHANGED vars
  BY <1>2 DEF vars, TableInv, TypeOK, Numbered, Given, Carried, Issuing, TokensThere
<1>. QED BY <1>1, <1>2, NextParts, CrashTable, IssueTable, PushTable, RotateTable

\* The token table, the commands and the queue in memory, the requests and the
\* agent's copies keep to their types: versions and rotation ids stay within
\* those given, and every insertion has a row, also with requests side by side.
THEOREM TypeCorrect == Spec => []TypeOK
<1>1. TableInv => TypeOK
  BY DEF TableInv
<1>. QED BY <1>1, InitTable, TableStep, PTL DEF Spec

-----------------------------------------------------------------------------
(* One lasting token.                                                       *)

\* Outside of rotations a token's state only becomes "revoked".
Ages == \A t \in Tokens : tok'[t].rot = tok[t].rot /\ tok'[t].state \in {tok[t].state, "revoked"}

LEMMA ConfirmAges == ASSUME TypeOK, NEW rot, Confirm(rot) PROVE Ages
<1>1. tok \in [Tokens -> Token]
  BY TypeParts
<1>2. CASE UNCHANGED <<tok, gone>>
  BY <1>2 DEF Ages
<1>3. CASE \E t \in Tokens : tok' = [tok EXCEPT ![t].state = "revoked"]
  <2>1. PICK t \in Tokens : tok' = [tok EXCEPT ![t].state = "revoked"]
    BY <1>3
  <2>2. tok'[t] = [tok[t] EXCEPT !.state = "revoked"] /\ \A u \in Tokens \ {t} : tok'[u] = tok[u]
    BY <1>1, <2>1
  <2>3. tok'[t].state = "revoked" /\ tok'[t].rot = tok[t].rot
    BY <1>1, <2>2 DEF Token
  <2>. QED BY <2>2, <2>3 DEF Ages
<1>. QED BY <1>2, <1>3 DEF Confirm

LEMMA OthersAge == ASSUME TableInv, Others PROVE Ages
<1>1. TypeOK /\ tok \in [Tokens -> Token]
  BY TypeParts DEF TableInv
<1>2. CASE tok' = tok
  BY <1>2 DEF Ages
<1>3. CASE Ack
  BY <1>1, <1>2, <1>3, ConfirmAges DEF Ack
<1>4. CASE RevokeAll \/ Cleanup
  <2>1. \A t \in Tokens : tok'[t] = tok[t] \/ tok'[t] = [tok[t] EXCEPT !.state = "revoked"]
    BY <1>4 DEF RevokeAll, Cleanup
  <2>. QED BY <1>1, <2>1 DEF Ages, Token
<1>5. CASE Tick
  <2> SUFFICES ASSUME NEW t \in Tokens PROVE tok'[t].rot = tok[t].rot /\ tok'[t].state = tok[t].state
    BY DEF Ages
  <2>1. \E n : tok'[t] = [tok[t] EXCEPT !.left = n]
    BY <1>5 DEF Tick
  <2>. QED BY <1>1, <2>1 DEF Token
<1>. QED BY <1>2, <1>3, <1>4, <1>5 DEF Others, Poll, Register, Boot, Refuse, TakeToken, TakeVersion,
         Report, Kill, EditConfig, EditDropped

LEMMA InitLasting == Init => LastingInv
<1> SUFFICES ASSUME Init PROVE Vacant /\ OneLastingToken
  BY InitTable DEF LastingInv
<1>1. Vacant
  BY DEF Init, Vacant, Idle
<1>2. TokensThere = {1}
  <2>1. \A t \in Tokens \ {1} : tok[t].state = "none"
    BY DEF Init, Unused
  <2>2. TokensThere # {}
    <3>1. PICK k \in Tokens : TokensThere = 1..k
      BY InitTable DEF TableInv, Numbered
    <3>2. k \in Nat /\ k > 0
      BY ConstantTypes
    <3>3. 1 \in 1..k
      BY <3>2
    <3>. QED BY <3>1, <3>3
  <2>. QED BY <2>1, <2>2 DEF TokensThere
<1>3. OneLastingToken
  BY <1>2 DEF OneLastingToken, TokensThere
<1>. QED BY <1>1, <1>3

LEMMA LastingStep ==
  ASSUME \A a, b \in Admins : a = b, LastingInv, [Next]_vars
  PROVE  LastingInv'
<1> SUFFICES Vacant' /\ OneLastingToken'
  BY TableStep DEF LastingInv
<1>1. tok \in [Tokens -> Token] /\ req \in [Admins -> Request]
  BY TypeParts DEF LastingInv, TableInv
<1>2. \A t \in Tokens : tok[t].ver \in Nat
  BY <1>1, ConstantTypes DEF Token
<1>3. CASE SameRows /\ UNCHANGED req /\ Ages
  <2>1. TokensThere' = TokensThere
    BY <1>3, SameThere
  <2>2. \A t \in TokensThere : /\ t \in Tokens /\ tok'[t].ver = tok[t].ver
                               /\ tok'[t].state = "live" => tok[t].state = "live"
    BY <1>3 DEF SameRows, TokensThere, Ages
  <2>3. Vacant'
    BY <1>3, <2>1, <2>2 DEF LastingInv, Vacant
  <2>4. \A t \in Tokens : tok'[t].state = "live" => t \in TokensThere
    BY <1>3 DEF Ages, TokensThere
  <2>5. OneLastingToken'
    BY <2>1, <2>2, <2>4 DEF LastingInv, OneLastingToken
  <2>. QED BY <2>3, <2>5
<1>4. CASE Others
  BY <1>3, <1>4, OthersQuiet, OthersAge DEF LastingInv, Quiet
<1>5. CASE Crash \/ UNCHANGED vars \/ \E a \in Admins : Push(a)
  <2>1. tok' = tok /\ \A a \in Admins : req'[a].pc = "issue" => req'[a] = req[a]
    <3>1. CASE Crash
      BY <3>1 DEF Crash, Idle
    <3>2. CASE UNCHANGED vars
      BY <3>2 DEF vars
    <3>3. CASE \E a \in Admins : Push(a)
      <4>1. PICK a \in Admins : Push(a)
        BY <3>3
      <4>2. tok' = tok /\ req' = [req EXCEPT ![a] = Idle]
        BY <4>1 DEF Push
      <4>. QED BY <1>1, <4>2 DEF Idle
    <3>. QED BY <1>5, <3>1, <3>2, <3>3
  <2>. QED BY <2>1 DEF LastingInv, Vacant, OneLastingToken, TokensThere
<1>6. ASSUME NEW a \in Admins, NEW i \in BOOLEAN, Rotate(a, i)
      PROVE  Vacant' /\ OneLastingToken'
  <2>1. SameRows /\ (\A t \in Tokens : tok'[t].state # "live") /\ TokensThere' = TokensThere
    BY <1>6, RotateRows, SameThere DEF LastingInv, TableInv
  <2>2. req' = [req EXCEPT ![a] = [pc |-> "issue", rot |-> nrot + 1, token |-> 0,
                                   ver |-> NextVersion, immediate |-> i]]
    BY <1>6 DEF Rotate
  <2>3. req'[a].ver = NextVersion
    BY <1>1, <2>2
  <2>4. \A b \in Admins : req'[b].ver = NextVersion
    BY <2>3
  <2>5. \A t \in TokensThere : tok'[t].ver < NextVersion
    BY <2>1, NextVersionBound DEF LastingInv, SameRows, TokensThere
  <2>6. Vacant'
    BY <2>1, <2>4, <2>5 DEF Vacant, TokensThere
  <2>. QED BY <2>1, <2>6 DEF OneLastingToken
<1>7. ASSUME NEW a \in Admins, Issue(a)
      PROVE  Vacant' /\ OneLastingToken'
  <2>1. PICK n \in Tokens \ TokensThere :
           /\ TokensThere' = TokensThere \cup {n}
           /\ tok'[n] = [state |-> "live", ver |-> req[a].ver, rot |-> req[a].rot, left |-> 0]
           /\ \A t \in Tokens \ {n} : tok'[t] = tok[t]
    BY <1>7, IssueRow DEF LastingInv
  <2>2. \A t \in TokensThere : /\ t \in Tokens \ {n} /\ tok'[t] = tok[t]
                               /\ tok[t].state # "live" /\ tok[t].ver < req[a].ver
    BY <1>7, <2>1 DEF Issue, LastingInv, Vacant, TokensThere
  <2>3. \A b \in Admins : req'[b].pc # "issue"
    <3>1. req'[a].pc # "issue"
      <4>1. CASE req' = [req EXCEPT ![a] = Idle]
        BY <1>1, <4>1 DEF Idle
      <4>2. CASE \E m : req' = [req EXCEPT ![a].pc = "push", ![a].token = m]
        <5>1. PICK m : req' = [req EXCEPT ![a].pc = "push", ![a].token = m]
          BY <4>2
        <5>2. req'[a] = [req[a] EXCEPT !.pc = "push", !.token = m]
          BY <1>1, <5>1
        <5>. QED BY <1>1, <5>2 DEF Request
      <4>. QED BY <1>7, <4>1, <4>2 DEF Issue
    <3>. QED BY <3>1
  <2>4. OneLastingToken'
    <3>1. \A t \in Tokens : tok'[t].state = "live" => t = n
      BY <2>1, <2>2 DEF TokensThere
    <3>2. tok'[n].ver = req[a].ver
      BY <2>1
    <3>. QED BY <2>1, <2>2, <3>1, <3>2 DEF OneLastingToken
  <2>. QED BY <2>3, <2>4 DEF Vacant
<1>. QED BY <1>4, <1>5, <1>6, <1>7, NextParts

\* With one request at a time, one token at most is not to be revoked, and it
\* has the highest version: rotations, retries of the agent, revocations and
\* crashes between a rotation's two transactions leave it so.
THEOREM OneTokenLasts ==
  ASSUME \A a, b \in Admins : a = b
  PROVE  Spec => []OneLastingToken
<1>1. LastingInv /\ [Next]_vars => LastingInv'
  BY LastingStep
<1>2. LastingInv => OneLastingToken
  BY DEF LastingInv
<1>. QED BY <1>1, <1>2, InitLasting, PTL DEF Spec

-----------------------------------------------------------------------------
(* A confirmation is final, as long as the agent can write to its file.     *)

\* What the process writes is what it starts with again: every write succeeds,
\* no edit sends it back to the backup and the environment sets no token.
OwnFile == "disk" \notin Faults /\ "mismatch" \notin Faults /\ ~Pinned

LEMMA InitFinal == Init => FinalInv
<1> SUFFICES ASSUME Init PROVE Superseded /\ InStep /\ Outdated /\ Apart
  BY InitTable DEF FinalInv
<1>1. \A t \in Tokens : tok[t].state # "pending"
  <2>1. [Unused EXCEPT !.state = "live", !.ver = 1].state = "live" /\ Unused.state = "none"
    BY DEF Unused
  <2>2. \A t \in Tokens : tok[t] \in {[Unused EXCEPT !.state = "live", !.ver = 1], Unused}
    BY DEF Init
  <2>. QED BY <2>1, <2>2
<1>2. Superseded
  BY <1>1 DEF Init, Superseded, Older, Idle
<1>3. InStep
  BY DEF Init, InStep
<1>. QED BY <1>2, <1>3 DEF Init, Outdated, Apart

\* What waits for a rotation only loses members.
LEMMA OlderStays ==
  ASSUME SameRows, Ages, NEW r, NEW v, Older(r, v)
  PROVE  Older(r, v)'
BY DEF Older, SameRows, Ages

LEMMA OthersSuperseded == ASSUME TableInv, Superseded, Others PROVE Superseded'
<1>1. SameRows /\ Ages /\ req' = req /\ \A t \in Tokens : cmd'[t].rot = cmd[t].rot
  BY OthersQuiet, OthersAge DEF Quiet, SameCommands
<1>2. \A t \in Tokens : tok'[t].state = "pending" => tok'[t].rot # 0
  BY <1>1 DEF Ages, Superseded
<1>3. \A t \in Tokens : Older(cmd[t].rot, tok[t].ver)'
  BY <1>1 DEF Superseded, SameRows, Ages, Older
<1>4. \A a \in Admins : /\ req[a].pc = "issue" => Older(req[a].rot, req[a].ver)'
                        /\ req[a].pc = "push" => Older(req[a].rot, tok[req[a].token].ver)'
  <2> SUFFICES ASSUME NEW a \in Admins
               PROVE  /\ req[a].pc = "issue" => Older(req[a].rot, req[a].ver)'
                      /\ req[a].pc = "push" => Older(req[a].rot, tok[req[a].token].ver)'
    OBVIOUS
  <2>1. CASE req[a].pc = "issue"
    BY <1>1, <2>1 DEF Superseded, SameRows, Ages, Older
  <2>2. CASE req[a].pc = "push"
    <3>1. req[a].token \in Tokens
      BY <2>2 DEF TableInv, Carried, TokensThere
    <3>. QED BY <1>1, <2>2, <3>1 DEF Superseded, SameRows, Ages, Older
  <2>. QED BY <2>1, <2>2
<1>. QED BY <1>1, <1>2, <1>3, <1>4 DEF Superseded

\* A rotation revokes what waited for another one.
LEMMA RotateSuperseded ==
  ASSUME TableInv, Superseded, NEW a \in Admins, NEW i \in BOOLEAN, Rotate(a, i)
  PROVE  Superseded'
<1>1. SameRows /\ \A t \in Tokens :
         tok'[t].state = "pending" => tok[t].state = "live" /\ tok'[t].rot = nrot + 1
  BY RotateRows DEF TableInv
<1>2. /\ nrot \in Nat /\ req \in [Admins -> Request]
      /\ \A t \in Tokens : cmd[t].rot \in Nat /\ cmd[t].rot <= nrot
      /\ \A b \in Admins : req[b].rot \in Nat /\ req[b].rot <= nrot
  BY TypeParts, ConstantTypes DEF TableInv, Given, Command, Request
<1>3. cmd' = cmd /\ req' = [req EXCEPT ![a] = [pc |-> "issue", rot |-> nrot + 1, token |-> 0,
                                               ver |-> NextVersion, immediate |-> i]]
  BY DEF Rotate
<1>4. \A r \in Nat : \A v : r <= nrot => Older(r, v)'
  BY <1>1, <1>2 DEF Older
<1>5. req'[a].pc = "issue" /\ req'[a].rot = nrot + 1 /\ req'[a].ver = NextVersion
      /\ \A b \in Admins \ {a} : req'[b] = req[b]
  BY <1>2, <1>3
<1>6. \A u \in Tokens : tok'[u].state = "pending" => tok'[u].ver < req'[a].ver
  <2> SUFFICES ASSUME NEW u \in Tokens, tok'[u].state = "pending"
               PROVE  tok'[u].ver < NextVersion
    BY <1>5
  <2>1. u \in TokensThere
    BY <1>1 DEF TokensThere
  <2>. QED BY <1>1, <2>1, NextVersionBound DEF SameRows
<1>7. \A t \in Tokens : tok'[t].state = "pending" => tok'[t].rot # 0
  BY <1>1, <1>2
<1>8. \A t \in Tokens : Older(cmd[t].rot, tok[t].ver)'
  BY <1>2, <1>3, <1>4
<1>9. \A b \in Admins : /\ req'[b].pc = "issue" => Older(req[b].rot, req[b].ver)'
                        /\ req'[b].pc = "push" => Older(req[b].rot, tok[req[b].token].ver)'
  <2>1. ASSUME NEW b \in Admins \ {a} PROVE \A v : Older(req[b].rot, v)'
    BY <1>2, <1>4, <1>5
  <2>2. Older(req[a].rot, req[a].ver)'
    BY <1>6 DEF Older
  <2>. QED BY <1>5, <2>1, <2>2
<1>. QED BY <1>7, <1>8, <1>9 DEF Superseded

\* The token that is inserted takes over what its rotation is to replace.
LEMMA IssueSuperseded ==
  ASSUME TableInv, Superseded, NEW a \in Admins, Issue(a)
  PROVE  Superseded'
<1>1. PICK n \in Tokens \ TokensThere :
           /\ n = Cardinality(TokensThere) + 1
           /\ tok'[n] = [state |-> "live", ver |-> req[a].ver, rot |-> req[a].rot, left |-> 0]
           /\ \A t \in Tokens \ {n} : tok'[t] = tok[t]
  BY IssueRow
<1>2. req \in [Admins -> Request] /\ cmd \in [Tokens -> Command]
  BY TypeParts DEF TableInv
<1>3. \A t \in Tokens : cmd'[t].rot = cmd[t].rot
  <2>1. CASE cmd' = cmd
    BY <2>1
  <2>2. CASE cmd' = [cmd EXCEPT ![n].status = "manual"]
    <3>1. cmd'[n] = [cmd[n] EXCEPT !.status = "manual"] /\ \A t \in Tokens \ {n} : cmd'[t] = cmd[t]
      BY <1>2, <2>2
    <3>. QED BY <1>2, <3>1 DEF Command
  <2>. QED BY <1>1, <2>1, <2>2 DEF Issue
<1>4. \A u \in Tokens : tok'[u].state = "pending" => u # n /\ tok'[u] = tok[u]
  BY <1>1
<1>5. \A r, v : Older(r, v) => Older(r, v)'
  BY <1>4 DEF Older
<1>6. \A t \in Tokens : tok'[t].state = "pending" => tok'[t].rot # 0
  BY <1>4 DEF Superseded
<1>7. \A t \in Tokens : Older(cmd[t].rot, tok[t].ver)'
  <2>1. ASSUME NEW t \in Tokens \ {n} PROVE Older(cmd[t].rot, tok[t].ver)'
    BY <1>1, <1>3, <1>5 DEF Superseded
  <2>2. cmd'[n].rot = 0
    BY <1>1, <1>3 DEF TableInv, Carried
  <2>. QED BY <1>6, <2>1, <2>2 DEF Older
<1>8. \A b \in Admins : /\ req'[b].pc = "issue" => Older(req[b].rot, req[b].ver)'
                        /\ req'[b].pc = "push" => Older(req[b].rot, tok[req[b].token].ver)'
  <2>1. ASSUME NEW b \in Admins \ {a}
        PROVE  /\ req'[b].pc = "issue" => Older(req[b].rot, req[b].ver)'
               /\ req'[b].pc = "push" => Older(req[b].rot, tok[req[b].token].ver)'
    <3>1. req'[b] = req[b]
      BY <1>2 DEF Issue
    <3>2. req[b].pc = "push" => req[b].token \in Tokens \ {n}
      BY <1>1 DEF TableInv, Carried, TokensThere
    <3>. QED BY <1>1, <1>5, <3>1, <3>2 DEF Superseded
  <2>2. req'[a].pc # "issue"
        /\ (req'[a].pc = "push" => req'[a].token = n /\ req'[a].rot = req[a].rot)
    <3>1. CASE req' = [req EXCEPT ![a] = Idle]
      BY <1>2, <3>1 DEF Idle
    <3>2. CASE req' = [req EXCEPT ![a].pc = "push", ![a].token = n]
      <4>1. req'[a] = [req[a] EXCEPT !.pc = "push", !.token = n] /\ req[a] \in Request
        BY <1>2, <3>2
      <4>. QED BY <4>1 DEF Request
    <3>. QED BY <1>1, <3>1, <3>2 DEF Issue
  <2>3. tok'[n].ver = req[a].ver /\ Older(req[a].rot, req[a].ver)
    BY <1>1 DEF Issue, Superseded
  <2>4. req'[a].pc = "push" => Older(req[a].rot, tok[req[a].token].ver)'
    BY <1>5, <2>2, <2>3
  <2>. QED BY <2>1, <2>2, <2>4
<1>. QED BY <1>6, <1>7, <1>8 DEF Superseded

LEMMA EndSuperseded ==
  ASSUME TableInv, Superseded, Crash \/ \E a \in Admins : Push(a)
  PROVE  Superseded'
<1>1. req \in [Admins -> Request] /\ tok' = tok
  BY TypeParts DEF TableInv, Crash, Push
<1>2. \A r, v : Older(r, v) => Older(r, v)'
  BY <1>1 DEF Older
<1>3. \A b \in Admins : req'[b] \in {req[b], Idle}
  BY <1>1 DEF Crash, Push
<1>4. \A b \in Admins : /\ req'[b].pc = "issue" => Older(req[b].rot, req[b].ver)'
                        /\ req'[b].pc = "push" => Older(req[b].rot, tok[req[b].token].ver)'
  BY <1>1, <1>2, <1>3 DEF Superseded, Idle
<1>5. \A t \in Tokens : Older(cmd[t].rot, tok[t].ver)'
  <2>1. CASE Crash
    BY <1>1, <1>2, <2>1 DEF Crash, Superseded
  <2>2. ASSUME NEW a \in Admins, Push(a) PROVE \A t \in Tokens : Older(cmd[t].rot, tok[t].ver)'
    <3>1. LET t == req[a].token IN
          t \in Tokens /\ cmd'[t].rot = req[a].rot /\ \A u \in Tokens \ {t} : cmd'[u] = cmd[u]
      BY <2>2, PushCommand
    <3>2. Older(req[a].rot, tok[req[a].token].ver)
      BY <2>2 DEF Push, Superseded
    <3>. QED BY <1>1, <1>2, <3>1, <3>2 DEF Superseded
  <2>. QED BY <2>1, <2>2
<1>. QED BY <1>1, <1>4, <1>5 DEF Superseded

\* Steps of the server: the tokens the agent works with stay what they are.
ServerStep ==
  /\ UNCHANGED <<agent, disk, gone>>
  /\ \A t \in TokensThere : /\ tok'[t].ver = tok[t].ver
                            /\ tok[t].state = "revoked" => tok'[t].state = "revoked"

Local == InStep /\ Outdated /\ Apart

LEMMA ServerLocal == ASSUME TableInv, Local, ServerStep PROVE Local'
<1>1. agent.pc \in {"version", "ack"} /\ agent.up => agent.tok \in TokensThere
  <2> SUFFICES ASSUME agent.pc \in {"version", "ack"}, agent.up PROVE agent.tok \in TokensThere
    OBVIOUS
  <2>1. agent.inbox \in Seq(TokensThere) /\ agent.inbox # <<>>
    BY DEF TableInv, Carried
  <2>2. agent.tok = Head(agent.inbox)
    BY DEF Local, InStep
  <2>. QED BY <2>1, <2>2
<1>2. InStep'
  BY <1>1 DEF Local, InStep, ServerStep
<1>3. \A g \in gone : g \in TokensThere
  BY TypeParts DEF Local, Outdated, TokensThere, TableInv
<1>4. Outdated'
  BY <1>3 DEF Local, Outdated, ServerStep
<1>. QED BY <1>2, <1>4 DEF Local, Apart, ServerStep

LEMMA ServerSteps ==
  ASSUME TableInv,
         \/ RevokeAll \/ Cleanup \/ Tick \/ Report \/ Crash \/ UNCHANGED vars
         \/ \E a \in Admins : Issue(a) \/ Push(a) \/ \E i \in BOOLEAN : Rotate(a, i)
  PROVE  ServerStep
<1>1. tok \in [Tokens -> Token] /\ TypeOK /\ \A t \in TokensThere : t \in Tokens
  BY TypeParts DEF TableInv, TokensThere
<1>2. CASE RevokeAll \/ Cleanup \/ Tick
  <2>1. SameRows /\ Ages
    BY <1>2, OthersQuiet, OthersAge DEF Others, Quiet
  <2>. QED BY <1>1, <1>2, <2>1 DEF ServerStep, SameRows, Ages, RevokeAll, Cleanup, Tick
<1>3. CASE Report \/ Crash \/ UNCHANGED vars \/ \E a \in Admins : Push(a)
  BY <1>3 DEF ServerStep, Report, Crash, vars, Push
<1>4. ASSUME NEW a \in Admins, Issue(a) PROVE ServerStep
  <2>1. PICK n \in Tokens \ TokensThere : \A t \in Tokens \ {n} : tok'[t] = tok[t]
    BY <1>4, IssueRow
  <2>2. UNCHANGED <<agent, disk, gone>>
    BY <1>4 DEF Issue
  <2>. QED BY <1>1, <2>1, <2>2 DEF ServerStep
<1>5. ASSUME NEW a \in Admins, NEW i \in BOOLEAN, Rotate(a, i) PROVE ServerStep
  <2>1. SameRows /\ \A t \in Tokens :
              /\ tok'[t].state # "live"
              /\ tok'[t].state = "pending" => tok[t].state = "live" /\ tok'[t].rot = nrot + 1
    BY <1>1, <1>5, RotateRows
  <2>2. \A t \in Tokens : tok[t].state = "revoked" => tok'[t].state = "revoked"
    BY <1>1, <2>1 DEF SameRows, Token
  <2>. QED BY <1>1, <1>5, <2>1, <2>2 DEF ServerStep, SameRows, Rotate
<1>. QED BY <1>2, <1>3, <1>4, <1>5

\* A confirmation revokes a token that is older than the one it confirms.
LEMMA AckLocal == ASSUME TableInv, Superseded, Local, Ack PROVE Local'
<1> DEFINE h == Head(agent.inbox)
<1>1. /\ agent.inbox # <<>> /\ agent.inbox \in Seq(TokensThere) /\ agent \in Process
      /\ tok \in [Tokens -> Token] /\ gone \subseteq Tokens /\ TypeOK
  BY TypeParts DEF Ack, TableInv, Carried
<1>2. /\ agent.up /\ agent.tok = h /\ disk.tok = h /\ disk.ver = tok[h].ver /\ agent.ver = disk.ver
      /\ h \in Tokens
  <2>1. h \in TokensThere
    BY <1>1
  <2>. QED BY <2>1 DEF Ack, Local, InStep, TokensThere
<1>3. disk' = disk
  BY DEF Ack
<1>4. agent'.tok = agent.tok /\ agent'.ver = agent.ver /\ agent'.up = agent.up
      /\ (agent'.pc = "idle" \/ (agent'.pc = agent.pc /\ agent'.inbox = agent.inbox))
  <2>1. CASE agent' = Done
    BY <1>1, <2>1 DEF Done, Process
  <2>2. CASE agent' = [agent EXCEPT !.tries = agent.tries + 1]
    BY <1>1, <2>2 DEF Process
  <2>. QED BY <2>1, <2>2 DEF Ack, AckFailed
<1>5. \/ UNCHANGED <<tok, gone>>
      \/ \E u \in Tokens : /\ tok[u].state = "pending" /\ tok[u].rot = cmd[h].rot
                           /\ tok' = [tok EXCEPT ![u].state = "revoked"] /\ gone' = gone \cup {u}
  BY DEF Ack, Confirm
<1>6. /\ \A t \in Tokens : /\ tok'[t].ver = tok[t].ver
                           /\ tok[t].state = "revoked" => tok'[t].state = "revoked"
      /\ \A u \in gone' : u \in gone \/ (tok'[u].state = "revoked" /\ tok[u].ver < tok[h].ver /\ u \in Tokens)
  <2>1. CASE UNCHANGED <<tok, gone>>
    BY <2>1
  <2>2. CASE \E u \in Tokens : /\ tok[u].state = "pending" /\ tok[u].rot = cmd[h].rot
                               /\ tok' = [tok EXCEPT ![u].state = "revoked"] /\ gone' = gone \cup {u}
    <3>1. PICK u \in Tokens : /\ tok[u].state = "pending" /\ tok[u].rot = cmd[h].rot
                              /\ tok' = [tok EXCEPT ![u].state = "revoked"] /\ gone' = gone \cup {u}
      BY <2>2
    <3>2. tok[u].ver < tok[h].ver
      BY <1>2, <3>1 DEF Superseded, Older
    <3>3. tok'[u] = [tok[u] EXCEPT !.state = "revoked"] /\ \A t \in Tokens \ {u} : tok'[t] = tok[t]
      BY <1>1, <3>1
    <3>4. tok'[u].state = "revoked" /\ tok'[u].ver = tok[u].ver
      BY <1>1, <3>3 DEF Token
    <3>. QED BY <3>1, <3>2, <3>3, <3>4
  <2>. QED BY <1>5, <2>1, <2>2
<1>7. InStep'
  BY <1>2, <1>3, <1>4, <1>6 DEF Ack, InStep
<1>8. Outdated'
  BY <1>1, <1>2, <1>3, <1>6 DEF Local, Outdated
<1>9. Apart'
  <2>1. \A u \in gone' : u # h
    <3>1. h \notin gone
      BY <1>2 DEF Local, Apart
    <3>2. tok[h].ver \in Nat
      BY <1>1, <1>2, ConstantTypes DEF Token
    <3>. QED BY <1>6, <3>1, <3>2
  <2>. QED BY <1>2, <1>3, <1>4, <2>1 DEF Apart
<1>. QED BY <1>7, <1>8, <1>9 DEF Local

LEMMA AgentLocal ==
  ASSUME OwnFile, TableInv, Local,
         \/ Poll \/ Register \/ Boot \/ Refuse \/ TakeToken \/ TakeVersion
         \/ Kill \/ EditConfig \/ EditDropped
  PROVE  Local'
<1>1. /\ agent \in Process /\ disk \in ConfigFile /\ bak \in ConfigFile /\ tok \in [Tokens -> Token]
      /\ gone \subseteq Tokens /\ agent.inbox \in Seq(TokensThere)
      /\ \A t \in Tokens : tok[t].ver \in Nat
  <2>1. tok \in [Tokens -> Token]
    BY TypeParts DEF TableInv
  <2>2. \A t \in Tokens : tok[t].ver \in Nat
    BY <2>1, ConstantTypes DEF Token
  <2>. QED BY <2>1, <2>2, TypeParts DEF TableInv, Carried
<1>2. tok' = tok /\ gone' = gone
  BY DEF Poll, Register, Boot, Refuse, TakeToken, TakeVersion, Kill, EditConfig, EditDropped
<1>3. ~Fault("disk") /\ ~Fault("mismatch")
  BY DEF Fault, OwnFile
<1>4. CASE Poll \/ Register \/ Refuse
  <2>1. disk' = disk
    BY <1>4 DEF Poll, Register, Refuse
  <2>2. agent' = agent \/ (/\ agent'.tok = agent.tok /\ agent'.ver = agent.ver /\ agent'.up = agent.up
                           /\ agent'.pc = "idle")
    <3>1. CASE agent' = Done
      BY <1>1, <3>1 DEF Done, Process
    <3>2. CASE \E reply : Delivered(reply)
      BY <1>1, <3>2 DEF Delivered, Process
    <3>3. CASE agent' = agent
      BY <3>3
    <3>4. CASE Register
      BY <3>2, <3>4, Zenon DEF Register
    <3>5. CASE Poll
      BY <3>2, <3>3, <3>5, Zenon DEF Poll
    <3>. QED BY <1>4, <3>1, <3>4, <3>5 DEF Refuse
  <2>. QED BY <1>2, <2>1, <2>2 DEF Local, InStep, Outdated, Apart
<1>5. CASE Kill \/ EditConfig \/ EditDropped
  <2>1. agent' = [agent EXCEPT !.up = FALSE, !.pc = "idle", !.inbox = <<>>, !.tries = 0]
    BY <1>5 DEF Kill, EditConfig, EditDropped, Stopped
  <2>2. agent'.up = FALSE /\ agent'.tok = agent.tok
    BY <1>1, <2>1 DEF Process
  <2>3. disk' = disk \/ \E t \in Tokens : tok[t].state = "live" /\ disk' = [disk EXCEPT !.tok = t]
    BY <1>3, <1>5 DEF Kill, EditConfig, EditDropped
  <2>4. disk'.ver = disk.ver /\ (disk'.tok = disk.tok \/ tok[disk'.tok].state = "live")
    BY <1>1, <2>3 DEF ConfigFile
  <2>. QED BY <1>2, <2>2, <2>4 DEF Local, InStep, Outdated, Apart
<1>6. CASE Boot
  <2>1. PICK v \in Versions :
          /\ agent' = [up |-> TRUE, pc |-> "register", tok |-> disk.tok, ver |-> v,
                       inbox |-> <<>>, tries |-> 0]
          /\ \/ disk' = disk /\ v = disk.ver
             \/ disk' = [tok |-> disk.tok, ver |-> v] /\ disk.ver = 0
    BY <1>3, <1>6 DEF Boot, Save, Started, OwnFile, files
  <2>2. /\ agent'.tok = disk.tok /\ agent'.ver = disk'.ver /\ agent'.pc = "register"
        /\ disk'.tok = disk.tok /\ (disk'.ver = disk.ver \/ disk.ver = 0)
    BY <2>1
  <2>3. disk.ver = 0 => gone = {}
    BY <1>1 DEF Local, Outdated
  <2>. QED BY <1>2, <2>2, <2>3 DEF Local, InStep, Outdated, Apart
<1>7. CASE TakeToken
  <2> DEFINE h == Head(agent.inbox)
  <2>1. agent.up /\ agent.inbox # <<>> /\ h \in Tokens
    <3>1. agent.up /\ agent.inbox # <<>>
      BY <1>7 DEF TakeToken, Handling
    <3>2. h \in TokensThere
      BY <1>1, <3>1
    <3>. QED BY <3>1, <3>2 DEF TokensThere
  <2>2. agent' = [agent EXCEPT !.tok = h, !.pc = "version"]
        /\ disk' = [tok |-> h, ver |-> agent.ver]
    BY <1>3, <1>7 DEF TakeToken
  <2>3. /\ agent'.tok = h /\ agent'.ver = agent.ver /\ agent'.pc = "version" /\ agent'.inbox = agent.inbox
        /\ disk'.tok = h /\ disk'.ver = agent.ver
    BY <1>1, <2>2 DEF Process
  <2>4. agent.ver = disk.ver /\ (agent.ver = 0 \/ tok[h].ver > agent.ver)
    BY <1>7, <2>1 DEF TakeToken, Newer, Local, InStep
  <2>a. agent.ver \in Nat
    BY <1>1, ConstantTypes DEF Process
  <2>5. h \notin gone
    BY <1>1, <2>1, <2>4, <2>a DEF Local, Outdated
  <2>6. agent.ver <= tok[h].ver
    BY <1>1, <2>1, <2>4, <2>a
  <2>. QED BY <1>2, <2>3, <2>4, <2>5, <2>6 DEF Local, InStep, Outdated, Apart
<1>8. CASE TakeVersion
  <2> DEFINE h == Head(agent.inbox)
  <2>1. agent.up /\ agent.pc = "version" /\ agent.inbox # <<>> /\ h \in Tokens
    <3>1. agent.up /\ agent.pc = "version" /\ agent.inbox # <<>>
      BY <1>8 DEF TakeVersion, TableInv, Carried
    <3>2. h \in TokensThere
      BY <1>1, <3>1
    <3>. QED BY <3>1, <3>2 DEF TokensThere
  <2>2. agent' = [agent EXCEPT !.ver = tok[h].ver, !.pc = "ack"] /\ disk' = [tok |-> agent.tok, ver |-> tok[h].ver]
    BY <1>3, <1>8 DEF TakeVersion, Save
  <2>3. /\ agent'.tok = agent.tok /\ agent'.ver = tok[h].ver /\ agent'.pc = "ack" /\ agent'.inbox = agent.inbox
        /\ disk'.tok = agent.tok /\ disk'.ver = tok[h].ver
    BY <1>1, <2>2 DEF Process
  <2>4. agent.tok = h /\ agent.ver = disk.ver /\ disk.ver <= tok[h].ver
    BY <2>1 DEF Local, InStep
  <2>5. \A g \in gone : tok[g].ver < tok[h].ver
    <3>1. disk.ver \in Nat
      BY <1>1, ConstantTypes DEF ConfigFile
    <3>. QED BY <1>1, <2>1, <2>4, <3>1 DEF Local, Outdated
  <2>. QED BY <1>2, <2>3, <2>4, <2>5 DEF Local, InStep, Outdated, Apart
<1>. QED BY <1>4, <1>5, <1>6, <1>7, <1>8

LEMMA FinalStep ==
  ASSUME OwnFile, FinalInv, [Next]_vars
  PROVE  FinalInv'
<1>1. TableInv'
  BY TableStep DEF FinalInv
<1>2. Superseded'
  <2>1. CASE UNCHANGED vars
    BY <2>1 DEF vars, FinalInv, Superseded, Older
  <2>. QED BY <2>1, NextParts, OthersSuperseded, RotateSuperseded, IssueSuperseded, EndSuperseded DEF FinalInv
<1>3. Local'
  <2>1. CASE ServerStep
    BY <2>1, ServerLocal DEF FinalInv, Local
  <2>2. CASE Ack
    BY <2>2, AckLocal DEF FinalInv, Local
  <2>. QED BY <2>1, <2>2, NextParts, ServerSteps, AgentLocal DEF FinalInv, Local, Others
<1>. QED BY <1>1, <1>2, <1>3 DEF FinalInv, Local

\* As long as the agent can write to its file, and starts from that file, a
\* token that a confirmation revoked is not the one in the agent's memory or
\* file, then or later: with requests side by side, and with commands, requests,
\* replies and processes lost or repeated in any number.
THEOREM ConfirmationIsFinal ==
  ASSUME OwnFile
  PROVE  Spec => []ConfirmedIsFinal
<1>1. FinalInv /\ [Next]_vars => FinalInv'
  BY FinalStep
<1>2. FinalInv => ConfirmedIsFinal
  BY DEF FinalInv, Apart, ConfirmedIsFinal
<1>. QED BY <1>1, <1>2, InitFinal, PTL DEF Spec
====
