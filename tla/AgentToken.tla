----------------------------- MODULE AgentToken -----------------------------
(* Rotation of a remote machine's agent token: the token table, the queue    *)
(* that carries the new token to the agent and the agent's own copies of it. *)
(*                                                                           *)
(* An operator's rotation takes three steps of the server: it marks the      *)
(* tokens there are, to be revoked when the agent confirms or time is up,    *)
(* inserts a new one in a second transaction, and queues a rotate_token      *)
(* command.  The agent polls with the token it has, takes the new one into   *)
(* memory and to disk, then its version, and confirms with three attempts.   *)
(* Commands are delivered again when ClaimTimeout has passed; what is lost   *)
(* is a request, a reply, the agent's process, a write to its disk, the      *)
(* server's process or a write of the queue.  A report whose answer is not   *)
(* read is counted with these faults, since it loses commands as they do, and*)
(* so is an operator's edit of the agent's file, or an edit that leaves its  *)
(* old checksum: the agent then starts from the backup of the file.          *)
(*                                                                           *)
(* Time is a number of ticks.  Polls and requests take seconds and timeouts  *)
(* minutes, so a tick passes only when no request is under way and the agent,*)
(* if it runs, has polled since the last one and has nothing left to do.     *)
EXTENDS Integers, Sequences, FiniteSets, FiniteSetsExt

CONSTANTS
  Admins,        \* requests of operators that may be served at one time
  MaxRotations,  \* bound: rotations in a behaviour
  RevokeTimeout, \* ticks a replaced token stays valid
  ClaimTimeout,  \* ticks until a delivered command is delivered again
  CommandTtl,    \* ticks until a command is too old to be delivered
  SkipProbe,     \* OPENACE_SKIP_TOKEN_PROBE is set for the agent
  Pinned,        \* OPENACE_AGENT_TOKEN is, to the token of its registration
  Faults,        \* which of AllFaults may happen
  MaxFaults      \* bound: faults in a behaviour

AllFaults == {"request", "reply", "kill", "disk", "persist", "crash", "report",
              "edit", "mismatch"}

ASSUME ConstantsAssumption ==
  /\ MaxRotations \in Nat /\ MaxFaults \in Nat
  /\ RevokeTimeout \in Nat \ {0} /\ ClaimTimeout \in Nat \ {0} /\ CommandTtl \in Nat \ {0}
  /\ SkipProbe \in BOOLEAN /\ Pinned \in BOOLEAN
  /\ Faults \subseteq AllFaults

VARIABLES
  tok,    \* agent_tokens, a row for each token in the order of their insertion
  cmd,    \* the rotate_token command that carries a token
  memq,   \* _command_queues: commands that could not be persisted
  req,    \* the rotation that each request is in
  nrot,   \* rotation ids given so far
  agent,  \* the agent's process
  disk,   \* its config file, config.json
  bak,    \* what it starts from if the file's checksum is wrong, config.json.bak
  polled, \* the agent has polled since the last tick
  faults, \* faults so far
  cut,    \* ghost: access was ended by an operator or an outage, see below
  gone    \* ghost: tokens revoked by a confirmation

files == <<disk, bak>>
vars == <<tok, cmd, memq, req, nrot, agent, disk, bak, polled, faults, cut, gone>>

Tokens == 1..(MaxRotations + 1)
Versions == 0..(MaxRotations + 1)  \* 0: no last_token_version
Rotations == 0..MaxRotations       \* 0: issued at registration

Unused == [state |-> "none", ver |-> 0, rot |-> 0, left |-> 0]
NoCommand == [status |-> "none", rot |-> 0, age |-> 0, since |-> 0]
Idle == [pc |-> "idle", rot |-> 0, ver |-> 0, token |-> 0, immediate |-> FALSE]

TokensThere == {t \in Tokens : tok[t].state # "none"}

\* Not is_revoked, and within revoke_after once it is pending.
Valid(t) == \/ tok[t].state = "live"
            \/ tok[t].state = "pending" /\ tok[t].left > 0

Fault(kind) == /\ kind \in Faults
               /\ faults < MaxFaults
               /\ faults' = faults + 1

Init ==
  /\ tok = [t \in Tokens |-> IF t = 1 THEN [Unused EXCEPT !.state = "live", !.ver = 1]
                                      ELSE Unused]
  /\ cmd = [t \in Tokens |-> NoCommand]
  /\ memq = <<>>
  /\ req = [a \in Admins |-> Idle]
  /\ nrot = 0
  /\ \E v \in {0, 1} :
       /\ agent = [up |-> TRUE, pc |-> "idle", tok |-> 1, ver |-> v,
                   inbox |-> <<>>, tries |-> 0]
       /\ disk = [tok |-> 1, ver |-> v] /\ bak = disk
  /\ polled = FALSE
  /\ faults = 0
  /\ cut = FALSE
  /\ gone = {}

-----------------------------------------------------------------------------
(* The server: operators' requests.                                         *)

\* Mutant: the highest version is not incremented.
SameVersion == Max({tok[t].ver : t \in TokensThere})

NextVersion == Max({tok[t].ver : t \in TokensThere}) + 1

\* First transaction of a rotation: tokens that wait to be revoked are revoked,
\* the others are revoked or begin to wait.  A second rotation revokes at once
\* the token of an agent that has not yet taken the first.
Rotate(a, immediate) ==
  /\ req[a].pc = "idle"
  /\ nrot < MaxRotations
  /\ nrot' = nrot + 1
  /\ tok' = [t \in Tokens |->
       CASE tok[t].state = "pending" -> [tok[t] EXCEPT !.state = "revoked"]
         [] tok[t].state = "live" /\ immediate -> [tok[t] EXCEPT !.state = "revoked"]
         [] tok[t].state = "live" /\ ~immediate ->
              [tok[t] EXCEPT !.state = "pending", !.rot = nrot + 1, !.left = RevokeTimeout]
         [] OTHER -> tok[t]]
  /\ req' = [req EXCEPT ![a] = [pc |-> "issue", rot |-> nrot + 1, token |-> 0,
                                ver |-> NextVersion, immediate |-> immediate]]
  /\ cut' = (cut \/ immediate \/ tok[agent.tok].state # "live")
  /\ UNCHANGED <<cmd, memq, agent, disk, bak, polled, faults, gone>>

\* Second transaction, outside of the lock: the new token.  No command is sent
\* for an immediate rotation: the operator is given the token.
Issue(a) ==
  /\ req[a].pc = "issue"
  /\ LET n == Cardinality(TokensThere) + 1 IN
       /\ tok' = [tok EXCEPT ![n] = [state |-> "live", ver |-> req[a].ver,
                                     rot |-> req[a].rot, left |-> 0]]
       /\ IF req[a].immediate
          THEN /\ req' = [req EXCEPT ![a] = Idle]
               /\ cmd' = [cmd EXCEPT ![n].status = "manual"]
          ELSE /\ req' = [req EXCEPT ![a].pc = "push", ![a].token = n]
               /\ cmd' = cmd
  /\ UNCHANGED <<memq, nrot, agent, disk, bak, polled, faults, cut, gone>>

\* The command is persisted, or kept in the memory of the process.
Push(a) ==
  /\ req[a].pc = "push"
  /\ req' = [req EXCEPT ![a] = Idle]
  /\ LET t == req[a].token
         queued(status) == [NoCommand EXCEPT !.status = status, !.rot = req[a].rot]
     IN \/ /\ cmd' = [cmd EXCEPT ![t] = queued("pending")]
           /\ UNCHANGED <<memq, faults>>
        \/ /\ Fault("persist")
           /\ cmd' = [cmd EXCEPT ![t] = queued("memory")]
           /\ memq' = Append(memq, t)
  /\ UNCHANGED <<tok, nrot, agent, disk, bak, polled, cut, gone>>

RevokeAll ==
  /\ \E t \in Tokens : tok[t].state \in {"live", "pending"}
  /\ tok' = [t \in Tokens |-> IF tok[t].state \in {"live", "pending"}
                              THEN [tok[t] EXCEPT !.state = "revoked"] ELSE tok[t]]
  /\ cut' = TRUE
  /\ UNCHANGED <<cmd, memq, req, nrot, agent, disk, bak, polled, faults, gone>>

\* The job that revokes tokens whose time is up.
Cleanup ==
  /\ tok' = [t \in Tokens |-> IF tok[t].state = "pending" /\ tok[t].left = 0
                              THEN [tok[t] EXCEPT !.state = "revoked"] ELSE tok[t]]
  /\ UNCHANGED <<cmd, memq, req, nrot, agent, disk, bak, polled, faults, cut, gone>>

\* The server's process dies, with its requests and its memory.
Crash ==
  /\ Fault("crash")
  /\ req' = [a \in Admins |-> Idle]
  /\ memq' = <<>>
  /\ cut' = (cut \/ memq # <<>> \/ \E a \in Admins : req[a].pc # "idle")
  /\ UNCHANGED <<tok, cmd, nrot, agent, disk, bak, polled, gone>>

-----------------------------------------------------------------------------
(* The server: delivery of commands.                                        *)

\* Mutant: a command is delivered once.
ClaimableOnce == {t \in Tokens : cmd[t].status = "pending" /\ cmd[t].age < CommandTtl}

Claimable ==
  {t \in Tokens : /\ \/ cmd[t].status = "pending"
                     \/ cmd[t].status = "delivered" /\ cmd[t].since >= ClaimTimeout
                  /\ cmd[t].age < CommandTtl}

\* Mutant: the lowest version is delivered.
Earliest == {t \in Claimable : \A u \in Claimable : tok[t].ver <= tok[u].ver}

Latest == {t \in Claimable : \A u \in Claimable : tok[u].ver <= tok[t].ver}

Active(v) == \E t \in Tokens : tok[t].ver = v /\ tok[t].state \in {"live", "pending"}

\* get_pending_commands: what memory holds, and of the persisted commands the
\* one of the highest version; the others expire.  Is that version revoked,
\* then all expire, but only if other commands are claimed with them: without
\* any the transaction is not committed.
Claim(reply) ==
  /\ memq' = <<>>
  /\ \/ /\ Claimable = {}
        /\ reply = memq
        /\ cmd' = cmd
     \/ \E t \in Latest :
          IF Active(tok[t].ver)
          THEN /\ reply = memq \o <<t>>
               /\ cmd' = [u \in Tokens |->
                    CASE u = t -> [cmd[u] EXCEPT !.status = "delivered", !.since = 0]
                      [] u \in Claimable \ {t} -> [cmd[u] EXCEPT !.status = "expired"]
                      [] OTHER -> cmd[u]]
          ELSE /\ reply = memq
               /\ \/ cmd' = cmd
                  \/ cmd' = [u \in Tokens |-> IF u \in Claimable
                                              THEN [cmd[u] EXCEPT !.status = "expired"]
                                              ELSE cmd[u]]

Replies == {memq} \cup {memq \o <<t>> : t \in Tokens}

-----------------------------------------------------------------------------
(* The agent.                                                               *)

Delivered(reply) == agent' = [agent EXCEPT !.pc = "idle", !.inbox = reply]

\* A poll or a heartbeat: with a token that is not valid the answer is 401.
Poll ==
  /\ agent.up /\ agent.pc = "idle" /\ agent.inbox = <<>>
  /\ polled' = TRUE
  /\ \/ /\ ~Valid(agent.tok)
        /\ UNCHANGED <<cmd, memq, agent, faults>>
     \/ /\ Valid(agent.tok)
        /\ \E reply \in Replies :
             /\ Claim(reply)
             /\ \/ Delivered(reply) /\ UNCHANGED faults
                \/ Fault("reply") /\ UNCHANGED agent
  /\ UNCHANGED <<tok, req, nrot, disk, bak, cut, gone>>

\* The first message of a process, answered without a token.
Register ==
  /\ agent.up /\ agent.pc = "register"
  /\ \/ \E reply \in Replies :
          /\ Claim(reply)
          /\ \/ Delivered(reply) /\ UNCHANGED faults
             \/ Fault("reply") /\ Delivered(<<>>)
     \/ Fault("request") /\ Delivered(<<>>) /\ UNCHANGED <<cmd, memq>>
  /\ UNCHANGED <<tok, req, nrot, disk, bak, polled, cut, gone>>

\* The token of a process that starts: the environment overrides the file.
Started == IF Pinned THEN 1 ELSE disk.tok

\* save(): the file as it was becomes the backup, the new one has a checksum.
\* A failure to write is only logged.
Save(file) ==
  \/ disk' = file /\ bak' = disk /\ UNCHANGED faults
  \/ Fault("disk") /\ UNCHANGED files

\* The process asks for the version of its token if the file has none.
Boot ==
  /\ ~agent.up
  /\ \E v \in Versions :
       /\ agent' = [up |-> TRUE, pc |-> "register", tok |-> Started, ver |-> v,
                    inbox |-> <<>>, tries |-> 0]
       /\ \/ /\ v = disk.ver
             /\ disk.ver = 0 => ~Valid(Started)
             /\ UNCHANGED files /\ UNCHANGED faults
          \/ /\ v = 0 /\ disk.ver = 0
             /\ Fault("request") /\ UNCHANGED files
          \/ /\ v = tok[Started].ver /\ disk.ver = 0 /\ Valid(Started)
             /\ Save([tok |-> Started, ver |-> v])
  /\ cut' = (cut /\ tok[Started].state # "live")
  /\ UNCHANGED <<tok, cmd, memq, req, nrot, polled, gone>>

Handling == /\ agent.up /\ agent.pc = "idle" /\ agent.inbox # <<>>

Done == [agent EXCEPT !.pc = "idle", !.inbox = Tail(@), !.tries = 0]

\* Mutant: off by one.
MuchNewer(t) == agent.ver = 0 \/ tok[t].ver > agent.ver + 1

Newer(t) == agent.ver = 0 \/ tok[t].ver > agent.ver

\* The probe posts a heartbeat with the new token to /api/remote/heartbeat and
\* passes on status 200 only.  The server has no such route.
ProbePasses == SkipProbe

\* An older version, or one the agent has, is ignored, and so is a token that
\* fails the probe.
Refuse ==
  /\ Handling
  /\ ~Newer(Head(agent.inbox)) \/ ~ProbePasses
  /\ agent' = Done
  /\ UNCHANGED <<tok, cmd, memq, req, nrot, disk, bak, polled, faults, cut, gone>>

\* save_agent_token_atomic: memory first, then the file, without a checksum.
\* Is it not written, save() tries again.
TakeToken ==
  /\ Handling
  /\ Newer(Head(agent.inbox)) /\ ProbePasses
  /\ agent' = [agent EXCEPT !.tok = Head(agent.inbox), !.pc = "version"]
  /\ LET file == [tok |-> Head(agent.inbox), ver |-> agent.ver] IN
       \/ disk' = file /\ bak' = file /\ UNCHANGED faults
       \/ Fault("disk") /\ disk' = file /\ bak' = disk
       \/ Fault("disk") /\ UNCHANGED files
  /\ cut' = (cut /\ tok[Head(agent.inbox)].state # "live")
  /\ UNCHANGED <<tok, cmd, memq, req, nrot, polled, gone>>

TakeVersion ==
  /\ agent.up /\ agent.pc = "version"
  /\ LET v == tok[Head(agent.inbox)].ver IN
       /\ agent' = [agent EXCEPT !.ver = v, !.pc = "ack"]
       /\ Save([tok |-> agent.tok, ver |-> v])
  /\ UNCHANGED <<tok, cmd, memq, req, nrot, polled, cut, gone>>

\* Mutant: a row of the rotation, whether it waits to be revoked or not.
ConfirmAny(rot) ==
  \E t \in Tokens :
    /\ tok[t].rot = rot /\ tok[t].state \in {"live", "pending"}
    /\ tok' = [tok EXCEPT ![t].state = "revoked"]
    /\ gone' = gone \cup {t}

\* confirm_token_rotation: one of the rows that wait for this rotation.
Confirm(rot) ==
  LET waiting == {t \in Tokens : tok[t].state = "pending" /\ tok[t].rot = rot} IN
  IF waiting = {} THEN UNCHANGED <<tok, gone>>
  ELSE \E t \in waiting :
         /\ tok' = [tok EXCEPT ![t].state = "revoked"]
         /\ gone' = gone \cup {t}

\* Mutant: one attempt too many.
AckFailedAgain == agent' = IF agent.tries < 3 THEN [agent EXCEPT !.tries = @ + 1] ELSE Done

AckFailed == agent' = IF agent.tries < 2 THEN [agent EXCEPT !.tries = @ + 1] ELSE Done

\* The confirmation.  Its answer has the commands that are due, and the agent
\* does not look at them.
Ack ==
  /\ agent.up /\ agent.pc = "ack"
  /\ \/ /\ Valid(agent.tok)
        /\ Confirm(cmd[Head(agent.inbox)].rot)
        /\ \E reply \in Replies : Claim(reply)
        /\ \/ agent' = Done /\ UNCHANGED faults
           \/ Fault("reply") /\ AckFailed
     \/ /\ ~Valid(agent.tok)
        /\ AckFailed
        /\ UNCHANGED <<tok, cmd, memq, faults, gone>>
     \/ /\ Fault("request")
        /\ AckFailed
        /\ UNCHANGED <<tok, cmd, memq, gone>>
  /\ UNCHANGED <<req, nrot, disk, bak, polled, cut>>

\* A permission request or a request state that another thread of the agent
\* reports: the answer has the commands that are due, and nobody reads it.
Report ==
  /\ agent.up /\ agent.pc # "register"
  /\ Valid(agent.tok)
  /\ Fault("report")
  /\ \E reply \in Replies : Claim(reply)
  /\ UNCHANGED <<tok, req, nrot, agent, disk, bak, polled, cut, gone>>

Stopped == [agent EXCEPT !.up = FALSE, !.pc = "idle", !.inbox = <<>>, !.tries = 0]

Kill ==
  /\ agent.up
  /\ Fault("kill")
  /\ agent' = Stopped
  /\ UNCHANGED <<tok, cmd, memq, req, nrot, disk, bak, polled, cut, gone>>

\* The operator stops the agent and writes the token that the rotation
\* returned into its file, without the line of the checksum.
EditConfig ==
  /\ Fault("edit")
  /\ \E t \in Tokens : /\ tok[t].state = "live" /\ cmd[t].status # "none"
                       /\ disk' = [disk EXCEPT !.tok = t]
  /\ bak' = disk'
  /\ agent' = Stopped
  /\ UNCHANGED <<tok, cmd, memq, req, nrot, polled, cut, gone>>

\* The same, but the checksum that save() left in the file stays as it was:
\* _load drops the file with the edit and loads the backup.
EditDropped ==
  /\ Fault("mismatch")
  /\ disk' = bak /\ UNCHANGED bak
  /\ agent' = Stopped
  /\ UNCHANGED <<tok, cmd, memq, req, nrot, polled, cut, gone>>

-----------------------------------------------------------------------------

Less(n) == IF n = 0 THEN 0 ELSE n - 1
More(n, bound) == IF n = bound THEN n ELSE n + 1

Tick ==
  /\ \A a \in Admins : req[a].pc = "idle"
  /\ agent.up => polled /\ agent.pc = "idle" /\ agent.inbox = <<>>
  /\ tok' = [t \in Tokens |-> [tok[t] EXCEPT !.left = IF tok[t].state = "pending" THEN Less(@) ELSE @]]
  /\ cmd' = [t \in Tokens |->
       IF cmd[t].status \in {"pending", "delivered"}
       THEN [cmd[t] EXCEPT !.age = More(@, CommandTtl),
                           !.since = IF cmd[t].status = "delivered"
                                     THEN More(@, ClaimTimeout) ELSE @]
       ELSE cmd[t]]
  /\ polled' = FALSE
  /\ cut' = (cut \/ (~agent.up /\ tok[Started].state # "live"))
  /\ UNCHANGED <<memq, req, nrot, agent, disk, bak, faults, gone>>

Agent == Poll \/ Register \/ Boot \/ Refuse \/ TakeToken \/ TakeVersion \/ Ack

Serve(a) == Issue(a) \/ Push(a)

Next ==
  \/ Agent
  \/ \E a \in Admins : Serve(a) \/ \E immediate \in BOOLEAN : Rotate(a, immediate)
  \/ RevokeAll \/ Cleanup \/ Crash \/ Report \/ Kill \/ EditConfig \/ EditDropped \/ Tick

Spec == Init /\ [][Next]_vars

\* The agent's loop and the requests go on, time passes.  Nothing obliges an
\* operator to act.
FairSpec ==
  /\ Spec
  /\ WF_vars(Agent) /\ WF_vars(Tick)
  /\ \A a \in Admins : WF_vars(Serve(a))

-----------------------------------------------------------------------------
(* Properties                                                               *)

\* The columns, the queues and the agent's copies keep to their types.
TypeOK ==
  /\ tok \in [Tokens -> [state : {"none", "live", "pending", "revoked"}, ver : Versions,
                         rot : Rotations, left : 0..RevokeTimeout]]
  /\ cmd \in [Tokens -> [status : {"none", "manual", "memory", "pending", "delivered", "expired"},
                         rot : Rotations, age : 0..CommandTtl, since : 0..ClaimTimeout]]
  /\ memq \in Seq(Tokens)
  /\ req \in [Admins -> [pc : {"idle", "issue", "push"}, rot : Rotations, ver : Versions,
                         token : 0..(MaxRotations + 1), immediate : BOOLEAN]]
  /\ nrot \in Rotations
  /\ agent \in [up : BOOLEAN, pc : {"idle", "register", "version", "ack"}, tok : Tokens,
                ver : Versions, inbox : Seq(Tokens), tries : 0..2]
  /\ disk \in [tok : Tokens, ver : Versions] /\ bak \in [tok : Tokens, ver : Versions]
  /\ polled \in BOOLEAN /\ cut \in BOOLEAN
  /\ faults \in 0..MaxFaults
  /\ gone \subseteq Tokens

\* A command could not be written to the database and was queued in memory.
Degraded == \E t \in Tokens : cmd[t].status = "memory"

\* An agent that runs has a token the server accepts, whatever rotation,
\* redelivery, lost message or restart it is in the middle of, unless its access
\* was cut: revoked on purpose, rotated again before it took the first token,
\* away until its token's time was up, or left with a rotation that the server
\* died in.  A command that had to be kept in memory is excepted too: it is
\* delivered once, whatever its version.
AgentKeepsAccess == agent.up /\ ~cut /\ ~Degraded => Valid(agent.tok)

\* A token that a confirmation revoked is not the one in the agent's file or
\* memory, then or later: what is confirmed is on disk, and no command that is
\* delivered late or twice brings an older token back.  An agent whose
\* environment sets its token does not have this property: each start brings that
\* token back, as save_agent_token_atomic warns when it writes the new one.
ConfirmedIsFinal == gone \cap {agent.tok, disk.tok} = {}

\* There is one token at most that is not to be revoked, and it has the highest
\* version: the one that rotate_token commands carry last.
OneLastingToken ==
  \A t \in Tokens : tok[t].state = "live" =>
    \A u \in TokensThere \ {t} : tok[u].state # "live" /\ tok[u].ver < tok[t].ver

\* A token whose command is queued is in the agent's memory or file before the
\* command is older than a ClaimTimeout for each fault, and one more: it does not
\* expire unread, and every loss costs one redelivery at most.
PushTakenInTime ==
  ~cut /\ ~Degraded =>
    \A t \in Tokens :
      /\ tok[t].state = "live" /\ cmd[t].status \notin {"none", "manual"}
      /\ t \notin {agent.tok, disk.tok}
      => cmd[t].status # "expired" /\ cmd[t].age <= ClaimTimeout * (faults + 1)

\* "The new token has been pushed to the agent.  The agent will automatically
\* update its configuration": a token whose command is queued is taken by the
\* agent, unless it is replaced or the agent's access cut.
PushReachesAgent ==
  \A t \in Tokens :
    cmd[t].status \notin {"none", "manual"} /\ tok[t].state = "live" ~>
      agent.tok = t \/ tok[t].state # "live" \/ cut \/ Degraded
====
