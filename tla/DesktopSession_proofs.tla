----------------------- MODULE DesktopSession_proofs -----------------------
(* Proofs about the Desktop and its Host process, for any number of process *)
(* handles and control requests.                                            *)
EXTENDS DesktopSession, TLAPS, FiniteSetTheorems, SequenceTheorems
-----------------------------------------------------------------------------
(* The supervisor's part of the invariant, for a supervisor s after n starts *)
(* and the processes as they are.                                            *)
Fits(s, n) ==
    /\ s \in Supervisor /\ n \in Nat
    /\ s.timers # {} => s.state = "starting"
    /\ alive \subseteq {s.process}
    /\ s.state = "stopped" => s.process = None
    /\ \A r \in Requests : s.request[r] \in {s.process, None}
    /\ s.state = "ready" => s.process # None /\ host[s.process].lifecycle # "none"
    /\ s.stopPurpose # None => s.timers = {}
    /\ s.acknowledged =>
          /\ s.stopPurpose # None
          /\ s.process # None => host[s.process].lifecycle = "stopped"
    /\ n <= 2 /\ (~s.replacementUsed => n <= 1)
    /\ s.stopPurpose = "restore" \/ s.state = "ready" => n = 0
    /\ s.stopPurpose = None /\ s.state = "draining" => n = 0

ProcessInv == ProcessTypeOK /\ Queues /\ Said

LEMMA InvIsFit == SupervisorInv <=> ProcessInv /\ Fits(sup, attempts)
BY DEF SupervisorInv, ProcessInv, Fits, SupervisorTypeOK, Owned, RequestsOwned,
       ReadyHasBooted, Stopping, Replacements

\* The same two parts after a step that leaves the processes as they are.
LEMMA InvIsFitAfter ==
    ASSUME UNCHANGED <<host, alive>>, Fits(sup', attempts')
    PROVE  Fits(sup, attempts)'
BY DEF Fits

Command_ == [type : Commands, id : Ids]
Event_ == [from : Hosts, type : Events, id : Ids]

-----------------------------------------------------------------------------
(* Queues. *)
LEMMA Appended ==
    ASSUME NEW S, NEW q \in Seq(S), NEW e \in S
    PROVE  /\ Append(q, e) \in Seq(S)
           /\ \A k \in DOMAIN Append(q, e) :
                 \/ k \in DOMAIN q /\ Append(q, e)[k] = q[k]
                 \/ k = Len(q) + 1 /\ Append(q, e)[k] = e
BY AppendProperties, LenProperties

LEMMA Handled ==
    ASSUME NEW S, NEW q \in Seq(S), q # <<>>
    PROVE  /\ Head(q) \in S /\ Head(q) = q[1] /\ 1 \in DOMAIN q
           /\ Tail(q) \in Seq(S)
           /\ \A k \in DOMAIN Tail(q) : k \in Nat \ {0} /\ k + 1 \in DOMAIN q /\ Tail(q)[k] = q[k + 1]
<1>1. Len(q) \in Nat \ {0}
  BY EmptySeq
<1> QED
  BY <1>1, HeadTailProperties, LenProperties

LEMMA Elements ==
    ASSUME NEW S, NEW q \in Seq(S)
    PROVE  \A k \in DOMAIN q : q[k] \in S
BY LenProperties

LEMMA Senders ==
    ASSUME ProcessInv
    PROVE  \A k \in DOMAIN toDesktop : toDesktop[k].from \in Hosts
<1>1. toDesktop \in Seq(Event_)
  BY DEF ProcessInv, ProcessTypeOK, Event_
<1>2. \A k \in DOMAIN toDesktop : toDesktop[k] \in Event_
  BY <1>1, Elements
<1> QED
  BY <1>2 DEF Event_

\* A process that is given another command than boot.
LEMMA DeliverKept ==
    ASSUME ProcessInv, NEW h \in Hosts, NEW type \in Commands \ {"boot"}, NEW id \in Ids,
           Deliver(h, type, id), UNCHANGED <<host, alive>>
    PROVE  /\ toHost' \in [Hosts -> Seq(Command_)]
           /\ Queues'
<1> DEFINE c == [type |-> type, id |-> id]
<1>1. c \in Command_ /\ c.type = type
  BY DEF Command_
<1>2. toHost \in [Hosts -> Seq(Command_)]
  BY DEF ProcessInv, ProcessTypeOK, Command_
<1>3. CASE h \notin alive
  BY <1>2, <1>3 DEF Deliver, ProcessInv, Queues
<1>4. CASE h \in alive
  <2> HIDE DEF c
  <2>1. toHost' = [toHost EXCEPT ![h] = Append(toHost[h], c)]
    BY <1>4 DEF Deliver, c
  <2>2. /\ toHost'[h] = Append(toHost[h], c) /\ toHost[h] \in Seq(Command_)
        /\ \A g \in Hosts \ {h} : toHost'[g] = toHost[g]
    BY <1>2, <2>1
  <2>3. /\ toHost'[h] \in Seq(Command_)
        /\ \A k \in DOMAIN toHost'[h] :
              \/ k \in DOMAIN toHost[h] /\ toHost'[h][k] = toHost[h][k]
              \/ toHost'[h][k] = c
    BY <1>1, <2>2, Appended
  <2>4. \A k \in DOMAIN toHost'[h] : toHost'[h][k].type = "boot" => k = 1 /\ host[h].lifecycle = "none"
    BY <1>1, <2>3 DEF ProcessInv, Queues
  <2> QED
    BY <1>2, <1>4, <2>1, <2>2, <2>3, <2>4 DEF ProcessInv, Queues
<1> QED
  BY <1>3, <1>4

\* A process says something that is true of it.
LEMMA PostKept ==
    ASSUME ProcessInv, NEW h \in Hosts, NEW type \in Events, NEW id \in Ids,
           Post(h, type, id), host' \in [Hosts -> Runtime],
           \A g \in Hosts :
              /\ host[g].lifecycle # "none" => host'[g].lifecycle # "none"
              /\ host[g].lifecycle = "stopped" => host'[g].lifecycle = "stopped",
           type = "ready" => host'[h].lifecycle # "none",
           type = "stopped" => host'[h].lifecycle = "stopped"
    PROVE  toDesktop' \in Seq(Event_) /\ Said'
<1> DEFINE e == Event(h, type, id)
<1>1. e \in Event_ /\ e.type = type /\ e.from = h
  BY DEF Event, Event_
<1>2. toDesktop \in Seq(Event_) /\ toDesktop' = Append(toDesktop, e)
  BY DEF ProcessInv, ProcessTypeOK, Event_, Post
<1> HIDE DEF e
<1>3. /\ toDesktop' \in Seq(Event_)
      /\ \A k \in DOMAIN toDesktop' :
            \/ k \in DOMAIN toDesktop /\ toDesktop'[k] = toDesktop[k]
            \/ toDesktop'[k] = e
  BY <1>1, <1>2, Appended
<1> QED
  BY <1>1, <1>3, Senders DEF Said, ProcessInv

\* What was said stays true of a process whose lifecycle goes on.
LEMMA SaidKept ==
    ASSUME ProcessInv, UNCHANGED toDesktop,
           \A g \in Hosts :
              /\ host[g].lifecycle # "none" => host'[g].lifecycle # "none"
              /\ host[g].lifecycle = "stopped" => host'[g].lifecycle = "stopped"
    PROVE  Said'
BY Senders DEF ProcessInv, Said

LEMMA ReceiveKept ==
    ASSUME ProcessInv, NEW type \in Events, Receive(type)
    PROVE  /\ toDesktop' \in Seq(Event_) /\ Said'
           /\ Head(toDesktop) \in Event_
           /\ Head(toDesktop).type = "ready" => host[Head(toDesktop).from].lifecycle # "none"
           /\ Head(toDesktop).type = "stopped" => host[Head(toDesktop).from].lifecycle = "stopped"
<1>1. toDesktop \in Seq(Event_) /\ toDesktop # <<>> /\ toDesktop' = Tail(toDesktop) /\ host' = host
  BY DEF ProcessInv, ProcessTypeOK, Event_, Receive
<1>2. /\ Head(toDesktop) \in Event_ /\ Head(toDesktop) = toDesktop[1] /\ 1 \in DOMAIN toDesktop
      /\ toDesktop' \in Seq(Event_)
      /\ \A k \in DOMAIN toDesktop' : k + 1 \in DOMAIN toDesktop /\ toDesktop'[k] = toDesktop[k + 1]
  BY <1>1, Handled
<1> QED
  BY <1>1, <1>2 DEF ProcessInv, Said

-----------------------------------------------------------------------------
(* Steps of a Host process. *)

\* Each process only goes on: what fits its supervisor still does.
LEMMA FitsAlong ==
    ASSUME Fits(sup, attempts), UNCHANGED supVars, alive' \subseteq alive,
           \A g \in Hosts :
              /\ host[g].lifecycle # "none" => host'[g].lifecycle # "none"
              /\ host[g].lifecycle = "stopped" => host'[g].lifecycle = "stopped"
    PROVE  Fits(sup, attempts)'
<1>1. sup.process \in Hosts \cup {None}
  BY DEF Fits, Supervisor
<1> QED
  BY <1>1, HostsAssumption DEF Fits, supVars

\* The command that is taken from a queue.
LEMMA CommandKept ==
    ASSUME ProcessInv, NEW h \in Hosts, NEW type \in Commands, Command(h, type)
    PROVE  /\ toHost' \in [Hosts -> Seq(Command_)]
           /\ Head(toHost[h]) \in Command_
           /\ h \in alive /\ alive' = alive /\ killed' = killed
           /\ \A g \in Hosts : g \notin alive => toHost'[g] = <<>>
           /\ \A k \in DOMAIN toHost'[h] : toHost'[h][k].type # "boot"
           /\ \A g \in Hosts \ {h} : toHost'[g] = toHost[g]
           /\ type = "boot" => host[h].lifecycle = "none"
<1>1. toHost \in [Hosts -> Seq(Command_)]
  BY DEF ProcessInv, ProcessTypeOK, Command_
<1>2. /\ toHost[h] # <<>> /\ Head(toHost[h]).type = type /\ toHost' = [toHost EXCEPT ![h] = Tail(toHost[h])]
      /\ h \in alive /\ alive' = alive /\ killed' = killed
  BY DEF Command
<1>3. toHost[h] \in Seq(Command_) /\ toHost'[h] = Tail(toHost[h])
  BY <1>1, <1>2
<1>4. /\ Head(toHost[h]) \in Command_ /\ Head(toHost[h]) = toHost[h][1] /\ 1 \in DOMAIN toHost[h]
      /\ Tail(toHost[h]) \in Seq(Command_)
      /\ \A k \in DOMAIN Tail(toHost[h]) :
            k \in Nat \ {0} /\ k + 1 \in DOMAIN toHost[h] /\ Tail(toHost[h])[k] = toHost[h][k + 1]
  BY <1>2, <1>3, Handled
<1>5. \A k \in DOMAIN toHost[h] : toHost[h][k].type = "boot" => k = 1 /\ host[h].lifecycle = "none"
  BY DEF ProcessInv, Queues
<1>6. \A k \in DOMAIN Tail(toHost[h]) : toHost'[h][k].type # "boot"
  <2> TAKE k \in DOMAIN Tail(toHost[h])
  <2>1. k + 1 \in DOMAIN toHost[h] /\ k + 1 # 1 /\ toHost'[h][k] = toHost[h][k + 1]
    BY <1>3, <1>4
  <2> QED
    BY <2>1, <1>5
<1>7. toHost' \in [Hosts -> Seq(Command_)]
  BY <1>1, <1>2, <1>4
<1>8. \A g \in Hosts : g \notin alive => toHost'[g] = <<>>
  BY <1>1, <1>2 DEF ProcessInv, Queues
<1> QED
  BY <1>1, <1>2, <1>3, <1>4, <1>5, <1>6, <1>7, <1>8

\* A command is handled, and the process says what is true of it.
LEMMA HandledKept ==
    ASSUME SupervisorInv, NEW h \in Hosts, NEW type \in Commands, Command(h, type),
           UNCHANGED supVars,
           NEW rt \in Runtime, host' = [host EXCEPT ![h] = rt],
           rt.chain # "free" => rt.lifecycle # "none",
           type # "boot" /\ host[h].lifecycle # "none" => rt.lifecycle # "none",
           type # "boot" /\ host[h].lifecycle = "stopped" => rt.lifecycle = "stopped",
           \/ UNCHANGED toDesktop
           \/ \E ev \in Events \ {"ready", "stopped"}, id \in Ids : Post(h, ev, id)
           \/ rt.lifecycle # "none" /\ Post(h, "ready", None)
    PROVE  SupervisorInv'
<1>1. ProcessInv /\ Fits(sup, attempts)
  BY InvIsFit
<1>2. host \in [Hosts -> Runtime] /\ host' \in [Hosts -> Runtime] /\ host'[h] = rt
      /\ \A g \in Hosts \ {h} : host'[g] = host[g]
  BY <1>1 DEF ProcessInv, ProcessTypeOK
<1>3. \A g \in Hosts :
         /\ host[g].lifecycle # "none" => host'[g].lifecycle # "none"
         /\ host[g].lifecycle = "stopped" => host'[g].lifecycle = "stopped"
  BY <1>1, <1>2, CommandKept
<1>4. toDesktop' \in Seq(Event_) /\ Said'
  <2>1. CASE UNCHANGED toDesktop
    BY <1>1, <1>3, <2>1, SaidKept DEF ProcessInv, ProcessTypeOK, Event_
  <2>2. ASSUME NEW ev \in Events \ {"ready", "stopped"}, NEW id \in Ids, Post(h, ev, id)
        PROVE  toDesktop' \in Seq(Event_) /\ Said'
    BY <1>1, <1>2, <1>3, <2>2, PostKept
  <2>3. CASE rt.lifecycle # "none" /\ Post(h, "ready", None)
    <3>1. "ready" \in Events /\ None \in Ids
      BY DEF Events, Ids
    <3> QED
      BY <1>1, <1>2, <1>3, <2>3, <3>1, PostKept
  <2> QED
    BY <2>1, <2>2, <2>3
<1>5. Queues'
  <2>1. /\ \A g \in Hosts : g \notin alive' => toHost'[g] = <<>>
        /\ \A k \in DOMAIN toHost'[h] : toHost'[h][k].type # "boot"
        /\ \A g \in Hosts \ {h} : toHost'[g] = toHost[g]
    BY <1>1, CommandKept
  <2>2. \A g \in Hosts : host[g].chain # "free" => host[g].lifecycle # "none"
    BY <1>1 DEF ProcessInv, Queues
  <2>3. \A g \in Hosts : host'[g].chain # "free" => host'[g].lifecycle # "none"
    BY <1>2, <2>2
  <2>4. ASSUME NEW g \in Hosts, NEW k \in DOMAIN toHost'[g], toHost'[g][k].type = "boot"
        PROVE  k = 1 /\ host'[g].lifecycle = "none"
    <3>1. g # h /\ toHost'[g] = toHost[g] /\ host'[g] = host[g]
      BY <1>2, <2>1, <2>4
    <3> QED
      BY <1>1, <2>4, <3>1 DEF ProcessInv, Queues
  <2> QED
    BY <2>1, <2>3, <2>4 DEF Queues
<1>7. ProcessTypeOK'
  BY <1>1, <1>2, <1>4, CommandKept DEF ProcessInv, ProcessTypeOK, Command_, Event_
<1>6. Fits(sup, attempts)'
  BY <1>1, <1>3, CommandKept, FitsAlong
<1> QED
  BY <1>4, <1>5, <1>6, <1>7, InvIsFit, PTL DEF ProcessInv

\* A process changes otherwise, and says what is true of it.
LEMMA RuntimeKept ==
    ASSUME SupervisorInv, NEW h \in Hosts, UNCHANGED <<alive, killed, toHost>>,
           UNCHANGED supVars,
           NEW rt \in Runtime, host' = [host EXCEPT ![h] = rt],
           rt.chain # "free" => rt.lifecycle # "none",
           (rt.lifecycle = "none") <=> (host[h].lifecycle = "none"),
           host[h].lifecycle = "stopped" => rt.lifecycle = "stopped",
           \/ UNCHANGED toDesktop
           \/ \E ev \in Events \ {"ready", "stopped"}, id \in Ids : Post(h, ev, id)
           \/ rt.lifecycle = "stopped" /\ Post(h, "stopped", None)
    PROVE  SupervisorInv'
<1>1. ProcessInv /\ Fits(sup, attempts)
  BY InvIsFit
<1>2. host \in [Hosts -> Runtime] /\ host' \in [Hosts -> Runtime] /\ host'[h] = rt
      /\ \A g \in Hosts \ {h} : host'[g] = host[g]
  BY <1>1 DEF ProcessInv, ProcessTypeOK
<1>3. \A g \in Hosts :
         /\ (host'[g].lifecycle = "none") <=> (host[g].lifecycle = "none")
         /\ host[g].lifecycle = "stopped" => host'[g].lifecycle = "stopped"
  BY <1>2
<1>4. toDesktop' \in Seq(Event_) /\ Said'
  <2>1. CASE UNCHANGED toDesktop
    BY <1>1, <1>3, <2>1, SaidKept DEF ProcessInv, ProcessTypeOK, Event_
  <2>2. ASSUME NEW ev \in Events \ {"ready", "stopped"}, NEW id \in Ids, Post(h, ev, id)
        PROVE  toDesktop' \in Seq(Event_) /\ Said'
    BY <1>1, <1>2, <1>3, <2>2, PostKept
  <2>3. CASE rt.lifecycle = "stopped" /\ Post(h, "stopped", None)
    <3>1. "stopped" \in Events /\ None \in Ids
      BY DEF Events, Ids
    <3> QED
      BY <1>1, <1>2, <1>3, <2>3, <3>1, PostKept
  <2> QED
    BY <2>1, <2>2, <2>3
<1>5. Queues' /\ ProcessTypeOK'
  BY <1>1, <1>2, <1>3, <1>4 DEF Queues, ProcessInv, ProcessTypeOK, Event_
<1>6. Fits(sup, attempts)'
  BY <1>1, <1>3, FitsAlong
<1> QED
  BY <1>4, <1>5, <1>6, InvIsFit, PTL DEF ProcessInv

LEMMA HostStepKept ==
    ASSUME SupervisorInv, NEW h \in Hosts, HostSteps(h), UNCHANGED supVars
    PROVE  SupervisorInv'
<1>0. /\ ProcessInv /\ host \in [Hosts -> Runtime] /\ host[h] \in Runtime
      /\ host[h].chain # "free" => host[h].lifecycle # "none"
  BY DEF Queues, SupervisorInv, ProcessInv, ProcessTypeOK
<1> DEFINE keeps == host' = [host EXCEPT ![h] = host[h]]
<1>1. host' = host => keeps
  BY <1>0
<1>2. /\ \A type \in {"boot", "connect", "request", "drain", "shutdown"} : type \in Commands
      /\ \A ev \in {"failure", "answer", "replacement", "drained"} : ev \in Events \ {"ready", "stopped"}
      /\ None \in Ids
  BY DEF Commands, Events, Ids
<1>3. CASE Boot(h)
  <2>1. Command(h, "boot") /\ host[h].lifecycle = "none"
    BY <1>0, <1>2, <1>3, CommandKept DEF Boot
  <2>2. CASE host' = [host EXCEPT ![h].lifecycle = "ready"] /\ Post(h, "ready", None)
    <3>1. [host[h] EXCEPT !.lifecycle = "ready"] \in Runtime
      BY <1>0 DEF Runtime
    <3>2. host' = [host EXCEPT ![h] = [host[h] EXCEPT !.lifecycle = "ready"]]
          /\ [host[h] EXCEPT !.lifecycle = "ready"].lifecycle = "ready"
      BY <1>0, <2>2 DEF Runtime
    <3> QED
      BY <2>1, <2>2, <3>1, <3>2, <1>2, HandledKept
  <2>3. CASE UNCHANGED host /\ Report(h)
    BY <1>0, <1>1, <1>2, <2>1, <2>3, HandledKept DEF Report
  <2> QED
    BY <1>3, <2>2, <2>3 DEF Boot
<1>4. CASE BindConnection(h)
  <2>1. UNCHANGED host /\ Command(h, "connect") /\ (UNCHANGED toDesktop \/ Post(h, "failure", None))
    BY <1>4 DEF BindConnection, Report
  <2> QED
    BY <1>0, <1>1, <1>2, <2>1, HandledKept
<1>5. CASE Answer(h)
  <2>1. UNCHANGED host /\ Command(h, "request") /\ Post(h, "answer", Head(toHost[h]).id)
    BY <1>5 DEF Answer
  <2>2. Head(toHost[h]).id \in Ids
    BY <1>0, <1>2, <2>1, CommandKept DEF Command_
  <2> QED
    BY <1>0, <1>1, <1>2, <2>1, <2>2, HandledKept
<1>6. ASSUME NEW type \in {"drain", "shutdown"}, Close(h, type) PROVE SupervisorInv'
  <2>1. CASE UNCHANGED host /\ Report(h)
    BY <1>0, <1>1, <1>2, <1>6, <2>1, HandledKept DEF Report, Close
  <2>2. CASE host[h].lifecycle # "none" /\ ~(UNCHANGED host /\ Report(h))
    <3> DEFINE rt == [host[h] EXCEPT !.chain = type,
                          !.lifecycle = IF host[h].lifecycle = "ready" THEN "draining" ELSE host[h].lifecycle]
    <3>1. rt \in Runtime /\ rt.lifecycle = (IF host[h].lifecycle = "ready" THEN "draining" ELSE host[h].lifecycle)
      BY <1>0 DEF Runtime
    <3>2. host' = [host EXCEPT ![h] = rt] /\ UNCHANGED toDesktop /\ Command(h, type)
      BY <1>0, <1>6, <2>2 DEF Close, Runtime
    <3> HIDE DEF rt
    <3> QED
      BY <1>2, <2>2, <3>1, <3>2, HandledKept
  <2> QED
    BY <1>6, <2>1, <2>2 DEF Close
<1>7. CASE Drained(h)
  <2> DEFINE rt == [host[h] EXCEPT !.chain = "free"]
  <2>1. rt \in Runtime /\ rt.lifecycle = host[h].lifecycle /\ rt.chain = "free"
    BY <1>0 DEF Runtime
  <2>2. host' = [host EXCEPT ![h] = rt] /\ Post(h, "drained", None) /\ UNCHANGED <<alive, killed, toHost>>
    BY <1>0, <1>7 DEF Drained, Runtime
  <2> HIDE DEF rt
  <2> QED
    BY <1>2, <2>1, <2>2, RuntimeKept
<1>8. CASE Released(h)
  <2>1. CASE host' = [host EXCEPT ![h].chain = "free", ![h].lifecycle = "stopped"] /\ Post(h, "stopped", None)
    <3> DEFINE rt == [host[h] EXCEPT !.chain = "free", !.lifecycle = "stopped"]
    <3>1. rt \in Runtime /\ rt.lifecycle = "stopped" /\ host' = [host EXCEPT ![h] = rt]
      BY <1>0, <2>1 DEF Runtime
    <3>2. host[h].lifecycle # "none"
      BY <1>0, <1>8 DEF Released, ProcessInv, Queues
    <3> HIDE DEF rt
    <3> QED
      BY <1>2, <1>8, <2>1, <3>1, <3>2, RuntimeKept DEF Released
  <2>2. CASE host' = [host EXCEPT ![h].chain = "free"] /\ Report(h)
    <3> DEFINE rt == [host[h] EXCEPT !.chain = "free"]
    <3>1. rt \in Runtime /\ rt.lifecycle = host[h].lifecycle /\ rt.chain = "free"
          /\ host' = [host EXCEPT ![h] = rt]
      BY <1>0, <2>2 DEF Runtime
    <3> HIDE DEF rt
    <3> QED
      BY <1>2, <1>8, <2>2, <3>1, RuntimeKept DEF Released, Report
  <2> QED
    BY <1>8, <2>1, <2>2 DEF Released
<1>9. CASE BeginRestore(h)
  <2> DEFINE rt == [host[h] EXCEPT !.lifecycle = "draining", !.restoring = "running"]
  <2>1. rt \in Runtime /\ rt.lifecycle = "draining"
    BY <1>0 DEF Runtime
  <2>2. /\ host' = [host EXCEPT ![h] = rt] /\ host[h].lifecycle \in {"ready", "draining"}
        /\ UNCHANGED <<alive, killed, toHost, toDesktop>>
    BY <1>0, <1>9 DEF BeginRestore, Runtime
  <2> HIDE DEF rt
  <2> QED
    BY <2>1, <2>2, RuntimeKept
<1>12. CASE AcceptRestore(h)
  <2> DEFINE rt == [host[h] EXCEPT !.restoring = "accepted"]
  <2>1. rt \in Runtime /\ rt.lifecycle = host[h].lifecycle /\ rt.chain = host[h].chain
    BY <1>0 DEF Runtime
  <2>2. host' = [host EXCEPT ![h] = rt] /\ UNCHANGED <<alive, killed, toHost, toDesktop>>
    BY <1>0, <1>12 DEF AcceptRestore, Runtime
  <2> HIDE DEF rt
  <2> QED
    BY <1>0, <2>1, <2>2, RuntimeKept
<1>10. CASE EndRestore(h)
  <2> DEFINE rt == [host[h] EXCEPT !.restoring = "none"]
  <2>1. rt \in Runtime /\ rt.lifecycle = host[h].lifecycle /\ rt.chain = host[h].chain
    BY <1>0 DEF Runtime
  <2>2. /\ host' = [host EXCEPT ![h] = rt] /\ UNCHANGED <<alive, killed, toHost>>
        /\ Post(h, "replacement", None) \/ UNCHANGED toDesktop
    BY <1>0, <1>10 DEF EndRestore, Runtime
  <2> HIDE DEF rt
  <2> QED
    BY <1>0, <1>2, <2>1, <2>2, RuntimeKept
<1>11. CASE Dies(h)
  <2> DEFINE rt == [NewHost EXCEPT !.lifecycle = host[h].lifecycle]
  <2>1. rt \in Runtime /\ rt.lifecycle = host[h].lifecycle /\ rt.chain = "free"
    BY <1>0 DEF Runtime, NewHost
  <2>2. /\ host' = [host EXCEPT ![h] = rt] /\ alive' = alive \ {h} /\ killed' = killed \ {h}
        /\ toHost' = [toHost EXCEPT ![h] = <<>>] /\ UNCHANGED toDesktop
    BY <1>11 DEF Dies
  <2> HIDE DEF rt
  <2>3. \A g \in Hosts :
           /\ host'[g].lifecycle = host[g].lifecycle /\ host'[g].chain \in {host[g].chain, "free"}
           /\ toHost'[g] = IF g = h THEN <<>> ELSE toHost[g]
    BY <1>0, <2>1, <2>2 DEF ProcessInv, ProcessTypeOK
  <2>4. ProcessInv'
    <3>1. Said'
      BY <1>0, <2>2, <2>3, SaidKept
    <3>2. ProcessTypeOK'
      <4>1. <<>> \in Seq(Command_)
        BY EmptySeq
      <4> QED
        BY <1>0, <2>1, <2>2, <4>1 DEF ProcessInv, ProcessTypeOK, Command_
    <3>3. Queues'
      BY <1>0, <2>2, <2>3 DEF ProcessInv, Queues
    <3> QED
      BY <3>1, <3>2, <3>3 DEF ProcessInv
  <2>5. Fits(sup, attempts)'
    BY <2>2, <2>3, InvIsFit, FitsAlong
  <2> QED
    BY <2>4, <2>5, InvIsFit, PTL
<1> QED
  BY <1>3, <1>4, <1>5, <1>6, <1>7, <1>8, <1>9, <1>10, <1>11, <1>12 DEF HostSteps

-----------------------------------------------------------------------------
(* Steps of the supervisor. *)

\* Any step of the supervisor that starts no process.
LEMMA SupervisorKept ==
    ASSUME ProcessInv, UNCHANGED <<host, alive>>, killed' \subseteq Hosts, Fits(sup', attempts'),
           \/ UNCHANGED toHost
           \/ \E h \in Hosts, type \in Commands \ {"boot"}, id \in Ids : Deliver(h, type, id),
           UNCHANGED toDesktop \/ \E type \in Events : Receive(type)
    PROVE  SupervisorInv'
<1>1. toHost' \in [Hosts -> Seq(Command_)] /\ Queues'
  <2>1. CASE UNCHANGED toHost
    BY <2>1 DEF ProcessInv, ProcessTypeOK, Command_, Queues
  <2> QED
    BY <2>1, DeliverKept
<1>2. toDesktop' \in Seq(Event_) /\ Said'
  <2>1. CASE UNCHANGED toDesktop
    BY <2>1, SaidKept DEF ProcessInv, ProcessTypeOK, Event_
  <2> QED
    BY <2>1, ReceiveKept
<1>3. ProcessTypeOK'
  BY <1>1, <1>2 DEF ProcessInv, ProcessTypeOK, Command_, Event_
<1>4. Fits(sup, attempts)'
  BY InvIsFitAfter
<1> QED
  BY <1>1, <1>2, <1>3, <1>4, InvIsFit, PTL DEF ProcessInv

LEMMA TerminateKept ==
    ASSUME ProcessTypeOK, NEW s, NEW n, Fits(s, n), Terminate(s)
    PROVE  Fits(sup', n) /\ killed' \subseteq Hosts
<1>1. killed' \subseteq Hosts
  BY DEF Terminate, ProcessTypeOK
<1>2. CASE sup' = s
  BY <1>1, <1>2
<1>3. CASE sup' = [s EXCEPT !.timers = s.timers \ {"check"}, !.state = "starting"]
  <2>1. s \in Supervisor
    BY DEF Fits
  <2>2. sup' \in Supervisor
    BY <1>3, <2>1 DEF Supervisor
  <2>3. /\ sup'.state = "starting" /\ sup'.process = s.process
        /\ sup'.stopPurpose = s.stopPurpose /\ sup'.acknowledged = s.acknowledged
        /\ sup'.replacementUsed = s.replacementUsed /\ sup'.timers \subseteq s.timers
        /\ sup'.request = s.request
    BY <1>3, <2>1 DEF Supervisor
  <2> QED
    BY <1>1, <2>2, <2>3 DEF Fits
<1>4. CASE sup' = [Failed(RejectAll(s)) EXCEPT !.cycleTerminal = TRUE]
  <2>1. s \in Supervisor
    BY DEF Fits
  <2>2. sup' \in Supervisor
    BY <1>4, <2>1 DEF Supervisor, Failed, RejectAll
  <2>3. /\ sup'.state = "failed" /\ sup'.process = s.process
        /\ sup'.stopPurpose = s.stopPurpose /\ sup'.acknowledged = s.acknowledged
        /\ sup'.replacementUsed = s.replacementUsed /\ sup'.timers = {}
        /\ \A r \in Requests : sup'.request[r] = None \/ sup'.request[r] = s.request[r]
    BY <1>4, <2>1 DEF Supervisor, Failed, RejectAll
  <2> QED
    BY <1>1, <2>2, <2>3 DEF Fits
<1> QED
  BY <1>1, <1>2, <1>3, <1>4 DEF Terminate

\* A supervisor that knows no process and is about to start one.
Vacant(s) ==
    /\ s \in Supervisor /\ s.process = None /\ s.state = "starting"
    /\ s.stopPurpose = None /\ ~s.acknowledged
    /\ \A r \in Requests : s.request[r] = None

LEMMA LaunchKept ==
    ASSUME ProcessInv, alive = {}, UNCHANGED toDesktop, NEW s, Vacant(s), NEW n \in 0 .. 2,
           ~s.replacementUsed => n <= 1, Launch(s, n)
    PROVE  SupervisorInv'
<1>1. PICK h \in Fresh :
         /\ alive' = alive \cup {h} /\ host' = [host EXCEPT ![h] = NewHost] /\ attempts' = n
         /\ \/ /\ toHost' = [toHost EXCEPT ![h] = <<[type |-> "boot", id |-> None]>>]
               /\ sup' = [s EXCEPT !.state = "starting", !.process = h, !.timers = s.timers \cup {"check"}]
               /\ UNCHANGED killed
            \/ /\ UNCHANGED toHost
               /\ \/ killed' = killed \cup {h} /\ sup' = [s EXCEPT !.state = "starting", !.process = h]
                  \/ /\ UNCHANGED killed
                     /\ sup' = [Failed(s) EXCEPT !.process = h, !.cycleTerminal = TRUE]
  BY DEF Launch
<1>2. h \in Hosts /\ \A k \in DOMAIN toDesktop : toDesktop[k].from # h
  BY <1>1 DEF Fresh
<1>3. /\ host' \in [Hosts -> Runtime] /\ host'[h] = NewHost
      /\ \A g \in Hosts \ {h} : host'[g] = host[g]
  BY <1>1, <1>2 DEF ProcessInv, ProcessTypeOK, Runtime, NewHost
<1>4. Said'
  BY <1>2, <1>3, Senders DEF ProcessInv, Said
<1>5. toHost' \in [Hosts -> Seq(Command_)] /\ Queues'
  <2>1. toHost \in [Hosts -> Seq(Command_)]
    BY DEF ProcessInv, ProcessTypeOK, Command_
  <2>2. host'[h].lifecycle = "none" /\ host'[h].chain = "free"
    BY <1>3 DEF NewHost
  <2>3. \A g \in Hosts : toHost[g] = <<>>
    BY DEF ProcessInv, Queues
  <2>4. CASE UNCHANGED toHost
    BY <1>1, <1>3, <2>1, <2>2, <2>3, <2>4 DEF ProcessInv, Queues
  <2>5. CASE toHost' = [toHost EXCEPT ![h] = <<[type |-> "boot", id |-> None]>>]
    <3>1. [type |-> "boot", id |-> None] \in Command_
      BY DEF Command_, Commands, Ids
    <3>2. <<[type |-> "boot", id |-> None]>> \in Seq(Command_)
      BY <3>1
    <3>3. toHost' \in [Hosts -> Seq(Command_)]
      BY <1>2, <2>1, <2>5, <3>2
    <3>4. \A k \in DOMAIN toHost'[h] : k = 1
      BY <1>2, <2>1, <2>5
    <3> QED
      BY <1>1, <1>2, <1>3, <2>1, <2>2, <2>5, <3>3, <3>4 DEF ProcessInv, Queues
  <2> QED
    BY <1>1, <2>4, <2>5
<1>6. ProcessTypeOK'
  BY <1>1, <1>2, <1>3, <1>5 DEF ProcessInv, ProcessTypeOK, Command_
<1>7. Fits(sup, attempts)'
  <2>1. alive' = {h} /\ h # None
    BY <1>1, <1>2, HostsAssumption
  <2>2. sup'.process = h /\ sup' \in Supervisor /\ sup'.stopPurpose = None /\ ~sup'.acknowledged
        /\ sup'.request = s.request /\ sup'.replacementUsed = s.replacementUsed
        /\ sup'.state \in {"starting", "failed"} /\ (sup'.timers # {} => sup'.state = "starting")
    <3>1. s \in Supervisor /\ s.stopPurpose = None /\ s.acknowledged = FALSE
      BY DEF Vacant, Supervisor
    <3>2. CASE sup' = [s EXCEPT !.state = "starting", !.process = h, !.timers = s.timers \cup {"check"}]
      BY <1>2, <3>1, <3>2 DEF Supervisor
    <3>3. CASE sup' = [s EXCEPT !.state = "starting", !.process = h]
      BY <1>2, <3>1, <3>3 DEF Supervisor
    <3>4. CASE sup' = [Failed(s) EXCEPT !.process = h, !.cycleTerminal = TRUE]
      BY <1>2, <3>1, <3>4 DEF Supervisor, Failed
    <3> QED
      BY <1>1, <3>2, <3>3, <3>4
  <2> QED
    BY <1>1, <2>1, <2>2, HostsAssumption DEF Fits, Vacant
<1> QED
  BY <1>4, <1>5, <1>6, <1>7, InvIsFit, PTL DEF ProcessInv

LEMMA StartProcessKept ==
    ASSUME ProcessInv, alive = {}, UNCHANGED toDesktop, NEW s, Vacant(s), NEW n \in 0 .. 1,
           n = 0 \/ s.replacementUsed, StartProcess(s, n)
    PROVE  SupervisorInv'
<1>1. CASE Launch(s, n + 1)
  BY <1>1, LaunchKept
<1>2. CASE ~s.replacementUsed /\ Launch([s EXCEPT !.replacementUsed = TRUE], n + 2)
  <2> DEFINE t == [s EXCEPT !.replacementUsed = TRUE]
  <2>1. Vacant(t) /\ t.replacementUsed
    BY DEF Vacant, Supervisor
  <2>2. n + 2 \in 0 .. 2 /\ Launch(t, n + 2)
    BY <1>2
  <2> HIDE DEF t
  <2> QED
    BY <2>1, <2>2, LaunchKept
<1>3. CASE /\ sup' = [Failed(s) EXCEPT !.replacementUsed = TRUE]
           /\ attempts' = n + (IF s.replacementUsed THEN 1 ELSE 2)
           /\ UNCHANGED <<host, alive, killed, toHost>>
  <2>1. /\ sup' \in Supervisor /\ sup'.state = "failed" /\ sup'.process = None
        /\ sup'.stopPurpose = None /\ ~sup'.acknowledged /\ sup'.replacementUsed
        /\ sup'.timers = {} /\ sup'.request = s.request
    <3>1. s \in Supervisor /\ s.stopPurpose = None /\ s.acknowledged = FALSE /\ s.process = None
      BY DEF Vacant, Supervisor
    <3> QED
      BY <1>3, <3>1 DEF Supervisor, Failed
  <2>2. attempts' \in 0 .. 2
    BY <1>3
  <2>3. Fits(sup', attempts')
    BY <2>1, <2>2, HostsAssumption DEF Fits, Vacant
  <2> QED
    BY <1>3, <2>3, SupervisorKept DEF ProcessInv, ProcessTypeOK
<1> QED
  BY <1>1, <1>2, <1>3 DEF StartProcess

LEMMA BeginKept ==
    ASSUME ProcessInv, alive = {}, UNCHANGED toDesktop, NEW s \in Supervisor, NEW used \in BOOLEAN,
           s.process = None, s.stopPurpose = None, ~s.acknowledged,
           \A r \in Requests : s.request[r] = None,
           BeginStartupCycle(s, used, 0)
    PROVE  SupervisorInv'
<1> DEFINE t == [s EXCEPT !.timers = {"deadline"}, !.replacementUsed = used,
                          !.cycleTerminal = FALSE, !.state = "starting"]
<1>1. Vacant(t)
  BY DEF Vacant, Supervisor
<1>2. StartProcess(t, 0)
  BY DEF BeginStartupCycle
<1> QED
  BY <1>1, <1>2, StartProcessKept

LEMMA RequestShutdownKept ==
    ASSUME NEW s, NEW n, Fits(s, n), s.stopPurpose # None, RequestShutdown(s)
    PROVE  /\ Fits(sup', n)
           /\ UNCHANGED toHost \/ \E h \in Hosts : Deliver(h, "shutdown", None)
<1>1. s \in Supervisor /\ s.process \in Hosts \cup {None}
  BY DEF Fits, Supervisor
<1>2. PICK st \in {"stopped", "draining", "failed"} :
         sup' = [s EXCEPT !.state = st] /\ (st = "stopped" => s.process = None)
  BY DEF RequestShutdown
<1>3. /\ sup' \in Supervisor /\ sup'.state = st /\ sup'.process = s.process
      /\ sup'.stopPurpose = s.stopPurpose /\ sup'.acknowledged = s.acknowledged
      /\ sup'.replacementUsed = s.replacementUsed /\ sup'.timers = s.timers
      /\ sup'.request = s.request
  BY <1>1, <1>2 DEF Supervisor
<1>4. Fits(sup', n)
  BY <1>2, <1>3 DEF Fits
<1> QED
  BY <1>1, <1>4 DEF RequestShutdown

-----------------------------------------------------------------------------
(* The calls of the user and of the application. *)
LEMMA SupervisorFits ==
    ASSUME SupervisorInv
    PROVE  ProcessInv /\ ProcessTypeOK /\ Fits(sup, attempts) /\ sup \in Supervisor /\ killed \subseteq Hosts
BY InvIsFit DEF ProcessInv, ProcessTypeOK, Fits

LEMMA StartKept ==
    ASSUME SupervisorInv, Start \/ Retry
    PROVE  SupervisorInv'
<1> DEFINE s == Renewed
<1>1. ProcessInv /\ sup \in Supervisor /\ Fits(sup, attempts) /\ sup.process = None /\ UNCHANGED toDesktop
  BY SupervisorFits DEF Start, Retry
<1>2. s \in Supervisor /\ s.process = None /\ s.stopPurpose = None /\ s.acknowledged = FALSE
      /\ s.request = sup.request
  BY <1>1 DEF Renewed, Supervisor
<1>3. alive = {} /\ \A r \in Requests : s.request[r] = None
  BY <1>1, <1>2, HostsAssumption DEF Fits, ProcessInv, ProcessTypeOK
<1>4. BeginStartupCycle(s, FALSE, 0)
  BY DEF Start, Retry
<1> HIDE DEF s
<1> QED
  BY <1>1, <1>2, <1>3, <1>4, BeginKept

LEMMA ConnectKept ==
    ASSUME SupervisorInv, Connect
    PROVE  SupervisorInv'
<1>1. sup.process \in Hosts /\ "connect" \in Commands \ {"boot"} /\ None \in Ids
  BY SupervisorFits DEF Connect, Fits, Supervisor, Commands, Ids
<1>2. UNCHANGED <<host, alive, killed, toDesktop, sup, attempts>> /\ Deliver(sup.process, "connect", None)
  BY DEF Connect
<1> QED
  BY <1>1, <1>2, SupervisorFits, SupervisorKept

LEMMA RequestKept ==
    ASSUME SupervisorInv, NEW r \in Requests, Request(r) \/ RequestTimeout(r)
    PROVE  SupervisorInv'
<1>1. Fits(sup, attempts) /\ sup \in Supervisor /\ ProcessInv /\ killed \subseteq Hosts
  BY SupervisorFits
<1>2. PICK p \in {sup.process, None} : sup' = [sup EXCEPT !.request[r] = p]
  BY DEF Request, RequestTimeout
<1>3. /\ sup' \in Supervisor /\ sup'.state = sup.state /\ sup'.process = sup.process
      /\ sup'.stopPurpose = sup.stopPurpose /\ sup'.acknowledged = sup.acknowledged
      /\ sup'.replacementUsed = sup.replacementUsed /\ sup'.timers = sup.timers
      /\ \A q \in Requests : sup'.request[q] \in {sup.process, None}
  <2>1. sup.request \in [Requests -> Hosts \cup {None}] /\ p \in Hosts \cup {None}
    BY <1>1 DEF Supervisor
  <2>2. [sup.request EXCEPT ![r] = p] \in [Requests -> Hosts \cup {None}]
    BY <2>1
  <2>3. sup' = [sup EXCEPT !.request = [sup.request EXCEPT ![r] = p]]
    BY <1>2
  <2>4. \A q \in Requests : [sup.request EXCEPT ![r] = p][q] \in {sup.process, None}
    BY <1>1, <2>1 DEF Fits
  <2> QED
    BY <1>1, <2>2, <2>3, <2>4 DEF Supervisor
<1>4. Fits(sup', attempts')
  BY <1>1, <1>3 DEF Fits, Request, RequestTimeout
<1>5. CASE Request(r)
  <2>1. sup.process \in Hosts /\ "request" \in Commands \ {"boot"} /\ r \in Ids
    BY <1>1, <1>5 DEF Request, Fits, Supervisor, Commands, Ids
  <2>2. Deliver(sup.process, "request", r) /\ UNCHANGED <<host, alive, killed, toDesktop, attempts>>
    BY <1>5 DEF Request
  <2> QED
    BY <1>1, <1>4, <2>1, <2>2, SupervisorKept
<1>6. CASE RequestTimeout(r)
  BY <1>1, <1>4, <1>6, SupervisorKept DEF RequestTimeout, procVars
<1> QED
  BY <1>5, <1>6

LEMMA DrainKept ==
    ASSUME SupervisorInv, Drain
    PROVE  SupervisorInv'
<1> DEFINE s == [sup EXCEPT !.state = "draining"]
<1>1. Fits(sup, attempts) /\ sup \in Supervisor /\ ProcessInv /\ ProcessTypeOK /\ killed \subseteq Hosts
      /\ sup.state = "ready"
  BY SupervisorFits DEF Drain
<1>2. /\ s \in Supervisor /\ s.state = "draining" /\ s.process = sup.process
      /\ s.stopPurpose = sup.stopPurpose /\ s.acknowledged = sup.acknowledged
      /\ s.replacementUsed = sup.replacementUsed /\ s.timers = sup.timers
      /\ s.request = sup.request
  BY <1>1 DEF Supervisor
<1>3. Fits(s, attempts)
  BY <1>1, <1>2 DEF Fits
<1>4. UNCHANGED <<host, alive, toDesktop, attempts>>
      /\ \/ sup' = s /\ Deliver(sup.process, "drain", None) /\ UNCHANGED killed
         \/ Terminate(s) /\ UNCHANGED toHost
  BY DEF Drain
<1>5. sup.process \in Hosts /\ "drain" \in Commands \ {"boot"} /\ None \in Ids
  BY <1>1 DEF Fits, Supervisor, Commands, Ids
<1> HIDE DEF s
<1>6. CASE sup' = s /\ Deliver(sup.process, "drain", None) /\ UNCHANGED killed
  BY <1>1, <1>3, <1>4, <1>5, <1>6, SupervisorKept
<1>7. CASE Terminate(s) /\ UNCHANGED toHost
  BY <1>1, <1>3, <1>4, <1>7, TerminateKept, SupervisorKept
<1> QED
  BY <1>4, <1>6, <1>7

LEMMA ShutdownKept ==
    ASSUME SupervisorInv, Shutdown
    PROVE  SupervisorInv'
<1>1. Fits(sup, attempts) /\ sup \in Supervisor /\ ProcessInv /\ killed \subseteq Hosts
  BY SupervisorFits
<1>2. UNCHANGED <<host, alive, killed, toDesktop, attempts>>
  BY DEF Shutdown
<1>3. CASE UNCHANGED <<sup, toHost>>
  BY <1>1, <1>2, <1>3, SupervisorKept
<1>4. CASE sup.stopPurpose = "restore" /\ sup' = [sup EXCEPT !.stopPurpose = "quit"] /\ UNCHANGED toHost
  <2>1. /\ sup' \in Supervisor /\ sup'.state = sup.state /\ sup'.process = sup.process
        /\ sup'.stopPurpose = "quit" /\ sup'.acknowledged = sup.acknowledged
        /\ sup'.replacementUsed = sup.replacementUsed /\ sup'.timers = sup.timers
        /\ sup'.request = sup.request
    BY <1>1, <1>4 DEF Supervisor
  <2>2. Fits(sup', attempts')
    BY <1>1, <1>2, <1>4, <2>1, HostsAssumption DEF Fits
  <2> QED
    BY <1>1, <1>2, <1>4, <2>2, SupervisorKept
<1>5. CASE RequestShutdown([sup EXCEPT !.stopPurpose = "quit", !.timers = {}])
  <2> DEFINE s == [sup EXCEPT !.stopPurpose = "quit", !.timers = {}]
  <2>1. /\ s \in Supervisor /\ s.state = sup.state /\ s.process = sup.process
        /\ s.stopPurpose = "quit" /\ s.acknowledged = sup.acknowledged
        /\ s.replacementUsed = sup.replacementUsed /\ s.timers = {}
        /\ s.request = sup.request
    BY <1>1 DEF Supervisor
  <2>2. Fits(s, attempts) /\ s.stopPurpose # None
    BY <1>1, <2>1, HostsAssumption DEF Fits
  <2>3. RequestShutdown(s)
    BY <1>5
  <2> HIDE DEF s
  <2>4. Fits(sup', attempts') /\ (UNCHANGED toHost \/ \E h \in Hosts : Deliver(h, "shutdown", None))
    BY <1>2, <2>2, <2>3, RequestShutdownKept
  <2>5. "shutdown" \in Commands \ {"boot"} /\ None \in Ids
    BY DEF Commands, Ids
  <2> QED
    BY <1>1, <1>2, <2>4, <2>5, SupervisorKept
<1> QED
  BY <1>3, <1>4, <1>5 DEF Shutdown

-----------------------------------------------------------------------------
(* The events of a Host process. *)

\* An event the supervisor answers with a new state, and perhaps by a kill.
LEMMA EventKept ==
    ASSUME SupervisorInv, NEW type \in Events, Receive(type),
           killed' \subseteq Hosts, UNCHANGED toHost, Fits(sup', attempts')
    PROVE  SupervisorInv'
BY SupervisorFits, SupervisorKept DEF Receive

LEMMA EventTerminates ==
    ASSUME SupervisorInv, NEW type \in Events, Receive(type), Current,
           Terminate(sup), UNCHANGED <<toHost, attempts>>
    PROVE  SupervisorInv'
BY SupervisorFits, TerminateKept, EventKept

LEMMA EventsAre ==
    {"ready", "failure", "answer", "replacement", "drained", "stopped"} = Events
BY DEF Events

LEMMA StaleKept ==
    ASSUME SupervisorInv, NEW type \in Events, ReceiveStale(type)
    PROVE  SupervisorInv'
BY SupervisorFits, EventKept DEF ReceiveStale, supVars

LEMMA ReadyKept ==
    ASSUME SupervisorInv, ReceiveReady
    PROVE  SupervisorInv'
<1>1. Receive("ready") /\ Current /\ UNCHANGED toHost /\ "ready" \in Events
  BY EventsAre DEF ReceiveReady
<1>2. Fits(sup, attempts) /\ sup \in Supervisor /\ ProcessInv /\ killed \subseteq Hosts
  BY SupervisorFits
<1>3. sup.process \in Hosts /\ sup.process # None /\ host[sup.process].lifecycle # "none"
  BY <1>1, <1>2, ReceiveKept, HostsAssumption DEF Receive, Current, Event_
<1>4. CASE sup.state = "starting"
  <2>1. /\ sup' = [sup EXCEPT !.state = "ready", !.timers = {}, !.cycleTerminal = FALSE,
                               !.replacementUsed = FALSE]
        /\ attempts' = 0 /\ UNCHANGED killed
    BY <1>4 DEF ReceiveReady
  <2>2. /\ sup' \in Supervisor /\ sup'.state = "ready" /\ sup'.process = sup.process
        /\ sup'.stopPurpose = sup.stopPurpose /\ sup'.acknowledged = sup.acknowledged
        /\ sup'.timers = {} /\ sup'.request = sup.request
    BY <1>2, <2>1 DEF Supervisor
  <2>3. Fits(sup', attempts')
    BY <1>2, <1>3, <2>1, <2>2 DEF Fits
  <2> QED
    BY <1>1, <1>2, <2>1, <2>3, EventKept
<1>5. CASE sup.state # "starting"
  BY <1>1, <1>5, EventTerminates DEF ReceiveReady
<1> QED
  BY <1>4, <1>5

LEMMA AnswerKept ==
    ASSUME SupervisorInv, ReceiveAnswer
    PROVE  SupervisorInv'
<1> DEFINE r == Head(toDesktop).id
<1>1. Receive("answer") /\ Current /\ UNCHANGED <<toHost, attempts>> /\ "answer" \in Events
  BY EventsAre DEF ReceiveAnswer
<1>2. Fits(sup, attempts) /\ sup \in Supervisor /\ ProcessInv /\ killed \subseteq Hosts
  BY SupervisorFits
<1>3. CASE sup' = [sup EXCEPT !.request[r] = None] /\ UNCHANGED killed
  <2>1. sup.request \in [Requests -> Hosts \cup {None}]
    BY <1>2 DEF Supervisor
  <2>2. [sup.request EXCEPT ![r] = None] \in [Requests -> Hosts \cup {None}]
    BY <2>1
  <2>3. sup' = [sup EXCEPT !.request = [sup.request EXCEPT ![r] = None]]
    BY <1>3
  <2>4. \A q \in Requests : [sup.request EXCEPT ![r] = None][q] \in {sup.process, None}
    BY <1>2, <2>1 DEF Fits
  <2>5. /\ sup' \in Supervisor /\ sup'.state = sup.state /\ sup'.process = sup.process
        /\ sup'.stopPurpose = sup.stopPurpose /\ sup'.acknowledged = sup.acknowledged
        /\ sup'.replacementUsed = sup.replacementUsed /\ sup'.timers = sup.timers
        /\ \A q \in Requests : sup'.request[q] \in {sup.process, None}
    BY <1>2, <2>2, <2>3, <2>4 DEF Supervisor
  <2>6. Fits(sup', attempts')
    BY <1>1, <1>2, <2>5 DEF Fits
  <2> QED
    BY <1>1, <1>2, <1>3, <2>6, EventKept
<1>4. CASE Terminate(sup)
  BY <1>1, <1>4, EventTerminates
<1> QED
  BY <1>3, <1>4 DEF ReceiveAnswer

LEMMA ReplacementKept ==
    ASSUME SupervisorInv, ReceiveReplacement
    PROVE  SupervisorInv'
<1> DEFINE s == [sup EXCEPT !.stopPurpose = "restore", !.acknowledged = FALSE]
<1>1. Receive("replacement") /\ Current /\ UNCHANGED attempts /\ "replacement" \in Events
  BY EventsAre DEF ReceiveReplacement
<1>2. Fits(sup, attempts) /\ sup \in Supervisor /\ ProcessInv /\ killed \subseteq Hosts
  BY SupervisorFits
<1>3. CASE sup.state = "ready"
  <2>1. RequestShutdown(s) /\ UNCHANGED killed
    BY <1>3 DEF ReceiveReplacement
  <2>2. /\ s \in Supervisor /\ s.state = "ready" /\ s.process = sup.process
        /\ s.stopPurpose = "restore" /\ s.acknowledged = FALSE
        /\ s.replacementUsed = sup.replacementUsed /\ s.timers = sup.timers
        /\ s.request = sup.request
    BY <1>2, <1>3 DEF Supervisor
  <2>3. Fits(s, attempts) /\ s.stopPurpose # None
    BY <1>2, <1>3, <2>2, HostsAssumption DEF Fits
  <2> HIDE DEF s
  <2>4. Fits(sup', attempts') /\ (UNCHANGED toHost \/ \E h \in Hosts : Deliver(h, "shutdown", None))
    BY <1>1, <2>1, <2>3, RequestShutdownKept
  <2>5. "shutdown" \in Commands \ {"boot"} /\ None \in Ids
    BY DEF Commands, Ids
  <2> QED
    BY <1>1, <1>2, <2>1, <2>4, <2>5, SupervisorKept DEF Receive
<1>4. CASE sup.state # "ready"
  BY <1>1, <1>4, EventTerminates DEF ReceiveReplacement
<1> QED
  BY <1>3, <1>4

LEMMA DrainedKept ==
    ASSUME SupervisorInv, ReceiveDrained
    PROVE  SupervisorInv'
BY EventsAre, SupervisorFits, EventKept DEF ReceiveDrained, supVars

LEMMA StoppedKept ==
    ASSUME SupervisorInv, ReceiveStopped
    PROVE  SupervisorInv'
<1>1. Receive("stopped") /\ Current /\ UNCHANGED <<toHost, attempts>> /\ "stopped" \in Events
  BY EventsAre DEF ReceiveStopped
<1>2. Fits(sup, attempts) /\ sup \in Supervisor /\ ProcessInv /\ killed \subseteq Hosts
  BY SupervisorFits
<1>3. CASE sup.stopPurpose = None
  BY <1>1, <1>3, EventTerminates DEF ReceiveStopped
<1>4. CASE sup.stopPurpose # None
  <2>1. sup' = [RejectAll(sup) EXCEPT !.acknowledged = TRUE] /\ UNCHANGED killed
    BY <1>4 DEF ReceiveStopped
  <2>2. host[sup.process].lifecycle = "stopped"
    BY <1>1, <1>2, ReceiveKept DEF Receive, Current
  <2>3. sup' \in Supervisor
    BY <1>2, <2>1 DEF Supervisor, RejectAll
  <2>4. /\ sup'.state = sup.state /\ sup'.process = sup.process
        /\ sup'.stopPurpose = sup.stopPurpose
        /\ sup'.replacementUsed = sup.replacementUsed /\ sup'.timers = sup.timers
        /\ \A q \in Requests : sup'.request[q] \in {sup.request[q], None}
    BY <1>2, <2>1 DEF Supervisor, RejectAll
  <2>5. Fits(sup', attempts')
    BY <1>1, <1>2, <1>4, <2>2, <2>3, <2>4 DEF Fits
  <2> QED
    BY <1>1, <1>2, <2>1, <2>5, EventKept
<1> QED
  BY <1>3, <1>4

LEMMA FailureKept ==
    ASSUME SupervisorInv, ReceiveFailure
    PROVE  SupervisorInv'
<1>1. Receive("failure") /\ Current /\ UNCHANGED <<toHost, attempts>> /\ "failure" \in Events
  BY EventsAre DEF ReceiveFailure
<1>2. Fits(sup, attempts) /\ sup \in Supervisor /\ ProcessInv /\ killed \subseteq Hosts
  BY SupervisorFits
<1>3. CASE sup.stopPurpose = None
  BY <1>1, <1>3, EventTerminates DEF ReceiveFailure
<1>4. CASE sup.stopPurpose # None
  <2>1. sup' = [sup EXCEPT !.state = "failed"] /\ UNCHANGED killed
    BY <1>4 DEF ReceiveFailure
  <2>2. /\ sup' \in Supervisor /\ sup'.state = "failed" /\ sup'.process = sup.process
        /\ sup'.stopPurpose = sup.stopPurpose /\ sup'.acknowledged = sup.acknowledged
        /\ sup'.replacementUsed = sup.replacementUsed /\ sup'.timers = sup.timers
        /\ sup'.request = sup.request
    BY <1>2, <2>1 DEF Supervisor
  <2>3. Fits(sup', attempts')
    BY <1>1, <1>2, <1>4, <2>2 DEF Fits
  <2> QED
    BY <1>1, <1>2, <2>1, <2>3, EventKept
<1> QED
  BY <1>3, <1>4

-----------------------------------------------------------------------------
(* The exit of a process, and the timers. *)
LEMMA ExitKept ==
    ASSUME SupervisorInv, HandleExit
    PROVE  SupervisorInv'
<1> DEFINE s == Gone(sup)
           ends(state) == /\ sup' = [s EXCEPT !.state = state, !.timers = {}]
                          /\ UNCHANGED <<host, alive, killed, toHost, attempts>>
<1>1. Fits(sup, attempts) /\ sup \in Supervisor /\ ProcessInv /\ killed \subseteq Hosts
  BY SupervisorFits
<1>2. sup.process # None /\ sup.process \notin alive /\ UNCHANGED toDesktop
  BY DEF HandleExit
<1>3. alive = {}
  BY <1>1, <1>2 DEF Fits
<1>4. s \in Supervisor
  BY <1>1 DEF Gone, RejectAll, Supervisor
<1>5. /\ s.state = sup.state /\ s.process = None
      /\ s.stopPurpose = sup.stopPurpose /\ s.acknowledged = sup.acknowledged
      /\ s.replacementUsed = sup.replacementUsed /\ s.timers \subseteq sup.timers
      /\ s.cycleTerminal = sup.cycleTerminal
  BY <1>1 DEF Gone, RejectAll, Supervisor
<1>6. \A r \in Requests : s.request[r] = None
  <2>1. \A r \in Requests : s.request[r] = IF sup.request[r] = sup.process THEN None ELSE sup.request[r]
    BY <1>1 DEF Gone, RejectAll, Supervisor
  <2> QED
    BY <1>1, <2>1 DEF Fits
<1>7. \/ sup.stopPurpose # None /\ ~sup.acknowledged /\ ends("failed")
      \/ /\ sup.stopPurpose = "restore" /\ sup.acknowledged
         /\ BeginStartupCycle([s EXCEPT !.stopPurpose = None, !.acknowledged = FALSE], TRUE, attempts)
      \/ sup.stopPurpose = "quit" /\ sup.acknowledged /\ ends("stopped")
      \/ sup.stopPurpose = None /\ ends("failed")
      \/ sup.stopPurpose = None /\ sup.state \in {"ready", "draining"} /\ BeginStartupCycle(s, TRUE, attempts)
      \/ /\ sup.stopPurpose = None /\ ~s.replacementUsed
         /\ StartProcess([s EXCEPT !.replacementUsed = TRUE, !.state = "starting"], attempts)
  <2>1. sup.stopPurpose \in {"quit", "restore", None}
    BY <1>1 DEF Supervisor
  <2> HIDE DEF s
  <2>2. CASE s.stopPurpose # None /\ ~s.acknowledged
    BY <1>5, <2>1, <2>2 DEF HandleExit, Receipted, s
  <2>3. CASE s.stopPurpose = "restore" /\ s.acknowledged
    BY <1>5, <2>1, <2>3, HostsAssumption DEF HandleExit, Receipted, s
  <2>4. CASE s.stopPurpose = "quit" /\ s.acknowledged
    BY <1>5, <2>1, <2>4, HostsAssumption DEF HandleExit, Receipted, s
  <2>5. CASE s.stopPurpose = None /\ s.cycleTerminal
    BY <1>5, <2>1, <2>5, HostsAssumption DEF HandleExit, Receipted, s
  <2>6. CASE s.stopPurpose = None /\ ~s.cycleTerminal /\ s.state \in {"ready", "draining"}
    BY <1>5, <2>1, <2>6, HostsAssumption DEF HandleExit, Receipted, s
  <2>7. CASE s.stopPurpose = None /\ ~s.cycleTerminal /\ s.state \notin {"ready", "draining"}
    BY <1>5, <2>1, <2>7, HostsAssumption DEF HandleExit, Receipted, s
  <2> QED
    BY <1>5, <2>1, <2>2, <2>3, <2>4, <2>5, <2>6, <2>7
<1> HIDE DEF s
<1>8. ASSUME NEW state \in {"failed", "stopped"}, ends(state) PROVE SupervisorInv'
  <2>1. /\ sup' \in Supervisor /\ sup'.state = state /\ sup'.process = None
        /\ sup'.stopPurpose = sup.stopPurpose /\ sup'.acknowledged = sup.acknowledged
        /\ sup'.replacementUsed = sup.replacementUsed /\ sup'.timers = {}
        /\ sup'.request = s.request
    BY <1>4, <1>5, <1>8 DEF Supervisor
  <2>2. Fits(sup', attempts')
    BY <1>1, <1>3, <1>6, <1>8, <2>1 DEF Fits
  <2> QED
    BY <1>1, <1>2, <1>8, <2>2, SupervisorKept
<1>9. CASE /\ sup.stopPurpose = "restore" /\ sup.acknowledged
           /\ BeginStartupCycle([s EXCEPT !.stopPurpose = None, !.acknowledged = FALSE], TRUE, attempts)
  <2> DEFINE t == [s EXCEPT !.stopPurpose = None, !.acknowledged = FALSE]
  <2>1. /\ t \in Supervisor /\ t.process = None /\ t.stopPurpose = None /\ t.acknowledged = FALSE
        /\ t.request = s.request
    BY <1>4, <1>5 DEF Supervisor
  <2>2. attempts = 0 /\ BeginStartupCycle(t, TRUE, attempts)
    BY <1>1, <1>9 DEF Fits
  <2> HIDE DEF t
  <2> QED
    BY <1>1, <1>2, <1>3, <1>6, <2>1, <2>2, BeginKept
<1>10. CASE sup.stopPurpose = None /\ sup.state \in {"ready", "draining"} /\ BeginStartupCycle(s, TRUE, attempts)
  <2>1. attempts = 0 /\ s.stopPurpose = None /\ ~s.acknowledged
    BY <1>1, <1>5, <1>10 DEF Fits
  <2> QED
    BY <1>1, <1>2, <1>3, <1>4, <1>5, <1>6, <1>10, <2>1, BeginKept
<1>11. CASE /\ sup.stopPurpose = None /\ ~s.replacementUsed
            /\ StartProcess([s EXCEPT !.replacementUsed = TRUE, !.state = "starting"], attempts)
  <2> DEFINE t == [s EXCEPT !.replacementUsed = TRUE, !.state = "starting"]
  <2>1. t \in Supervisor /\ t.process = None /\ t.stopPurpose = None /\ t.acknowledged = s.acknowledged
        /\ t.request = s.request /\ t.state = "starting"
    BY <1>4, <1>5, <1>11 DEF Supervisor
  <2>2. t.replacementUsed = TRUE
    BY <1>4 DEF Supervisor
  <2>3. attempts \in 0 .. 1 /\ ~s.acknowledged /\ StartProcess(t, attempts)
    BY <1>1, <1>5, <1>11 DEF Fits
  <2> HIDE DEF t
  <2>4. Vacant(t)
    BY <1>6, <2>1, <2>3 DEF Vacant
  <2> QED
    BY <1>1, <1>2, <1>3, <2>2, <2>3, <2>4, StartProcessKept
<1> QED
  BY <1>7, <1>8, <1>9, <1>10, <1>11

LEMMA TimersKept ==
    ASSUME SupervisorInv, StartupCheck \/ StartupDeadline
    PROVE  SupervisorInv'
<1>1. Fits(sup, attempts) /\ sup \in Supervisor /\ ProcessInv /\ ProcessTypeOK /\ killed \subseteq Hosts
  BY SupervisorFits
<1>2. UNCHANGED <<host, alive, toHost, toDesktop, attempts>>
  BY DEF StartupCheck, StartupDeadline
<1>3. ASSUME NEW timer \in {"check", "deadline"}
      PROVE  LET s == [sup EXCEPT !.timers = sup.timers \ {timer}]
             IN Fits(s, attempts) /\ s.process = sup.process /\ s.state = sup.state
                /\ s \in Supervisor /\ s.timers \subseteq sup.timers /\ s.stopPurpose = sup.stopPurpose
                /\ s.acknowledged = sup.acknowledged /\ s.replacementUsed = sup.replacementUsed
                /\ s.request = sup.request
  <2> DEFINE s == [sup EXCEPT !.timers = sup.timers \ {timer}]
  <2>1. /\ s \in Supervisor /\ s.state = sup.state /\ s.process = sup.process
        /\ s.stopPurpose = sup.stopPurpose /\ s.acknowledged = sup.acknowledged
        /\ s.replacementUsed = sup.replacementUsed /\ s.timers \subseteq sup.timers
        /\ s.request = sup.request
    BY <1>1 DEF Supervisor
  <2> HIDE DEF s
  <2>2. Fits(s, attempts)
    BY <1>1, <2>1 DEF Fits
  <2> QED
    BY <2>1, <2>2 DEF s
<1>4. CASE StartupCheck
  <2> DEFINE s == [sup EXCEPT !.timers = sup.timers \ {"check"}]
  <2>1. Fits(s, attempts) /\ s.process = sup.process
    BY <1>3
  <2>2. Terminate(s) \/ (sup' = s /\ UNCHANGED killed)
    BY <1>4 DEF StartupCheck
  <2> HIDE DEF s
  <2>3. Fits(sup', attempts') /\ killed' \subseteq Hosts
    BY <1>1, <1>2, <2>1, <2>2, TerminateKept
  <2> QED
    BY <1>1, <1>2, <2>3, SupervisorKept
<1>5. CASE StartupDeadline
  <2> DEFINE s == [sup EXCEPT !.timers = sup.timers \ {"deadline"}]
  <2>1. /\ Fits(s, attempts) /\ s.process = sup.process /\ s.state = sup.state
        /\ s \in Supervisor /\ s.stopPurpose = sup.stopPurpose
        /\ s.acknowledged = sup.acknowledged /\ s.replacementUsed = sup.replacementUsed
        /\ s.request = sup.request
    BY <1>3
  <2>2. killed' \subseteq Hosts
    BY <1>1, <1>5 DEF StartupDeadline, ProcessTypeOK
  <2>3. \/ sup' = s
        \/ sup' = [s EXCEPT !.cycleTerminal = TRUE, !.timers = {}, !.state = "failed"]
    BY <1>5 DEF StartupDeadline
  <2> HIDE DEF s
  <2>4. Fits(sup', attempts')
    <3>1. CASE sup' = s
      BY <1>2, <2>1, <3>1
    <3>2. CASE sup' = [s EXCEPT !.cycleTerminal = TRUE, !.timers = {}, !.state = "failed"]
      <4>1. /\ sup' \in Supervisor /\ sup'.state = "failed" /\ sup'.process = s.process
            /\ sup'.stopPurpose = s.stopPurpose /\ sup'.acknowledged = s.acknowledged
            /\ sup'.replacementUsed = s.replacementUsed /\ sup'.timers = {}
            /\ sup'.request = s.request
        BY <2>1, <3>2 DEF Supervisor
      <4> QED
        BY <1>2, <2>1, <4>1 DEF Fits
    <3> QED
      BY <2>3, <3>1, <3>2
  <2> QED
    BY <1>1, <1>2, <2>2, <2>4, SupervisorKept
<1> QED
  BY <1>4, <1>5

LEMMA SupervisorStepKept ==
    ASSUME SupervisorInv, SupervisorSteps
    PROVE  SupervisorInv'
BY StartKept, ConnectKept, DrainKept, ExitKept, TimersKept, RequestKept, StaleKept, ReadyKept,
   AnswerKept, ReplacementKept, DrainedKept, StoppedKept, FailureKept
DEF SupervisorSteps

-----------------------------------------------------------------------------
(* The Desktop process as a whole. *)
LEMMA InitInv == Init => Inv
<1> SUFFICES ASSUME Init PROVE Inv
  OBVIOUS
<1> USE DEF Init, ProcessInit, SupervisorInit
<1>1. ProcessInv
  <2>1. NewHost \in Runtime /\ <<>> \in Seq(Command_) /\ <<>> \in Seq(Event_)
    BY EmptySeq DEF NewHost, Runtime
  <2> QED
    BY <2>1 DEF ProcessInv, ProcessTypeOK, Queues, Said, NewHost, Command_, Event_
<1>2. Fits(sup, attempts)
  <2>1. sup \in Supervisor
    BY DEF Supervisor
  <2> QED
    BY <2>1, HostsAssumption DEF Fits
<1>3. SupervisorInv
  BY <1>1, <1>2, InvIsFit
<1> QED
  BY <1>3 DEF Inv, TypeOK, QuitLeavesNoHost, SupervisorInv

\* A supervisor that stopped knows no process, and none runs.
LEMMA StoppedIsAlone ==
    ASSUME SupervisorInv, sup.state = "stopped"
    PROVE  sup.process = None /\ alive = {}
BY HostsAssumption DEF SupervisorInv, Owned, ProcessTypeOK

LEMMA SupervisorUnchanged ==
    ASSUME SupervisorInv, UNCHANGED <<procVars, supVars>>
    PROVE  SupervisorInv'
BY DEF SupervisorInv, procVars, supVars, ProcessTypeOK, SupervisorTypeOK, Owned,
       RequestsOwned, ReadyHasBooted, Queues, Said, Stopping, Replacements

LEMMA ConcludesKept ==
    ASSUME SupervisorInv', Concludes(sup'.state)
    PROVE  /\ attempt' \in {"idle", "failed"} /\ waitsFor' = None /\ exited' \in BOOLEAN
           /\ QuitLeavesNoHost'
<1>1. exited' = (sup'.state = "stopped")
  BY DEF Concludes
<1>2. (sup.state = "stopped" => sup.process = None /\ alive = {})'
  BY StoppedIsAlone, PTL
<1> QED
  BY <1>1, <1>2 DEF Concludes, QuitLeavesNoHost

LEMMA FinishHostKept ==
    ASSUME Inv, ~exited, FinishHost
    PROVE  Inv'
<1>1. SupervisorInv /\ TypeOK
  BY DEF Inv
<1>2. CASE sup.state = "stopped"
  <2>1. Concludes("stopped") /\ UNCHANGED <<procVars, supVars>> /\ traced' = TRUE
    BY <1>2 DEF FinishHost
  <2>2. SupervisorInv'
    BY <1>1, <2>1, SupervisorUnchanged
  <2>3. Concludes(sup'.state)
    BY <1>2, <2>1 DEF supVars
  <2> QED
    BY <2>1, <2>2, <2>3, ConcludesKept DEF Inv, TypeOK, SupervisorInv
<1>3. CASE sup.state # "stopped"
  <2>1. Shutdown /\ traced' = TRUE
        /\ \/ Concludes(sup'.state)
           \/ attempt' = "pending" /\ waitsFor' = "host" /\ UNCHANGED exited
    BY <1>3 DEF FinishHost
  <2>2. SupervisorInv'
    BY <1>1, <2>1, ShutdownKept
  <2>3. CASE Concludes(sup'.state)
    BY <2>1, <2>2, <2>3, ConcludesKept DEF Inv, TypeOK, SupervisorInv
  <2>4. CASE attempt' = "pending" /\ waitsFor' = "host" /\ UNCHANGED exited
    BY <2>1, <2>2, <2>4 DEF Inv, TypeOK, SupervisorInv, QuitLeavesNoHost
  <2> QED
    BY <2>1, <2>3, <2>4
<1> QED
  BY <1>2, <1>3

LEMMA NextInv == Inv /\ [Next]_vars => Inv'
<1> SUFFICES ASSUME Inv, [Next]_vars PROVE Inv'
  OBVIOUS
<1>1. SupervisorInv /\ TypeOK
  BY DEF Inv
<1>2. CASE UNCHANGED vars
  BY <1>1, <1>2, SupervisorUnchanged DEF vars, quitVars, Inv, TypeOK, SupervisorInv, QuitLeavesNoHost,
     procVars, supVars
<1>3. CASE ~exited /\ HostStep
  <2>1. SupervisorInv'
    BY <1>1, <1>3, HostStepKept DEF HostStep
  <2> QED
    BY <1>1, <1>3, <2>1 DEF HostStep, quitVars, Inv, TypeOK, SupervisorInv, QuitLeavesNoHost
<1>4. CASE ~exited /\ SupervisorStep
  <2>1. SupervisorInv'
    BY <1>1, <1>4, SupervisorStepKept DEF SupervisorStep
  <2>2. CASE UNCHANGED <<attempt, waitsFor, exited>>
    BY <1>1, <1>4, <2>1, <2>2 DEF SupervisorStep, Observes, Inv, TypeOK, SupervisorInv, QuitLeavesNoHost
  <2>3. CASE Concludes(sup'.state)
    BY <1>1, <1>4, <2>1, <2>3, ConcludesKept DEF SupervisorStep, Observes, Inv, TypeOK, SupervisorInv
  <2> QED
    BY <1>4, <2>2, <2>3 DEF SupervisorStep, Observes
<1>5. CASE ~exited /\ PerformanceFinished
  BY <1>5, FinishHostKept DEF PerformanceFinished
<1>6. CASE ~exited /\ HostDeadline
  BY <1>1, <1>6, SupervisorUnchanged DEF HostDeadline, Inv, TypeOK, SupervisorInv, QuitLeavesNoHost
<1>7. CASE ~exited /\ BeforeQuit
  <2>1. CASE /\ sup.state = "stopped" /\ exited' = TRUE
             /\ UNCHANGED <<procVars, supVars, attempt, waitsFor, traced>>
    <3>1. sup.process = None /\ alive = {}
      BY <1>1, <2>1, StoppedIsAlone
    <3> QED
      BY <1>1, <2>1, <3>1, SupervisorUnchanged
      DEF Inv, TypeOK, SupervisorInv, QuitLeavesNoHost, procVars, supVars
  <2>2. CASE FinishHost
    BY <1>7, <2>2, FinishHostKept
  <2>3. CASE attempt' = "pending" /\ waitsFor' = "performance"
             /\ UNCHANGED <<procVars, supVars, traced, exited>>
    BY <1>1, <1>7, <2>3, SupervisorUnchanged DEF Inv, TypeOK, SupervisorInv, QuitLeavesNoHost
  <2> QED
    BY <1>7, <2>1, <2>2, <2>3 DEF BeforeQuit
<1> QED
  BY <1>2, <1>3, <1>4, <1>5, <1>6, <1>7 DEF Next, QuitStep

\* The inductive invariant holds in every reachable state.
THEOREM Invariance == Spec => []Inv
BY InitInv, NextInv, PTL DEF Spec

\* Every reachable state is well typed.
THEOREM TypeCorrect == Spec => []TypeOK
<1>1. Inv => TypeOK
  BY DEF Inv
<1> QED
  BY <1>1, Invariance, PTL

\* At most one Host process runs: utility-host-supervisor starts a process
\* only when the exit of the one before it was reported.
THEOREM OneHostRuns == Spec => []OneHost
<1>1. Inv => OneHost
  <2> SUFFICES ASSUME Inv PROVE Cardinality(alive) <= 1
    BY DEF OneHost
  <2>1. alive \subseteq {sup.process}
    BY DEF Inv, SupervisorInv, Owned
  <2>2. IsFiniteSet({sup.process}) /\ Cardinality({sup.process}) = 1
    BY FS_Singleton
  <2>3. Cardinality(alive) <= Cardinality({sup.process})
    BY <2>1, <2>2, FS_Subset
  <2> QED
    BY <2>2, <2>3
<1> QED
  BY <1>1, Invariance, PTL

\* The Desktop shows a Host as ready only once it booted.
THEOREM ReadyIsBooted == Spec => []ReadyHasBooted
<1>1. Inv => ReadyHasBooted
  BY DEF Inv, SupervisorInv, Owned
<1> QED
  BY <1>1, Invariance, PTL

\* A control request never waits for a process that is gone.
THEOREM RequestsHaveOwners == Spec => []RequestsOwned
<1>1. Inv => RequestsOwned
  BY DEF Inv, SupervisorInv, Owned
<1> QED
  BY <1>1, Invariance, PTL

\* The application never quits over a Host that runs.
THEOREM QuitIsClean == Spec => []QuitLeavesNoHost
<1>1. Inv => QuitLeavesNoHost
  BY DEF Inv
<1> QED
  BY <1>1, Invariance, PTL

\* A Host that fails is replaced once, and then it is the user's turn.
THEOREM ReplacedOnce == Spec => []OneReplacement
<1>1. Inv => OneReplacement
  BY DEF Inv, SupervisorInv, Replacements, OneReplacement
<1> QED
  BY <1>1, Invariance, PTL

-----------------------------------------------------------------------------
(* How a supervisor comes to say that its Host has stopped. *)
LEMMA TerminateState ==
    ASSUME NEW s \in Supervisor, Terminate(s)
    PROVE  sup'.state \in {s.state, "starting", "failed"}
BY DEF Terminate, Failed, RejectAll, Supervisor

LEMMA StartProcessState ==
    ASSUME NEW s \in Supervisor, NEW n, s.state = "starting", StartProcess(s, n)
    PROVE  sup'.state \in {"starting", "failed"}
<1>1. ASSUME NEW t \in Supervisor, NEW m, t.state = "starting", Launch(t, m)
      PROVE  sup'.state \in {"starting", "failed"}
  BY ZenonT(60), <1>1 DEF Launch, Failed, Supervisor
<1>2. [s EXCEPT !.replacementUsed = TRUE] \in Supervisor
      /\ [s EXCEPT !.replacementUsed = TRUE].state = "starting"
  BY DEF Supervisor
<1>3. [Failed(s) EXCEPT !.replacementUsed = TRUE].state = "failed"
  BY DEF Failed, Supervisor
<1> QED
  BY <1>1, <1>2, <1>3 DEF StartProcess

LEMMA BeginState ==
    ASSUME NEW s \in Supervisor, NEW used \in BOOLEAN, NEW n, BeginStartupCycle(s, used, n)
    PROVE  sup'.state \in {"starting", "failed"}
<1> DEFINE t == [s EXCEPT !.timers = {"deadline"}, !.replacementUsed = used,
                          !.cycleTerminal = FALSE, !.state = "starting"]
<1>1. t \in Supervisor /\ t.state = "starting"
  BY DEF Supervisor
<1>2. StartProcess(t, n)
  BY DEF BeginStartupCycle
<1> HIDE DEF t
<1> QED
  BY <1>1, <1>2, StartProcessState

LEMMA ExitIsReceipt ==
    ASSUME SupervisorInv, HandleExit, sup'.state = "stopped"
    PROVE  host[sup.process].lifecycle = "stopped"
<1> DEFINE s == Gone(sup)
<1>1. Fits(sup, attempts) /\ sup \in Supervisor /\ sup.process # None
  BY SupervisorFits DEF HandleExit, Receipted
<1>2. s \in Supervisor /\ s.stopPurpose = sup.stopPurpose /\ s.acknowledged = sup.acknowledged
  BY <1>1 DEF Gone, RejectAll, Supervisor
<1>3. CASE s.stopPurpose = "quit" /\ s.acknowledged
  BY <1>1, <1>2, <1>3 DEF Fits
<1>4. CASE ~(s.stopPurpose = "quit" /\ s.acknowledged)
  <2> HIDE DEF s
  <2>1. \/ sup' = [s EXCEPT !.state = "failed", !.timers = {}]
        \/ BeginStartupCycle([s EXCEPT !.stopPurpose = None, !.acknowledged = FALSE], TRUE, attempts)
        \/ BeginStartupCycle(s, TRUE, attempts)
        \/ StartProcess([s EXCEPT !.replacementUsed = TRUE, !.state = "starting"], attempts)
    BY <1>4 DEF HandleExit, Receipted, s
  <2>2. [s EXCEPT !.stopPurpose = None, !.acknowledged = FALSE] \in Supervisor
    BY <1>2 DEF Supervisor
  <2>3. [s EXCEPT !.replacementUsed = TRUE, !.state = "starting"] \in Supervisor
        /\ [s EXCEPT !.replacementUsed = TRUE, !.state = "starting"].state = "starting"
    BY <1>2 DEF Supervisor
  <2>4. [s EXCEPT !.state = "failed", !.timers = {}].state = "failed"
    BY <1>2 DEF Supervisor
  <2> QED
    BY <1>2, <2>1, <2>2, <2>3, <2>4, BeginState, StartProcessState
<1> QED
  BY <1>3, <1>4

LEMMA RequestShutdownState ==
    ASSUME NEW s \in Supervisor, RequestShutdown(s), s.process # None
    PROVE  sup'.state \in {"draining", "failed"}
BY DEF RequestShutdown, Supervisor

LEMMA ShutdownState ==
    ASSUME SupervisorInv, Shutdown, sup.process # None
    PROVE  sup'.state # "stopped"
<1> DEFINE s == [sup EXCEPT !.stopPurpose = "quit", !.timers = {}]
<1>1. sup \in Supervisor /\ sup.state # "stopped"
  BY SupervisorFits DEF Fits
<1>2. s \in Supervisor /\ s.process # None
  BY <1>1 DEF Supervisor
<1>3. sup' = sup \/ sup' = [sup EXCEPT !.stopPurpose = "quit"] \/ RequestShutdown(s)
  BY DEF Shutdown
<1>4. [sup EXCEPT !.stopPurpose = "quit"].state = sup.state
  BY <1>1 DEF Supervisor
<1> HIDE DEF s
<1> QED
  BY <1>1, <1>2, <1>3, <1>4, RequestShutdownState

LEMMA SupervisorStepIsReceipt ==
    ASSUME SupervisorInv, SupervisorSteps, sup.process # None, sup'.state = "stopped"
    PROVE  host[sup.process].lifecycle = "stopped"
<1>1. sup \in Supervisor /\ sup.state # "stopped"
  BY SupervisorFits DEF Fits
<1>2. ASSUME NEW t, t = "check" \/ t = "deadline"
      PROVE  /\ [sup EXCEPT !.timers = sup.timers \ {t}] \in Supervisor
             /\ [sup EXCEPT !.timers = sup.timers \ {t}].state = sup.state
  BY <1>1 DEF Supervisor
<1>3. ~Start /\ ~Retry /\ ~Connect
  BY <1>1 DEF Start, Retry, Connect
<1>4. ~Drain
  <2>1. [sup EXCEPT !.state = "draining"] \in Supervisor /\ [sup EXCEPT !.state = "draining"].state = "draining"
    BY <1>1 DEF Supervisor
  <2> QED
    BY <1>1, <2>1, TerminateState DEF Drain
<1>5. ~StartupCheck
  BY <1>1, <1>2, TerminateState DEF StartupCheck
<1>6. ~StartupDeadline
  <2> DEFINE s == [sup EXCEPT !.timers = sup.timers \ {"deadline"}]
  <2>1. s \in Supervisor /\ s.state # "stopped"
    BY <1>1, <1>2
  <2> HIDE DEF s
  <2>2. [s EXCEPT !.cycleTerminal = TRUE, !.timers = {}, !.state = "failed"].state = "failed"
    BY <2>1 DEF Supervisor
  <2>3. StartupDeadline => sup' = s \/ sup' = [s EXCEPT !.cycleTerminal = TRUE, !.timers = {}, !.state = "failed"]
    BY DEF StartupDeadline, s
  <2> QED
    BY <2>1, <2>2, <2>3
<1>7. \A r \in Requests : ~Request(r) /\ ~RequestTimeout(r)
  BY <1>1 DEF Request, RequestTimeout, Supervisor
<1>8. \A type \in Events : ~ReceiveStale(type)
  BY <1>1 DEF ReceiveStale, supVars
<1>9. ~ReceiveReady /\ ~ReceiveAnswer /\ ~ReceiveDrained
  <2>1. [sup EXCEPT !.state = "ready", !.timers = {}, !.cycleTerminal = FALSE, !.replacementUsed = FALSE].state = "ready"
    BY <1>1 DEF Supervisor
  <2>2. \A r : [sup EXCEPT !.request[r] = None].state = sup.state
    BY <1>1 DEF Supervisor
  <2> QED
    BY <1>1, <2>1, <2>2, TerminateState DEF ReceiveReady, ReceiveAnswer, ReceiveDrained, supVars
<1>10. ~ReceiveStopped /\ ~ReceiveFailure
  <2>1. [sup EXCEPT !.state = "failed"].state = "failed"
        /\ [RejectAll(sup) EXCEPT !.acknowledged = TRUE].state = sup.state
    BY <1>1 DEF Supervisor, RejectAll
  <2> QED
    BY <1>1, <2>1, TerminateState DEF ReceiveStopped, ReceiveFailure
<1>11. ~ReceiveReplacement
  <2> DEFINE s == [sup EXCEPT !.stopPurpose = "restore", !.acknowledged = FALSE]
  <2>1. s \in Supervisor /\ s.process # None
    BY <1>1 DEF Supervisor
  <2>2. ReceiveReplacement => RequestShutdown(s) \/ Terminate(sup)
    BY DEF ReceiveReplacement
  <2> HIDE DEF s
  <2> QED
    BY <1>1, <2>1, <2>2, RequestShutdownState, TerminateState
<1>12. CASE HandleExit
  BY <1>12, ExitIsReceipt
<1> QED
  BY <1>3, <1>4, <1>5, <1>6, <1>7, <1>8, <1>9, <1>10, <1>11, <1>12 DEF SupervisorSteps

\* From a process to stopped leads only the release that the Host reported.
THEOREM StoppedOnReceipt == Spec => StoppedIsReceipt
<1> DEFINE Receipt == sup.process # None /\ sup'.state = "stopped" => host[sup.process].lifecycle = "stopped"
<1>1. Inv /\ [Next]_vars => Receipt
  <2> SUFFICES ASSUME Inv, [Next]_vars, sup.process # None, sup'.state = "stopped"
               PROVE  host[sup.process].lifecycle = "stopped"
    OBVIOUS
  <2>1. SupervisorInv /\ sup.state # "stopped"
    BY DEF Inv, SupervisorInv, Owned
  <2>2. sup' # sup
    BY <2>1
  <2>3. CASE SupervisorStep
    BY <2>1, <2>3, SupervisorStepIsReceipt DEF SupervisorStep
  <2>4. ~FinishHost
    BY <2>1, ShutdownState DEF FinishHost
  <2> QED
    BY <2>2, <2>3, <2>4 DEF Next, vars, supVars, HostStep, QuitStep, BeforeQuit, PerformanceFinished, HostDeadline
<1> QED
  BY <1>1, Invariance, PTL DEF Spec, StoppedIsReceipt

=============================================================================
