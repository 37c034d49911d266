------------------------- MODULE ServicePartsProofs --------------------------
(***************************************************************************)
(* Proofs about the services of the platform: the opencode server and the  *)
(* OpenViking process, the configurations of the language models, the      *)
(* models of OpenViking and its tuning parameters, for any set of          *)
(* processes, ports, callers, rows, requests, keys and parameters.         *)
(***************************************************************************)
EXTENDS MCPlatform, TLAPS, FiniteSetTheorems, SequenceTheorems, WellFoundedInduction

-----------------------------------------------------------------------------
(* The opencode server (OpencodeServer) *)

ServerShape ==
    /\ srv \in [Servers -> [state : {"none", "booting", "serving", "ending"}, port : Ports,
                            mine : BOOLEAN]]
    /\ ocm \in [proc : Servers \cup {None}, at : Ports \cup {None}, next : Ports,
                error : BOOLEAN, tried : SUBSET Ports]
    /\ ocm.proc # None => ocm.at # None
    /\ caller \in [Callers -> [handle : (Servers \X Ports) \cup {None},
                               by : {"nobody", "own", "other"}]]
    /\ life \in [app : {"down", "up", "stopping"}, clean : BOOLEAN]
\* The manager has the process of this CodeAsk.
OwnIsProc == \A p \in Servers : Runs(p) /\ srv[p].mine => p = ocm.proc
\* Where every CodeAsk could end its server, nothing else runs, and nothing once it
\* has ended its own.
CleanIsOwn ==
    /\ life.app = "down" => \A p \in Servers : Runs(p) => ~srv[p].mine
    /\ life.clean => \A p \in Servers : Runs(p) => srv[p].mine /\ life.app = "up"
\* The ports that were tried are those from some first one up to the next, round
\* the end of the range.
TriedUpToNext ==
    \/ ocm.tried = Ports
    \/ \E first \in Ports : \A k \in Ports :
         k \in ocm.tried <=> IF first <= ocm.next THEN first <= k /\ k < ocm.next
                                                  ELSE k < ocm.next \/ first <= k
ServerInv == ServerShape /\ OwnIsProc /\ CleanIsOwn /\ OnlyOwnAnswers /\ TriedUpToNext

\* Ports are numbers, and no number is None.
LEMMA PortsAreNumbers == 0 \in Ports /\ (\A k \in Ports : k \in Nat) /\ None \notin Ports
BY ServerAssumption DEF Ports

\* No port at all is a run of ports that ends before the next one.
LEMMA NothingTried ==
    ASSUME NEW next \in Ports
    PROVE  \E first \in Ports : \A k \in Ports :
             k \in {} <=> IF first <= next THEN first <= k /\ k < next ELSE k < next \/ first <= k
<1>1. \A k \in Ports :
        k \in {} <=> IF next <= next THEN next <= k /\ k < next ELSE k < next \/ next <= k
  BY PortsAreNumbers
<1> QED
  BY <1>1

\* CodeAsk is down to begin with.
LEMMA ServerStart == ServerInit => ServerInv
<1> SUFFICES ASSUME ServerInit PROVE ServerInv
  OBVIOUS
<1>1. ServerShape
  BY PortsAreNumbers DEF ServerInit, ServerShape, NoServer, NewOcm, NoCall
<1>2. OwnIsProc /\ CleanIsOwn /\ OnlyOwnAnswers
  BY DEF ServerInit, OwnIsProc, CleanIsOwn, OnlyOwnAnswers, Runs, NoServer, NewOcm, NoCall
<1>3. ocm.tried = {} /\ ocm.next = 0
  BY DEF ServerInit, NewOcm
<1>4. TriedUpToNext
  BY <1>3, PortsAreNumbers, NothingTried DEF TriedUpToNext
<1> QED
  BY <1>1, <1>2, <1>4 DEF ServerInv

\* A manager, whatever it launches, has tried the ports up to its next one.
LEMMA LaunchedTries ==
    ASSUME NEW m \in [proc : Servers \cup {None}, at : Ports \cup {None}, next : Ports,
                      error : BOOLEAN, tried : SUBSET Ports],
           m.proc # None => m.at # None,
           \/ m.tried = Ports
           \/ \E first \in Ports : \A k \in Ports :
                k \in m.tried <=> IF first <= m.next THEN first <= k /\ k < m.next
                                                     ELSE k < m.next \/ first <= k,
           NEW q \in Servers \cup {None}, ocm' = Launched(m, q)
    PROVE  /\ ocm' \in [proc : Servers \cup {None}, at : Ports \cup {None}, next : Ports,
                        error : BOOLEAN, tried : SUBSET Ports]
           /\ ocm'.proc # None => ocm'.at # None
           /\ ocm'.proc = IF q = None THEN m.proc ELSE q
           /\ TriedUpToNext'
           /\ m.next \notin m.tried \/ m.tried = Ports
<1>1. /\ m.next \in Ports /\ m.tried \subseteq Ports
      /\ PortCount \in Nat \ {0} /\ Ports = 0 .. (PortCount - 1)
  BY ServerAssumption DEF Ports
<1>2. (m.next + 1) % PortCount = IF m.next + 1 = PortCount THEN 0 ELSE m.next + 1
  BY <1>1
<1>3. /\ ocm'.next = (m.next + 1) % PortCount
      /\ ocm'.tried = IF m.tried = Ports THEN {m.next} ELSE m.tried \cup {m.next}
      /\ ocm'.proc = IF q = None THEN m.proc ELSE q
      /\ ocm'.at = IF q = None THEN m.at ELSE m.next
      /\ ocm'.error = (q = None)
      /\ ocm' = [proc |-> ocm'.proc, at |-> ocm'.at, next |-> ocm'.next,
                 error |-> ocm'.error, tried |-> ocm'.tried]
  BY DEF Launched, NextPort
<1>4. ocm'.next \in Ports
  BY <1>1, <1>2, <1>3
<1>5. ocm' \in [proc : Servers \cup {None}, at : Ports \cup {None}, next : Ports,
                error : BOOLEAN, tried : SUBSET Ports]
  <2>1. ocm'.proc \in Servers \cup {None} /\ ocm'.at \in Ports \cup {None}
    BY <1>1, <1>3
  <2>2. ocm'.tried \in SUBSET Ports
    BY <1>1, <1>3
  <2>3. ocm'.error \in BOOLEAN
    BY <1>3
  <2> QED
    BY <1>3, <1>4, <2>1, <2>2, <2>3
<1>6. ocm'.proc # None => ocm'.at # None
  BY <1>1, <1>3, PortsAreNumbers
<1>7. m.next \notin m.tried \/ m.tried = Ports
  BY <1>1
<1>8. TriedUpToNext'
  <2>1. CASE m.tried = Ports
    <3>1. CASE PortCount = 1
      BY <1>1, <1>2, <1>3, <2>1, <3>1 DEF TriedUpToNext
    <3>2. CASE PortCount # 1
      <4>1. \A k \in Ports :
              k \in ocm'.tried <=> IF m.next <= ocm'.next THEN m.next <= k /\ k < ocm'.next
                                                          ELSE k < ocm'.next \/ m.next <= k
        BY <1>1, <1>2, <1>3, <2>1, <3>2
      <4> QED
        BY <1>1, <4>1 DEF TriedUpToNext
    <3> QED
      BY <3>1, <3>2
  <2>2. CASE m.tried # Ports
    <3>1. PICK first \in Ports : \A k \in Ports :
            k \in m.tried <=> IF first <= m.next THEN first <= k /\ k < m.next
                                                 ELSE k < m.next \/ first <= k
      BY <2>2
    <3>2. CASE first = ocm'.next
      <4>1. ocm'.tried = Ports
        BY <1>1, <1>2, <1>3, <2>2, <3>1, <3>2
      <4> QED
        BY <4>1 DEF TriedUpToNext
    <3>3. CASE first # ocm'.next
      <4>1. \A k \in Ports :
              k \in ocm'.tried <=> IF first <= ocm'.next THEN first <= k /\ k < ocm'.next
                                                         ELSE k < ocm'.next \/ first <= k
        BY <1>1, <1>2, <1>3, <2>2, <3>1, <3>3, SMTT(40)
      <4> QED
        BY <4>1 DEF TriedUpToNext
    <3> QED
      BY <3>2, <3>3
  <2> QED
    BY <2>1, <2>2
<1> QED
  BY <1>3, <1>5, <1>6, <1>7, <1>8

\* A process more does no harm: it is launched only where the one of before has gone.
LEMMA RenewKeeps ==
    ASSUME ServerInv, NEW q \in Servers \cup {None}, Renew(q)
    PROVE  /\ srv' \in [Servers -> [state : {"none", "booting", "serving", "ending"}, port : Ports,
                            mine : BOOLEAN]]
           /\ ocm' \in [proc : Servers \cup {None}, at : Ports \cup {None}, next : Ports,
                        error : BOOLEAN, tried : SUBSET Ports]
           /\ ocm'.proc # None => ocm'.at # None
           /\ OwnIsProc' /\ TriedUpToNext'
           /\ \A p \in Servers : srv'[p] = srv[p] \/ srv'[p].mine
           /\ \A p \in Servers : srv[p].state = "none" /\ srv'[p].state = "booting" =>
                srv'[p].port \notin ocm.tried \/ ocm.tried = Ports
<1>1. ServerShape /\ OwnIsProc /\ TriedUpToNext
  BY DEF ServerInv
<1>2. ~Running /\ CanStart(q) /\ ocm' = Launched(ocm, q) /\ srv' = Started(ocm, q)
  BY DEF Renew
<1>3. \A p \in Servers : Runs(p) => ~srv[p].mine
  BY <1>1, <1>2 DEF OwnIsProc, Running, Runs, ServerShape
<1>4. /\ ocm' \in [proc : Servers \cup {None}, at : Ports \cup {None}, next : Ports,
                   error : BOOLEAN, tried : SUBSET Ports]
      /\ ocm'.proc # None => ocm'.at # None
      /\ ocm'.proc = IF q = None THEN ocm.proc ELSE q
      /\ TriedUpToNext'
      /\ ocm.next \notin ocm.tried \/ ocm.tried = Ports
  BY <1>1, <1>2, LaunchedTries DEF ServerShape, TriedUpToNext
<1>5. CASE q = None
  <2>1. srv' = srv
    BY <1>2, <1>5 DEF Started
  <2>2. OwnIsProc'
    BY <1>3, <2>1 DEF OwnIsProc, Runs
  <2>3. \A p \in Servers : srv'[p].state = "booting" => srv[p].state = "booting"
    BY <2>1
  <2> QED
    BY <1>1, <1>4, <2>1, <2>2, <2>3 DEF ServerShape
<1>6. CASE q # None
  <2>1. srv' = [srv EXCEPT ![q] = [state |-> "booting", port |-> ocm.next, mine |-> TRUE]]
    BY <1>2, <1>6 DEF Started, NextPort
  <2>2. ocm.next \in Ports /\ q \in Servers
    BY <1>1, <1>6 DEF ServerShape
  <2>3. srv' \in [Servers -> [state : {"none", "booting", "serving", "ending"}, port : Ports,
                              mine : BOOLEAN]]
    BY <1>1, <2>1, <2>2 DEF ServerShape
  <2>4. /\ srv'[q].state = "booting" /\ srv'[q].port = ocm.next /\ srv'[q].mine
        /\ \A p \in Servers \ {q} : srv'[p] = srv[p] /\ (Runs(p)' <=> Runs(p))
    BY <1>1, <2>1, <2>2 DEF ServerShape, Runs
  <2>5. OwnIsProc'
    BY <1>3, <1>4, <1>6, <2>4 DEF OwnIsProc
  <2>6. \A p \in Servers : srv[p].state = "none" /\ srv'[p].state = "booting" =>
          srv'[p].port \notin ocm.tried \/ ocm.tried = Ports
    BY <1>4, <2>4
  <2>7. \A p \in Servers : srv'[p] = srv[p] \/ srv'[p].mine
    BY <2>4
  <2> QED
    BY <1>4, <2>3, <2>5, <2>6, <2>7
<1> QED
  BY <1>5, <1>6

\* Every step of a start, a call, a stop and of the other processes keeps the
\* invariant of the opencode server.
LEMMA ServerStep == ServerInv /\ [ServerNext]_serverVars => ServerInv'
<1> SUFFICES ASSUME ServerInv, [ServerNext]_serverVars PROVE ServerInv'
  OBVIOUS
<1>0. ServerShape /\ OwnIsProc /\ CleanIsOwn /\ OnlyOwnAnswers /\ TriedUpToNext
  BY DEF ServerInv
<1>1. ASSUME NEW p \in Servers, Bind(p) PROVE ServerInv'
  <2>1. /\ srv' \in [Servers -> [state : {"none", "booting", "serving", "ending"}, port : Ports,
                            mine : BOOLEAN]]
        /\ \A s \in Servers : srv'[s].state # "none" =>
             srv[s].state # "none" /\ srv'[s].mine = srv[s].mine
    BY <1>0, <1>1, PortsAreNumbers, ZenonT(40) DEF Bind, ServerShape, NoServer
  <2>2. /\ ocm' \in [proc : Servers \cup {None}, at : Ports \cup {None}, next : Ports,
                     error : BOOLEAN, tried : SUBSET Ports]
        /\ ocm'.proc = ocm.proc /\ ocm'.at = ocm.at /\ ocm'.next = ocm.next
        /\ ocm'.tried = ocm.tried \/ ocm'.tried = {}
    BY <1>0, <1>1 DEF Bind, ServerShape
  <2>3. TriedUpToNext'
    <3>1. CASE ocm'.tried = ocm.tried
      BY <1>0, <2>2, <3>1 DEF TriedUpToNext
    <3>2. CASE ocm'.tried = {}
      BY <1>0, <2>2, <3>2, NothingTried DEF TriedUpToNext, ServerShape
    <3> QED
      BY <2>2, <3>1, <3>2
  <2> QED
    BY <1>0, <1>1, <2>1, <2>2, <2>3
       DEF Bind, ServerInv, ServerShape, OwnIsProc, CleanIsOwn, OnlyOwnAnswers, Runs
<1>2. ASSUME NEW p \in Servers, Exit(p) PROVE ServerInv'
  BY <1>0, <1>2, PortsAreNumbers
     DEF Exit, ServerInv, ServerShape, OwnIsProc, CleanIsOwn, OnlyOwnAnswers, Runs, NoServer,
         TriedUpToNext
<1>3. ASSUME NEW q \in Servers \cup {None}, KeepServer(q) PROVE ServerInv'
  BY <1>0, <1>3, RenewKeeps
     DEF KeepServer, ServerInv, ServerShape, CleanIsOwn, OnlyOwnAnswers, Runs
<1>4. ASSUME NEW q \in Servers \cup {None}, NEW c \in Callers, Ask(c, q) PROVE ServerInv'
  <2>1. /\ caller' \in [Callers -> [handle : (Servers \X Ports) \cup {None},
                                   by : {"nobody", "own", "other"}]]
        /\ \A d \in Callers : caller'[d].by = caller[d].by
    <3>1. CASE Running /\ caller' = [caller EXCEPT ![c].handle = <<ocm.proc, ocm.at>>]
      <4>1. <<ocm.proc, ocm.at>> \in Servers \X Ports
        BY <1>0, <3>1 DEF Running, Runs, ServerShape
      <4> QED
        BY <1>0, <3>1, <4>1 DEF ServerShape
    <3>2. CASE q = None /\ caller' = caller
      BY <1>0, <3>2 DEF ServerShape
    <3>3. CASE q # None /\ caller' = [caller EXCEPT ![c].handle = <<q, NextPort(ocm)>>]
      <4>1. <<q, NextPort(ocm)>> \in Servers \X Ports
        BY <1>0, <3>3 DEF NextPort, ServerShape
      <4> QED
        BY <1>0, <3>3, <4>1 DEF ServerShape
    <3> QED
      BY <1>4, <3>1, <3>2, <3>3 DEF Ask
  <2>2. CASE Keep
    BY <1>0, <1>4, <2>1, <2>2
       DEF Ask, Keep, ServerInv, ServerShape, OwnIsProc, CleanIsOwn, OnlyOwnAnswers, Runs,
           TriedUpToNext
  <2>3. CASE Renew(q)
    BY <1>0, <1>4, <2>1, <2>3, RenewKeeps
       DEF Ask, ServerInv, ServerShape, CleanIsOwn, OnlyOwnAnswers, Runs
  <2> QED
    BY <1>4, <2>2, <2>3 DEF Ask
<1>5. ASSUME NEW c \in Callers, Answered(c) PROVE ServerInv'
  <2>1. PICK p \in Servers : /\ srv[p].state \in {"serving", "ending"}
          /\ caller' = [caller EXCEPT ![c].by = IF srv[p].mine THEN "own" ELSE "other"]
    BY <1>5 DEF Answered, HolderOf
  <2>2. life.clean => srv[p].mine
    BY <1>0, <2>1, ServerAssumption DEF CleanIsOwn, Runs
  <2>3. OnlyOwnAnswers' /\ life' = life /\ srv' = srv
    BY <1>0, <1>5, <2>1, <2>2 DEF Answered, OnlyOwnAnswers, ServerShape
  <2>4. ocm' = [ocm EXCEPT !.error = FALSE]
    BY <1>5 DEF Answered
  <2>5. ServerShape'
    <3>1. caller' \in [Callers -> [handle : (Servers \X Ports) \cup {None},
                                  by : {"nobody", "own", "other"}]]
      BY <1>0, <2>1 DEF ServerShape
    <3> QED
      BY <1>0, <2>3, <2>4, <3>1 DEF ServerShape
  <2>6. OwnIsProc' /\ CleanIsOwn' /\ TriedUpToNext'
    BY <1>0, <2>3, <2>4 DEF ServerShape, OwnIsProc, CleanIsOwn, Runs, TriedUpToNext
  <2> QED
    BY <2>3, <2>5, <2>6 DEF ServerInv
<1>6. ASSUME NEW c \in Callers, EndCall(c) PROVE ServerInv'
  BY <1>0, <1>6
     DEF EndCall, ServerInv, ServerShape, OwnIsProc, CleanIsOwn, OnlyOwnAnswers, Runs,
         TriedUpToNext, NoCall
<1>7. ASSUME NEW q \in Servers \cup {None}, AppStarts(q) PROVE ServerInv'
  <2>1. NewOcm \in [proc : Servers \cup {None}, at : Ports \cup {None}, next : Ports,
                    error : BOOLEAN, tried : SUBSET Ports]
    BY PortsAreNumbers DEF NewOcm
  <2>2. NewOcm.proc = None /\ NewOcm.next = 0 /\ NewOcm.tried = {}
    BY DEF NewOcm
  <2>3. \E first \in Ports : \A k \in Ports :
          k \in NewOcm.tried <=> IF first <= NewOcm.next THEN first <= k /\ k < NewOcm.next
                                                     ELSE k < NewOcm.next \/ first <= k
    BY <2>2, PortsAreNumbers, NothingTried
  <2>4. /\ ocm' \in [proc : Servers \cup {None}, at : Ports \cup {None}, next : Ports,
                     error : BOOLEAN, tried : SUBSET Ports]
        /\ ocm'.proc # None => ocm'.at # None
        /\ ocm'.proc = q
        /\ TriedUpToNext'
    <3> HIDE DEF NewOcm
    <3>1. ocm' = Launched(NewOcm, q)
      BY <1>7 DEF AppStarts
    <3> QED
      BY <2>1, <2>2, <2>3, <3>1, LaunchedTries
  <2>5. \A p \in Servers : IF q # None /\ p = q
                           THEN srv'[p] = [state |-> "booting", port |-> 0, mine |-> TRUE]
                           ELSE srv'[p] = srv[p]
    BY <1>0, <1>7 DEF AppStarts, Started, NextPort, NewOcm, ServerShape
  <2>6. srv' \in [Servers -> [state : {"none", "booting", "serving", "ending"}, port : Ports,
                              mine : BOOLEAN]]
    BY <1>0, <1>7, PortsAreNumbers DEF AppStarts, Started, NextPort, NewOcm, ServerShape
  <2>7. life' = [life EXCEPT !.app = "up"] /\ caller' = caller /\ life.app = "down"
    BY <1>7 DEF AppStarts
  <2>8. OwnIsProc' /\ CleanIsOwn' /\ OnlyOwnAnswers'
    BY <1>0, <2>4, <2>5, <2>7 DEF ServerShape, OwnIsProc, CleanIsOwn, OnlyOwnAnswers, Runs
  <2> QED
    BY <1>0, <2>4, <2>6, <2>7, <2>8 DEF ServerInv, ServerShape
<1>8. CASE EndServer
  <2>1. /\ srv' \in [Servers -> [state : {"none", "booting", "serving", "ending"}, port : Ports,
                            mine : BOOLEAN]]
        /\ \A s \in Servers : srv'[s].state # "none" => srv'[s] = srv[s] /\ ~srv[s].mine
    BY <1>0, <1>8, PortsAreNumbers, ServerAssumption DEF EndServer, ServerShape, NoServer, Runs, OwnIsProc
  <2> QED
    BY <1>0, <1>8, <2>1
       DEF EndServer, ServerInv, ServerShape, OwnIsProc, CleanIsOwn, OnlyOwnAnswers, Runs,
           TriedUpToNext, NoCall
<1>9. ASSUME NEW clean \in BOOLEAN, Left(clean),
             clean => life.clean /\ life.app = "stopping"
      PROVE  ServerInv'
  <2>1. /\ srv' \in [Servers -> [state : {"none", "booting", "serving", "ending"}, port : Ports,
                            mine : BOOLEAN]]
        /\ \A p \in Servers : srv'[p].state = srv[p].state /\ srv'[p].mine = FALSE
    <3>1. srv' = [p \in Servers |-> [srv[p] EXCEPT !.mine = FALSE]]
      BY <1>9 DEF Left, Estranged
    <3>2. ASSUME NEW p \in Servers
          PROVE  /\ srv'[p] \in [state : {"none", "booting", "serving", "ending"}, port : Ports,
                                 mine : BOOLEAN]
                 /\ srv'[p].state = srv[p].state /\ srv'[p].mine = FALSE
      BY <1>0, <3>1, ZenonT(40) DEF ServerShape
    <3> QED
      BY <3>1, <3>2
  <2>2. clean => \A p \in Servers : ~Runs(p)
    BY <1>0, <1>9 DEF CleanIsOwn
  <2>3. TriedUpToNext'
    <3>1. ocm'.tried = {} /\ ocm'.next = 0
      BY <1>9 DEF Left, NewOcm
    <3> QED
      BY <3>1, PortsAreNumbers, NothingTried DEF TriedUpToNext
  <2>4. ServerShape'
    BY <1>0, <1>9, <2>1, PortsAreNumbers DEF Left, ServerShape, NewOcm, NoCall
  <2> QED
    BY <1>0, <1>9, <2>1, <2>2, <2>3, <2>4
       DEF Left, ServerInv, OwnIsProc, CleanIsOwn, OnlyOwnAnswers, Runs, NoCall
<1>10. CASE EndServerHangs \/ AppStops \/ AppCrashes
  BY <1>0, <1>9, <1>10 DEF EndServerHangs, AppStops, AppCrashes, ServerShape
<1>11. CASE UNCHANGED serverVars
  BY <1>0, <1>11
     DEF serverVars, ServerInv, ServerShape, OwnIsProc, CleanIsOwn, OnlyOwnAnswers, Runs,
         TriedUpToNext
<1> QED
  BY <1>1, <1>2, <1>3, <1>4, <1>5, <1>6, <1>7, <1>8, <1>10, <1>11 DEF ServerNext

\* A start takes a port that was not tried since a server came up, or all were.
LEMMA PortStep == ServerInv /\ [ServerNext]_serverVars => [EveryPortIsTried]_serverVars
<1> SUFFICES ASSUME ServerInv, ServerNext, NEW p \in Servers,
                    srv[p].state = "none", srv'[p].state = "booting", life.app # "down"
             PROVE  srv'[p].port \notin ocm.tried \/ ocm.tried = Ports
  BY DEF EveryPortIsTried
<1>1. ServerShape
  BY DEF ServerInv
<1>2. ASSUME NEW q \in Servers \cup {None}, Renew(q)
      PROVE  srv'[p].port \notin ocm.tried \/ ocm.tried = Ports
  BY <1>2, RenewKeeps
<1>3. ASSUME NEW s \in Servers, Bind(s) \/ Exit(s) PROVE FALSE
  BY <1>1, <1>3 DEF Bind, Exit, ServerShape, NoServer
<1>4. CASE srv' = srv
  BY <1>4
<1>5. CASE EndServer
  BY <1>1, <1>5 DEF EndServer, ServerShape, NoServer, Runs
<1>6. CASE srv' = Estranged
  BY <1>1, <1>6 DEF Estranged, ServerShape
<1> QED
  BY <1>2, <1>3, <1>4, <1>5, <1>6
     DEF ServerNext, KeepServer, Ask, Keep, AppStarts, Answered, EndCall, EndServerHangs,
         AppStops, AppCrashes, Left

\* A step of the platform is one of the opencode server, where it is the part, or none.
LEMMA OpencodePart ==
    ASSUME [PlatformNext]_platform
    PROVE  part' = part /\ (part = "opencode" => [ServerNext]_serverVars)
BY DEF PlatformNext, platform, serverVars

\* One CodeAsk has one opencode server at most, no call is answered by a server it
\* did not start, and a start takes a port that was not tried before until all have
\* been (ServerIsOwn; the manager of agent/opencode_compat/process.py).
THEOREM ServerStaysOwn == PlatformSpec => ServerIsOwn
<1> DEFINE I == part = "opencode" => ServerInv
           S == part = "opencode" => OneOwnServer /\ OnlyOwnAnswers
           A == part = "opencode" => EveryPortIsTried
<1>1. PlatformInit => I
  BY ServerStart DEF PlatformInit
<1>2. I /\ [PlatformNext]_platform => I'
  BY OpencodePart, ServerStep
<1>3. I => S
  BY DEF ServerInv, OwnIsProc, OneOwnServer
<1>4. I /\ [PlatformNext]_platform => [A]_serverVars
  BY OpencodePart, PortStep
<1> QED
  BY <1>1, <1>2, <1>3, <1>4, PTL DEF PlatformSpec, ServerIsOwn

-----------------------------------------------------------------------------
(* The OpenViking server (OpenVikingProcess) *)

Processes == [Pids -> [state : {"none", "booting", "healthy", "sick"},
                       model : Models \cup {DefaultModel}, old : BOOLEAN, ours : BOOLEAN]]
Managers == [proc : Pids \cup {None}, handle : Pids \cup {None, Unresolved},
             available : BOOLEAN, started : {"never", "within", "over"},
             failures : 0 .. MaxFailures, log : BOOLEAN, model : Models \cup {DefaultModel}]
\* The one that listens has the port and lives.
Listens(o, holder) == holder # None => holder \in Pids /\ o[holder].state \in {"healthy", "sick"}
ProcShape ==
    /\ os \in Processes /\ Listens(os, port)
    /\ mgr \in Managers /\ (mgr.proc # None => mgr.handle = mgr.proc)
    /\ setting \in Models /\ app \in {"down", "up", "stopping"}
    /\ admin \in [at : {"idle", "resetting", "wiping", "reading", "tuning", "regenerating",
                        "restarting"}, model : Models \cup {DefaultModel}]
    /\ admin.at = "idle" => admin = NoRequest
    /\ app # "up" => admin = NoRequest
\* What an earlier run of CodeAsk has left is not of this one.
DownOwnsNothing == app = "down" => \A p \in Pids : ~os[p].ours
\* Between requests the manager has the active setting, or the default where it
\* could not be read; a request that has read the setting has the active one.
SettingFollows ==
    /\ app = "up" /\ admin.at = "idle" => mgr.model \in {setting, DefaultModel}
    /\ admin.at \in {"regenerating", "restarting"} => admin.model = setting
\* Between requests the child runs what the manager has.
ChildFits ==
    app = "up" /\ admin.at = "idle" /\ Alive(os, mgr.proc) =>
      os[mgr.proc].model = mgr.model /\ ~os[mgr.proc].old
ProcInv == ProcShape /\ OneChild /\ DownOwnsNothing /\ SettingFollows /\ ChildFits

\* What the manager m makes of the processes o: it launches one, or takes over or
\* leaves what is there.
Launches(m, o, holder) ==
    /\ port' = holder /\ mgr' \in Managers /\ mgr'.model = m.model
    /\ \/ os' = o /\ mgr'.proc = None
       \/ \E n \in Pids :
            /\ o[n].state = "none" /\ mgr'.proc = n /\ mgr'.handle = n
            /\ os' = [o EXCEPT ![n] = [state |-> "booting", model |-> m.model,
                                       old |-> FALSE, ours |-> TRUE]]

\* A probe leaves the manager its process, its handle and its model.
LEMMA ProbedIsManager ==
    ASSUME NEW m \in Managers, NEW o, NEW holder
    PROVE  /\ Probed(m, o, holder) \in Managers
           /\ Probed(m, o, holder).proc = m.proc /\ Probed(m, o, holder).handle = m.handle
           /\ Probed(m, o, holder).model = m.model
<1>1. CASE Healthy(o, holder)
  <2>1. Probed(m, o, holder) = [m EXCEPT !.available = TRUE, !.failures = 0, !.log = FALSE]
    BY <1>1 DEF Probed
  <2>2. 0 \in 0 .. MaxFailures
    BY DEF MaxFailures
  <2> QED
    BY <2>1, <2>2 DEF Managers
<1>2. CASE ~Healthy(o, holder)
  BY <1>2 DEF Probed, Managers, MaxFailures
<1> QED
  BY <1>1, <1>2

\* Launching a child has one of the outcomes in Launches.
LEMMA ChildIsLaunched ==
    ASSUME NEW m \in Managers, m.proc = None, NEW o \in Processes, NEW holder,
           LaunchChild(m, o, holder)
    PROVE  Launches(m, o, holder)
<1>1. CASE os' = o /\ mgr' = [m EXCEPT !.available = FALSE]
  BY <1>1 DEF LaunchChild, Launches, Managers
<1>2. CASE ~(os' = o /\ mgr' = [m EXCEPT !.available = FALSE])
  <2>1. PICK n \in Pids :
          /\ o[n].state = "none"
          /\ os' = [o EXCEPT ![n] = [state |-> "booting", model |-> m.model,
                                     old |-> FALSE, ours |-> TRUE]]
          /\ mgr' = Probed([m EXCEPT !.proc = n, !.handle = n, !.started = "within"], o, holder)
    BY <1>2 DEF LaunchChild
  <2> DEFINE c == [m EXCEPT !.proc = n, !.handle = n, !.started = "within"]
  <2>2. c \in Managers /\ c.proc = n /\ c.handle = n /\ c.model = m.model
    BY DEF Managers
  <2>0. mgr' = Probed(c, o, holder)
    BY <2>1
  <2> HIDE DEF c
  <2>3. mgr' \in Managers /\ mgr'.proc = n /\ mgr'.handle = n /\ mgr'.model = m.model
    BY <2>0, <2>2, ProbedIsManager
  <2>4. port' = holder
    BY DEF LaunchChild
  <2> QED
    BY <2>1, <2>3, <2>4 DEF Launches
<1> QED
  BY <1>1, <1>2

\* So has adopting, and it launches only where nothing well listens.
LEMMA AdoptedOrLaunched ==
    ASSUME NEW m \in Managers, m.proc = None, NEW o \in Processes, NEW holder,
           Listens(o, holder), AdoptOrLaunch(m, o, holder)
    PROVE  Launches(m, o, holder) /\ (os' # o => ~Healthy(o, holder))
<1>1. CASE Healthy(o, holder)
  <2>1. PICK pid \in ListeningPids(holder) :
          mgr' = Probed([m EXCEPT !.handle = pid, !.started = "never"], o, holder)
    BY <1>1 DEF AdoptOrLaunch
  <2> DEFINE c == [m EXCEPT !.handle = pid, !.started = "never"]
  <2>2. c \in Managers /\ c.proc = None /\ c.model = m.model
    BY <1>1 DEF Managers, ListeningPids, Healthy, Listens
  <2>0. mgr' = Probed(c, o, holder)
    BY <2>1
  <2> HIDE DEF c
  <2>3. mgr' \in Managers /\ mgr'.proc = None /\ mgr'.model = m.model
    BY <2>0, <2>2, ProbedIsManager
  <2> QED
    BY <1>1, <2>3 DEF AdoptOrLaunch, Launches
<1>2. CASE ~Healthy(o, holder)
  BY <1>2, ChildIsLaunched DEF AdoptOrLaunch
<1> QED
  BY <1>1, <1>2

\* Termination ends the child and frees its port.
LEMMA TerminatedIsGone ==
    ASSUME ProcInv
    PROVE  /\ Terminated \in Processes /\ Listens(Terminated, PortAfter)
           /\ \A p \in Pids : /\ Terminated[p].ours = os[p].ours
                              /\ Terminated[p].state # "none" => Terminated[p] = os[p]
                              /\ Terminated[p].ours => Terminated[p].state = "none"
                              /\ os[p].state = "none" => Terminated[p].state = "none"
<1>1. ProcShape /\ OneChild
  BY DEF ProcInv
<1>2. CASE mgr.proc # None /\ Alive(os, mgr.proc)
  <2>1. mgr.proc \in Pids
    BY <1>1, <1>2 DEF ProcShape, Managers
  <2>2. Terminated = [os EXCEPT ![mgr.proc].state = "none"]
    BY <1>2 DEF Terminated, Died
  <2>3. PortAfter = IF port = mgr.proc THEN None ELSE port
    BY <1>2 DEF PortAfter, Freed
  <2>4. Terminated \in Processes
    BY <1>1, <2>1, <2>2 DEF ProcShape, Processes
  <2>5. Listens(Terminated, PortAfter)
    BY <1>1, <2>1, <2>2, <2>3 DEF ProcShape, Processes, Listens
  <2> QED
    BY <1>1, <2>1, <2>2, <2>4, <2>5, PidsAssumption DEF ProcShape, Processes, OneChild, Alive
<1>3. CASE ~(mgr.proc # None /\ Alive(os, mgr.proc))
  <2>1. Terminated = os /\ PortAfter = port
    BY <1>3 DEF Terminated, PortAfter
  <2> QED
    BY <1>1, <1>3, <2>1, PidsAssumption DEF ProcShape, OneChild, Alive
<1> QED
  BY <1>2, <1>3

\* ensure_server keeps the child, or launches for a manager without one where
\* nothing of this CodeAsk lives.
LEMMA Ensured ==
    ASSUME ProcInv, NEW m \in Managers, Ensure(m),
           m = mgr \/ (m.proc = None /\ app = "down")
    PROVE  \/ /\ UNCHANGED <<os, port>> /\ mgr' = Probed(m, os, port)
              /\ Alive(os, m.proc) /\ m = mgr
           \/ \E c \in Managers, o \in Processes, holder \in Pids \cup {None} :
                /\ c.proc = None /\ c.model = m.model
                /\ Launches(c, o, holder)
                /\ Listens(o, holder)
                /\ \A p \in Pids : /\ o[p].ours = os[p].ours
                                   /\ o[p].state # "none" => o[p] = os[p]
                                   /\ o[p].ours => o[p].state = "none"
                                   /\ os[p].state = "none" => o[p].state = "none"
                /\ os' # o => ~Healthy(os, port)
<1>0. ProcShape /\ OneChild /\ DownOwnsNothing /\ os \in Processes /\ Listens(os, port)
      /\ port \in Pids \cup {None}
  BY DEF ProcInv, ProcShape, Listens
<1>1. CASE Alive(os, m.proc) /\ (Healthy(os, port) \/ m.started = "within")
  BY <1>1 DEF Ensure, Alive
<1>2. CASE Alive(os, m.proc) /\ ~(Healthy(os, port) \/ m.started = "within")
  <2> DEFINE c == [m EXCEPT !.proc = None, !.handle = None, !.available = FALSE]
  <2>1. c \in Managers /\ c.proc = None /\ c.model = m.model
    BY DEF Managers
  <2>2. AdoptOrLaunch(c, Terminated, PortAfter)
    BY <1>2 DEF Ensure
  <2> HIDE DEF c
  <2>3. PortAfter \in Pids \cup {None}
    BY <1>0 DEF PortAfter, Freed
  <2>4. Launches(c, Terminated, PortAfter)
    BY <2>1, <2>2, TerminatedIsGone, AdoptedOrLaunched
  <2> QED
    BY <1>2, <2>1, <2>3, <2>4, TerminatedIsGone
<1>3. CASE ~Alive(os, m.proc)
  <2>1. PICK c \in Managers : c.proc = None /\ c.model = m.model /\ AdoptOrLaunch(c, os, port)
    <3>1. CASE m.proc # None
      <4>1. Forgotten(m) \in Managers /\ Forgotten(m).proc = None /\ Forgotten(m).model = m.model
        <5>1. m.failures \in 0 .. MaxFailures
          BY DEF Managers
        <5>2. (IF m.failures = MaxFailures THEN m.failures ELSE m.failures + 1) \in 0 .. MaxFailures
          BY <5>1 DEF MaxFailures
        <5> QED
          BY <5>2 DEF Forgotten, Managers
      <4> QED
        BY <1>3, <3>1, <4>1 DEF Ensure
    <3>2. CASE m.proc = None
      BY <1>3, <3>2 DEF Ensure
    <3> QED
      BY <3>1, <3>2
  <2>2. Launches(c, os, port) /\ (os' # os => ~Healthy(os, port))
    BY <1>0, <2>1, AdoptedOrLaunched
  <2>3. \A p \in Pids : os[p].ours => os[p].state = "none"
    BY <1>0, <1>3, PidsAssumption DEF OneChild, DownOwnsNothing, Alive
  <2> QED
    BY <1>0, <2>1, <2>2, <2>3
<1> QED
  BY <1>1, <1>2, <1>3

\* Where nothing of this CodeAsk lives, a launch gives it one child that runs what
\* the manager has.
LEMMA LaunchKeeps ==
    ASSUME NEW c \in Managers, NEW o \in Processes, NEW holder,
           Launches(c, o, holder), Listens(o, holder),
           \A p \in Pids : o[p].ours => o[p].state = "none"
    PROVE  /\ os' \in Processes /\ Listens(os', port') /\ mgr' \in Managers
           /\ mgr'.proc # None => mgr'.handle = mgr'.proc
           /\ mgr'.model = c.model
           /\ OneChild'
           /\ Alive(os', mgr'.proc) => os'[mgr'.proc].model = mgr'.model /\ ~os'[mgr'.proc].old
<1>1. port' = holder /\ mgr' \in Managers /\ mgr'.model = c.model
  BY DEF Launches
<1>2. CASE os' = o /\ mgr'.proc = None
  BY <1>1, <1>2, PidsAssumption DEF OneChild, Alive
<1>3. CASE ~(os' = o /\ mgr'.proc = None)
  <2>1. PICK n \in Pids :
            /\ o[n].state = "none" /\ mgr'.proc = n /\ mgr'.handle = n
            /\ os' = [o EXCEPT ![n] = [state |-> "booting", model |-> c.model,
                                       old |-> FALSE, ours |-> TRUE]]
    BY <1>3 DEF Launches
  <2>2. c.model \in Models \cup {DefaultModel}
    BY DEF Managers
  <2>3. /\ os' \in Processes /\ os'[n].model = c.model /\ ~os'[n].old
        /\ \A p \in Pids \ {n} : os'[p] = o[p]
    BY <2>1, <2>2 DEF Processes
  <2>4. Listens(os', port')
    BY <1>1, <2>1, <2>3 DEF Listens
  <2>5. OneChild'
    BY <2>1, <2>3 DEF OneChild, Alive
  <2> QED
    BY <1>1, <2>1, <2>3, <2>4, <2>5
<1> QED
  BY <1>2, <1>3

\* A manager that CodeAsk makes anew has no process.
LEMMA NewManagerIsManager ==
    ASSUME NEW model \in Models \cup {DefaultModel}
    PROVE  /\ NewManager(model) \in Managers /\ NewManager(model).proc = None
           /\ NewManager(model).model = model
BY DEF NewManager, Managers, MaxFailures

\* CodeAsk is down to begin with.
LEMMA ProcStart == ProcInit => ProcInv
<1> SUFFICES ASSUME ProcInit PROVE ProcInv
  OBVIOUS
<1>1. mgr \in Managers /\ mgr.proc = None
  BY NewManagerIsManager DEF ProcInit
<1>2. \A p \in Pids : os[p].state = "none" /\ ~os[p].ours
  BY DEF ProcInit, Gone
<1>3. os \in Processes
  BY DEF ProcInit, Gone, Processes
<1> QED
  BY <1>1, <1>2, <1>3
     DEF ProcInit, ProcInv, ProcShape, Listens, OneChild, DownOwnsNothing, SettingFollows,
         ChildFits, NoRequest, Alive

\* The keepalive job, a restart by the administrator, the operating system and the
\* end of CodeAsk keep the invariant of the process.
LEMMA ProcStep == ProcInv /\ [ProcNext]_procVars => ProcInv'
<1> SUFFICES ASSUME ProcInv, [ProcNext]_procVars PROVE ProcInv'
  OBVIOUS
<1> USE PidsAssumption
<1>0. ProcShape /\ OneChild /\ DownOwnsNothing /\ SettingFollows /\ ChildFits
  BY DEF ProcInv
\* The processes on their own.
<1>1. ASSUME NEW p \in Pids, ExitProcess(p) \/ BindPort(p) \/ Waver(p) PROVE ProcInv'
  <2>1. /\ os' \in Processes /\ Listens(os', port')
        /\ \A q \in Pids : /\ os'[q].model = os[q].model /\ os'[q].old = os[q].old
                           /\ os'[q].ours = os[q].ours
                           /\ os'[q].state # "none" => os[q].state # "none"
    BY <1>0, <1>1
       DEF ExitProcess, BindPort, Waver, Died, Freed, Alive, ProcShape, Processes, Listens
  <2>2. UNCHANGED <<mgr, setting, admin, app>>
    BY <1>1 DEF ExitProcess, BindPort, Waver
  <2>3. ProcShape'
    BY <1>0, <2>1, <2>2 DEF ProcShape
  <2>4. mgr.proc \in Pids \cup {None}
    BY <1>0 DEF ProcShape, Managers
  <2>5. OneChild' /\ DownOwnsNothing' /\ SettingFollows' /\ ChildFits'
    BY <1>0, <2>1, <2>2, <2>4 DEF OneChild, DownOwnsNothing, SettingFollows, ChildFits, Alive
  <2> QED
    BY <2>3, <2>5 DEF ProcInv
\* The manager alone, which keeps its child and its setting.
<1>2. ASSUME UNCHANGED <<os, port, setting, admin, app>>, mgr' \in Managers,
             mgr'.proc # None => mgr'.handle = mgr'.proc,
             mgr'.proc = mgr.proc, mgr'.model = mgr.model
      PROVE  ProcInv'
  BY <1>0, <1>2
     DEF ProcInv, ProcShape, OneChild, DownOwnsNothing, SettingFollows, ChildFits, Alive
<1>3. CASE GraceEnds
  BY <1>0, <1>2, <1>3 DEF GraceEnds, ProcShape, Managers
<1>4. CASE DescribeServer
  BY <1>0, <1>2, <1>4 DEF DescribeServer, ProcShape, Managers, ListeningPids, Listens
\* ensure_server, by the keepalive job and by a start.
<1>5. ASSUME NEW m \in Managers, Ensure(m), UNCHANGED <<setting, admin>>, app' # "down",
             app' \in {"up", "stopping"},
             \/ m = mgr /\ app' = app
             \/ m.proc = None /\ app = "down" /\ m.model \in {setting, DefaultModel}
      PROVE  ProcInv'
  <2>1. CASE /\ UNCHANGED <<os, port>> /\ mgr' = Probed(m, os, port)
             /\ Alive(os, m.proc) /\ m = mgr
    <3>1. app' = app
      BY <1>0, <1>5, <2>1 DEF Alive
    <3> QED
      BY <1>0, <1>2, <1>5, <2>1, <3>1, ProbedIsManager DEF ProcShape
  <2>2. CASE \E c \in Managers, o \in Processes, holder \in Pids \cup {None} :
                /\ c.proc = None /\ c.model = m.model
                /\ Launches(c, o, holder) /\ Listens(o, holder)
                /\ \A p \in Pids : o[p].ours => o[p].state = "none"
    <3>1. /\ os' \in Processes /\ Listens(os', port') /\ mgr' \in Managers
          /\ mgr'.proc # None => mgr'.handle = mgr'.proc
          /\ mgr'.model = m.model /\ OneChild'
          /\ Alive(os', mgr'.proc) => os'[mgr'.proc].model = mgr'.model /\ ~os'[mgr'.proc].old
      BY <2>2, LaunchKeeps
    <3>2. ProcShape'
      BY <1>0, <1>5, <3>1 DEF ProcShape
    <3>3. DownOwnsNothing' /\ SettingFollows' /\ ChildFits'
      BY <1>0, <1>5, <3>1 DEF ProcShape, DownOwnsNothing, SettingFollows, ChildFits, Alive, NoRequest
    <3> QED
      BY <3>1, <3>2, <3>3 DEF ProcInv
  <2> QED
    BY <1>5, <2>1, <2>2, Ensured
<1>6. CASE StartApp
  <2>1. PICK model \in {setting, DefaultModel} : Ensure(NewManager(model))
    BY <1>6 DEF StartApp
  <2>2. model \in Models \cup {DefaultModel}
    BY <1>0 DEF ProcShape
  <2> QED
    BY <1>5, <1>6, <2>1, <2>2, NewManagerIsManager DEF StartApp
<1>7. CASE Keepalive
  BY <1>0, <1>5, <1>7 DEF Keepalive, ProcShape
\* The child ends, and nothing else.
<1>8. ASSUME Shutdown, setting' = setting,
             \/ app' = "stopping" /\ admin' = admin /\ admin = NoRequest
             \/ app' = app /\ app = "up" /\ admin' = [admin EXCEPT !.at = "wiping"]
      PROVE  ProcInv'
  <2>1. /\ os' \in Processes /\ Listens(os', port')
        /\ \A p \in Pids : /\ os'[p].ours = os[p].ours
                           /\ os'[p].ours => os'[p].state = "none"
    BY <1>8, TerminatedIsGone DEF Shutdown
  <2>2. mgr' \in Managers /\ (mgr'.proc # None => mgr'.handle = mgr'.proc)
    BY <1>0, <1>8 DEF Shutdown, ProcShape, Managers
  <2>3. ProcShape'
    BY <1>0, <1>8, <2>1, <2>2 DEF ProcShape, NoRequest
  <2>4. OneChild'
    BY <2>1 DEF OneChild, Alive
  <2>5. DownOwnsNothing' /\ SettingFollows' /\ ChildFits'
    BY <1>0, <1>8 DEF ProcShape, DownOwnsNothing, SettingFollows, ChildFits, NoRequest
  <2> QED
    BY <2>3, <2>4, <2>5 DEF ProcInv
<1>9. CASE StopApp
  BY <1>8, <1>9 DEF StopApp
<1>10. CASE ResetIndex
  BY <1>0, <1>8, <1>10 DEF ResetIndex, RequestAt, ProcShape, NoRequest
<1>11. CASE StopScheduler \/ CrashApp
  <2>1. /\ os' \in Processes /\ Listens(os', port')
        /\ \A p \in Pids : ~os'[p].ours
    <3>1. os' = [p \in Pids |-> [os[p] EXCEPT !.ours = FALSE]] /\ port' = port
      BY <1>11 DEF StopScheduler, CrashApp, AppEnds, Abandoned
    <3>2. os' \in Processes
      BY <1>0, <3>1, ZenonT(40) DEF ProcShape, Processes
    <3>3. \A p \in Pids : ~os'[p].ours /\ os'[p].state = os[p].state
      BY <1>0, <3>1 DEF ProcShape, Processes
    <3> QED
      BY <1>0, <3>1, <3>2, <3>3 DEF ProcShape, Listens
  <2>2. mgr' \in Managers /\ mgr'.proc = None
    BY <1>11, NewManagerIsManager DEF StopScheduler, CrashApp, AppEnds
  <2>3. app' = "down" /\ admin' = NoRequest /\ setting' = setting
    BY <1>11 DEF StopScheduler, CrashApp, AppEnds
  <2> QED
    BY <1>0, <2>1, <2>2, <2>3
       DEF ProcInv, ProcShape, OneChild, DownOwnsNothing, SettingFollows, ChildFits, NoRequest,
           Alive
\* The request.
<1>12. ASSUME NEW model \in Models,
              SwitchEmbedding(model) \/ ApplyVLM(model) \/ ApplyTuning(model)
       PROVE  ProcInv'
  BY <1>0, <1>12
     DEF SwitchEmbedding, ApplyVLM, ApplyTuning, Committed, RequestAt, ProcInv, ProcShape,
         OneChild, DownOwnsNothing, SettingFollows, ChildFits, Alive
<1>13. CASE WipeIndex
  <2>1. /\ os' \in Processes /\ Listens(os', port')
        /\ \A p \in Pids : os'[p].state = os[p].state /\ os'[p].ours = os[p].ours
    <3>1. os' = [p \in Pids |-> [os[p] EXCEPT !.old = Alive(os, p)]] /\ port' = port
      BY <1>13 DEF WipeIndex
    <3>2. \A p \in Pids : Alive(os, p) \in BOOLEAN
      BY DEF Alive
    <3>3. \A p \in Pids : /\ [os[p] EXCEPT !.old = Alive(os, p)].state = os[p].state
                          /\ [os[p] EXCEPT !.old = Alive(os, p)].ours = os[p].ours
      BY <1>0 DEF ProcShape, Processes
    <3>4. os' \in Processes
      BY <1>0, <3>1, <3>2 DEF ProcShape, Processes
    <3> QED
      BY <1>0, <3>1, <3>3, <3>4 DEF ProcShape, Listens
  <2>2. /\ admin' = [admin EXCEPT !.at = "reading"] /\ UNCHANGED <<port, mgr, setting, app>>
        /\ admin.at = "wiping"
    BY <1>13 DEF WipeIndex, RequestAt
  <2>3. ProcShape'
    BY <1>0, <2>1, <2>2 DEF ProcShape, NoRequest
  <2> QED
    BY <1>0, <2>1, <2>2, <2>3
       DEF ProcInv, ProcShape, OneChild, DownOwnsNothing, SettingFollows, ChildFits, Alive
<1>14. CASE ReadSetting
  BY <1>0, <1>14
     DEF ReadSetting, ProcInv, ProcShape, OneChild, DownOwnsNothing, SettingFollows, ChildFits,
         Alive, NoRequest
<1>15. CASE Regenerate
  <2>1. mgr' \in Managers /\ mgr'.proc = mgr.proc /\ mgr'.handle = mgr.handle
    BY <1>0, <1>15 DEF Regenerate, ProcShape, Managers
  <2> QED
    BY <1>0, <1>15, <2>1
       DEF Regenerate, RequestAt, ProcInv, ProcShape, OneChild, DownOwnsNothing, SettingFollows,
           ChildFits, Alive, NoRequest
<1>16. CASE RestartServer
  <2> DEFINE c == [mgr EXCEPT !.proc = None, !.handle = None, !.available = FALSE,
                       !.started = "never", !.model = admin.model]
  <2>1. c \in Managers /\ c.proc = None /\ c.model = admin.model
    BY <1>0 DEF ProcShape, Managers
  <2>2. LaunchChild(c, Terminated, PortAfter)
    BY <1>16 DEF RestartServer, RestartWith
  <2> HIDE DEF c
  <2>3. /\ os' \in Processes /\ Listens(os', port') /\ mgr' \in Managers
        /\ mgr'.proc # None => mgr'.handle = mgr'.proc
        /\ mgr'.model = admin.model /\ OneChild'
        /\ Alive(os', mgr'.proc) => os'[mgr'.proc].model = mgr'.model /\ ~os'[mgr'.proc].old
    BY <2>1, <2>2, TerminatedIsGone, ChildIsLaunched, LaunchKeeps
  <2>4. admin' = NoRequest /\ UNCHANGED <<setting, app>> /\ admin.at = "restarting" /\ app = "up"
    BY <1>0, <1>16 DEF RestartServer, ProcShape, NoRequest
  <2>5. ProcShape'
    BY <1>0, <2>3, <2>4 DEF ProcShape, NoRequest
  <2>6. DownOwnsNothing' /\ SettingFollows' /\ ChildFits'
    BY <1>0, <2>3, <2>4 DEF DownOwnsNothing, SettingFollows, ChildFits, NoRequest
  <2> QED
    BY <2>3, <2>5, <2>6 DEF ProcInv
<1>17. CASE UNCHANGED procVars
  BY <1>0, <1>17
     DEF procVars, ProcInv, ProcShape, OneChild, DownOwnsNothing, SettingFollows, ChildFits,
         Alive
<1> QED
  BY <1>1, <1>3, <1>4, <1>6, <1>7, <1>9, <1>10, <1>11, <1>12, <1>13, <1>14, <1>15, <1>16, <1>17
     DEF ProcNext

\* The keepalive job and a new start launch nothing beside a healthy server.
LEMMA NoRivalStep == ProcInv /\ [ProcNext]_procVars => [NoRival]_procVars
<1> SUFFICES ASSUME ProcInv, ProcNext, admin.at # "restarting",
                    NEW p \in Pids, os[p].state = "none", os'[p].state = "booting"
             PROVE  ~Healthy(os, port)
  BY DEF NoRival
<1>0. ProcShape
  BY DEF ProcInv
<1>1. ASSUME NEW m \in Managers, Ensure(m), m = mgr \/ (m.proc = None /\ app = "down")
      PROVE  ~Healthy(os, port)
  <2>1. os' # os
    OBVIOUS
  <2>2. PICK o \in Processes :
          /\ os[p].state = "none" => o[p].state = "none"
          /\ os' # o => ~Healthy(os, port)
    BY <1>1, <2>1, Ensured
  <2>3. os' # o
    BY <2>2
  <2> QED
    BY <2>2, <2>3
<1>2. CASE StartApp
  <2>1. PICK model \in {setting, DefaultModel} : Ensure(NewManager(model))
    BY <1>2 DEF StartApp
  <2>2. model \in Models \cup {DefaultModel}
    BY <1>0 DEF ProcShape
  <2> QED
    BY <1>1, <1>2, <2>1, <2>2, NewManagerIsManager DEF StartApp
<1>3. CASE Keepalive
  BY <1>0, <1>1, <1>3 DEF Keepalive, ProcShape
<1>4. ASSUME NEW q \in Pids, ExitProcess(q) \/ BindPort(q) \/ Waver(q) PROVE FALSE
  BY <1>0, <1>4 DEF ExitProcess, BindPort, Waver, Died, Alive, ProcShape, Processes
<1>5. ASSUME Shutdown PROVE FALSE
  BY <1>0, <1>5, TerminatedIsGone DEF Shutdown
<1>6. ASSUME AppEnds PROVE FALSE
  BY <1>0, <1>6 DEF AppEnds, Abandoned, ProcShape, Processes
<1>7. CASE WipeIndex
  BY <1>0, <1>7 DEF WipeIndex, ProcShape, Processes
<1> QED
  BY <1>2, <1>3, <1>4, <1>5, <1>6, <1>7
     DEF ProcNext, GraceEnds, DescribeServer, StopApp, StopScheduler, CrashApp, SwitchEmbedding,
         ApplyVLM, ApplyTuning, Committed, ResetIndex, ReadSetting, Regenerate, RestartServer

\* An orderly stop ends every server this run of CodeAsk has launched.
LEMMA StopStep == ProcInv /\ [ProcNext]_procVars => [StopIsThorough]_procVars
<1> SUFFICES ASSUME ProcInv, ProcNext, app = "up", app' = "stopping", NEW p \in Pids, os[p].ours
             PROVE  ~Alive(os', p)
  BY DEF StopIsThorough
<1>1. StopApp
  BY DEF ProcNext, ExitProcess, BindPort, Waver, GraceEnds, StartApp, Keepalive, DescribeServer,
         StopScheduler, CrashApp, AppEnds, SwitchEmbedding, ApplyVLM, ApplyTuning, Committed,
         ResetIndex, WipeIndex, ReadSetting, Regenerate, RestartServer
<1>2. os' = Terminated
  BY <1>1 DEF StopApp, Shutdown
<1> QED
  BY <1>2, TerminatedIsGone DEF Alive

\* A step of the platform is one of the process, where it is the part, or none.
LEMMA ServerPart ==
    ASSUME [PlatformNext]_platform
    PROVE  part' = part /\ (part = "server" => [ProcNext]_procVars)
BY DEF PlatformNext, platform, procVars

\* One server of this run is alive at most, it runs the active setting on a fresh
\* index once the request that changed them is through, none is launched beside a
\* healthy one but by a restart, and an orderly stop reaches all (ServerIsKept; the
\* manager of rag/openviking/process.py and its keepalive job).
THEOREM ServerStaysKept == PlatformSpec => ServerIsKept
<1> DEFINE I == part = "server" => ProcInv
           S == part = "server" => OneChild /\ OwnServerRunsSetting /\ OwnServerIsFresh
           A == part = "server" => NoRival /\ StopIsThorough
<1>1. PlatformInit => I
  BY ProcStart DEF PlatformInit
<1>2. I /\ [PlatformNext]_platform => I'
  BY ServerPart, ProcStep
<1>3. I => S
  BY DEF ProcInv, ProcShape, Listens, ChildFits, SettingFollows, OwnServerRunsSetting,
         OwnServerIsFresh, Alive, NoRequest
<1>4. I /\ [PlatformNext]_platform => [A]_procVars
  BY ServerPart, NoRivalStep, StopStep
<1> QED
  BY <1>1, <1>2, <1>3, <1>4, PTL DEF PlatformSpec, ServerIsKept

-----------------------------------------------------------------------------
(* The configurations (LLMConfigs) *)

ConfigRows == [ConfigIds -> ConfigRow \cup {None}]
Works == [at : {"idle", "testing", "loaded"}, id : ConfigIds \cup {None},
          content : Contents \cup {None}, default : BOOLEAN \cup {None},
          on : Contents \cup {None}, outcome : Verdicts \cup {None},
          row : ConfigRow \cup {None}]
ConfigsShape ==
    /\ configs \in ConfigRows /\ work \in [Admins -> Works] /\ apart \in BOOLEAN
    /\ \A a \in Admins : /\ work[a].at # "idle" => work[a].id \in ConfigIds
                         /\ Mid(a) => work[a].row \in ConfigRow
\* A row that was read is the one that is there now: ids do not come back.
ReadIsOfScope ==
    \A a \in Admins : Mid(a) /\ configs[work[a].id] # None =>
      configs[work[a].id].scope = work[a].row.scope
\* A request that has read is the only one, and nothing has changed since.
ReadAlone ==
    apart => \A a \in Admins : Mid(a) =>
      /\ configs[work[a].id] = work[a].row
      /\ \A b \in Admins : Mid(b) => b = a
\* What is tested is what will be there when the outcome is written.
TestedStays ==
    apart =>
      /\ \A a, b \in Admins :
           a # b /\ work[a].at \in {"testing", "loaded"} /\ work[b].at = "testing"
           /\ work[a].id = work[b].id
             => work[a].content = None /\ work[b].content = None
      /\ \A a \in Admins :
           (work[a].at = "testing" \/ (Mid(a) /\ work[a].outcome # None))
           /\ configs[work[a].id] # None
             => work[a].on = Given(work[a].content, configs[work[a].id].content)
ConfigsInv ==
    /\ ConfigsShape /\ OneDefault(configs) /\ ReadIsOfScope /\ ReadAlone /\ TestedStays
    /\ AdapterAgrees /\ OutcomeIsOfContent

\* A flush writes the fields of the row that differ from what was read, and leaves
\* the others as they are stored.
LEMMA FlushedRow ==
    ASSUME NEW there \in ConfigRow, NEW old \in ConfigRow, NEW row \in ConfigRow
    PROVE  LET f == Flushed(there, old, row) IN
           /\ f \in ConfigRow
           /\ f.scope = IF row.scope # old.scope THEN row.scope ELSE there.scope
           /\ f.content = IF row.content # old.content THEN row.content ELSE there.content
           /\ f.default = IF row.default # old.default THEN row.default ELSE there.default
           /\ f.status = IF row.status # old.status THEN row.status ELSE there.status
           /\ f.on = IF row.on # old.on THEN row.on ELSE there.on
<1> DEFINE fields == {"scope", "content", "default", "status", "on", "adapter"}
<1>1. DOMAIN there = fields
  BY DEF ConfigRow
<1>2. Flushed(there, old, row) =
        [f \in fields |-> IF row[f] # old[f] THEN row[f] ELSE there[f]]
  BY <1>1 DEF Flushed
<1>3. Flushed(there, old, row) \in ConfigRow
  BY <1>2 DEF ConfigRow
<1> QED
  BY <1>2, <1>3

\* An update assigns the fields that are given, and takes back the outcome of a
\* test of other content.
LEMMA AssignedRow ==
    ASSUME NEW row \in ConfigRow, NEW w \in Works
    PROVE  LET r == Assigned(row, w) IN
           /\ r \in ConfigRow
           /\ r.scope = row.scope
           /\ r.content = Given(w.content, row.content)
           /\ r.default = Given(w.default, row.default)
           /\ r.status = Given(w.outcome, IF Reset(row, w) THEN "unknown" ELSE row.status)
           /\ r.on = IF w.outcome # None THEN w.on ELSE IF Reset(row, w) THEN None ELSE row.on
<1> DEFINE content == Given(w.content, row.content)
           default == Given(w.default, row.default)
           status == Given(w.outcome, IF Reset(row, w) THEN "unknown" ELSE row.status)
           on == IF w.outcome # None THEN w.on ELSE IF Reset(row, w) THEN None ELSE row.on
<1>1. content \in Contents
  BY DEF Works, ConfigRow, Given
<1>2. default \in BOOLEAN
  BY DEF Works, ConfigRow, Given
<1>3. status \in Verdicts \cup {"unknown"}
  BY DEF Works, ConfigRow, Given
<1>4. on \in Contents \cup {None}
  BY DEF Works, ConfigRow
<1>5. Assigned(row, w) =
        [row EXCEPT !.content = content, !.default = default, !.status = status, !.on = on]
  BY DEF Assigned
<1> HIDE DEF content, default, status, on
<1>6. /\ Assigned(row, w) \in ConfigRow /\ Assigned(row, w).scope = row.scope
      /\ Assigned(row, w).content = content /\ Assigned(row, w).default = default
      /\ Assigned(row, w).status = status /\ Assigned(row, w).on = on
  BY <1>1, <1>2, <1>3, <1>4, <1>5 DEF ConfigRow
<1> QED
  BY <1>6 DEF content, default, status, on

\* The others lose their default, and nothing else.
LEMMA UnsetRow ==
    ASSUME NEW table \in ConfigRows, NEW scope \in Scopes, NEW id \in ConfigIds,
           NEW i \in ConfigIds, table[i] # None
    PROVE  /\ table[i] \in ConfigRow
           /\ Unset(table, scope, id)[i] = IF table[i].scope = scope /\ i # id
                THEN [table[i] EXCEPT !.default = FALSE] ELSE table[i]
<1>1. table[i] \in ConfigRow
  BY DEF ConfigRows
<1>2. i \in InScope(table, scope) <=> table[i].scope = scope
  BY DEF InScope
<1> QED
  BY <1>1, <1>2 DEF Unset

\* A row that loses its default keeps the rest.
LEMMA NoDefaultRow ==
    ASSUME NEW row \in ConfigRow
    PROVE  LET new == [row EXCEPT !.default = FALSE] IN
           /\ new \in ConfigRow /\ new.scope = row.scope /\ new.content = row.content
           /\ new.status = row.status /\ new.on = row.on /\ new.adapter = row.adapter
           /\ new.default = FALSE
BY DEF ConfigRow

\* Making way for a default makes rows of rows.
LEMMA UnsetRows ==
    ASSUME NEW table \in ConfigRows, NEW scope \in Scopes, NEW id \in ConfigIds
    PROVE  /\ Unset(table, scope, id) \in ConfigRows
           /\ \A i \in ConfigIds : table[i] = None => Unset(table, scope, id)[i] = None
<1> DEFINE made == [i \in ConfigIds |-> IF i \in InScope(table, scope) \ {id}
                         THEN [table[i] EXCEPT !.default = FALSE] ELSE table[i]]
<1>1. Unset(table, scope, id) = made
  BY DEF Unset
<1>2. \A i \in ConfigIds : table[i] = None => made[i] = None
  BY DEF InScope
<1>3. ASSUME NEW i \in ConfigIds, table[i] # None PROVE made[i] \in ConfigRow
  <2>1. table[i] \in ConfigRow
    BY <1>3 DEF ConfigRows
  <2> QED
    BY <2>1, NoDefaultRow
<1>4. made \in ConfigRows
  BY <1>2, <1>3 DEF ConfigRows
<1> HIDE DEF made
<1> QED
  BY <1>1, <1>2, <1>4

\* What a commit makes of the rows: the one that was read, and the other defaults
\* of its scope.
LEMMA WrittenRows ==
    ASSUME ConfigsInv, NEW a \in Admins, Mid(a), configs[work[a].id] # None
    PROVE  LET w == work[a]
               made == Assigned(w.row, w) IN
           /\ Written(a) \in ConfigRows
           /\ \A i \in ConfigIds : configs[i] = None => Written(a)[i] = None
           /\ \A i \in ConfigIds \ {w.id} : configs[i] # None =>
                LET r == Written(a)[i] IN
                /\ r \in ConfigRow
                /\ r.scope = configs[i].scope /\ r.content = configs[i].content
                /\ r.status = configs[i].status /\ r.on = configs[i].on
                /\ r.adapter = configs[i].adapter
                /\ IF w.default = TRUE /\ configs[i].scope = w.row.scope
                   THEN r.default = FALSE ELSE r = configs[i]
           /\ LET r == Written(a)[w.id] IN
                /\ r \in ConfigRow /\ r.adapter = made.status
                /\ r.scope = configs[w.id].scope
                /\ r.content = IF made.content # w.row.content THEN made.content
                               ELSE configs[w.id].content
                /\ r.default = IF made.default # w.row.default THEN made.default
                               ELSE configs[w.id].default
                /\ r.status = IF made.status # w.row.status THEN made.status
                              ELSE configs[w.id].status
                /\ r.on = IF made.on # w.row.on THEN made.on ELSE configs[w.id].on
<1> DEFINE w == work[a]
           made == Assigned(w.row, w)
           rest == IF w.default = TRUE THEN Unset(configs, w.row.scope, w.id) ELSE configs
           row == WithAdapter(Flushed(rest[w.id], w.row, made), made.status)
<1>1. /\ configs \in ConfigRows /\ w \in Works /\ w.row \in ConfigRow /\ w.id \in ConfigIds
      /\ configs[w.id] \in ConfigRow /\ configs[w.id].scope = w.row.scope
      /\ w.row.scope \in Scopes
  BY DEF ConfigsInv, ConfigsShape, ReadIsOfScope, Mid, ConfigRows, ConfigRow
<1>2. Written(a) = [rest EXCEPT ![w.id] = row]
  BY DEF Written
<1>3. /\ made \in ConfigRow /\ made.scope = w.row.scope
  BY <1>1, AssignedRow
<1> HIDE DEF made
<1>4. /\ rest \in ConfigRows
      /\ rest[w.id] = configs[w.id]
      /\ \A i \in ConfigIds : configs[i] = None => rest[i] = None
      /\ \A i \in ConfigIds \ {w.id} : configs[i] # None =>
                LET r == rest[i] IN
                /\ r \in ConfigRow
                /\ r.scope = configs[i].scope /\ r.content = configs[i].content
                /\ r.status = configs[i].status /\ r.on = configs[i].on
                /\ r.adapter = configs[i].adapter
                /\ IF w.default = TRUE /\ configs[i].scope = w.row.scope
                   THEN r.default = FALSE ELSE r = configs[i]
  <2>1. CASE w.default = TRUE
    <3>1. rest = Unset(configs, w.row.scope, w.id)
      BY <2>1
    <3>2. w.row.scope \in Scopes /\ w.id \in ConfigIds /\ configs \in ConfigRows
          /\ configs[w.id] # None
      BY <1>1
    <3> HIDE DEF rest, w
    <3>3. rest \in ConfigRows /\ rest[w.id] = configs[w.id]
          /\ \A i \in ConfigIds : configs[i] = None => rest[i] = None
      <4>1. Unset(configs, w.row.scope, w.id)[w.id] = configs[w.id]
        BY <3>2 DEF Unset
      <4>2. rest[w.id] = configs[w.id]
        BY <3>1, <4>1
      <4> QED
        BY <3>1, <3>2, <4>2, UnsetRows
    <3>4. ASSUME NEW i \in ConfigIds \ {w.id}, configs[i] # None
          PROVE  /\ rest[i] \in ConfigRow
                 /\ rest[i].scope = configs[i].scope /\ rest[i].content = configs[i].content
                 /\ rest[i].status = configs[i].status /\ rest[i].on = configs[i].on
                 /\ rest[i].adapter = configs[i].adapter
                 /\ configs[i].scope = w.row.scope => rest[i].default = FALSE
                 /\ configs[i].scope # w.row.scope => rest[i] = configs[i]
      <4>0. i \in ConfigIds /\ i # w.id
        BY <3>4
      <4>1. configs[i] \in ConfigRow
            /\ Unset(configs, w.row.scope, w.id)[i] = IF configs[i].scope = w.row.scope /\ i # w.id
                 THEN [configs[i] EXCEPT !.default = FALSE] ELSE configs[i]
        BY <3>2, <3>4, <4>0, UnsetRow
      <4>2. rest[i] = IF configs[i].scope = w.row.scope
                      THEN [configs[i] EXCEPT !.default = FALSE] ELSE configs[i]
        BY <3>1, <4>0, <4>1
      <4> QED
        BY <4>1, <4>2, NoDefaultRow
    <3> QED
      BY <2>1, <3>3, <3>4
  <2>2. CASE w.default # TRUE
    BY <1>1, <2>2 DEF ConfigRows
  <2> QED
    BY <2>1, <2>2
<1> HIDE DEF rest
<1> DEFINE f == Flushed(configs[w.id], w.row, made)
<1>5. /\ f \in ConfigRow /\ f.scope = configs[w.id].scope
      /\ f.content = IF made.content # w.row.content THEN made.content ELSE configs[w.id].content
      /\ f.default = IF made.default # w.row.default THEN made.default ELSE configs[w.id].default
      /\ f.status = IF made.status # w.row.status THEN made.status ELSE configs[w.id].status
      /\ f.on = IF made.on # w.row.on THEN made.on ELSE configs[w.id].on
  BY <1>1, <1>3, FlushedRow
<1>6. row = [f EXCEPT !.adapter = made.status]
  BY <1>4 DEF WithAdapter
<1> HIDE DEF f, row
<1>7. /\ row \in ConfigRow /\ row.adapter = made.status
      /\ row.scope = f.scope /\ row.content = f.content /\ row.default = f.default
      /\ row.status = f.status /\ row.on = f.on
  BY <1>3, <1>5, <1>6 DEF ConfigRow
<1>8. Written(a) \in ConfigRows /\ Written(a)[w.id] = row
      /\ \A i \in ConfigIds \ {w.id} : Written(a)[i] = rest[i]
  BY <1>1, <1>2, <1>4, <1>7 DEF ConfigRows
<1>9. \A i \in ConfigIds : configs[i] = None => Written(a)[i] = None
  BY <1>4, <1>8
<1> HIDE DEF w
<1>10. LET r == Written(a)[w.id] IN
                /\ r \in ConfigRow /\ r.adapter = made.status
                /\ r.scope = configs[w.id].scope
                /\ r.content = IF made.content # w.row.content THEN made.content
                               ELSE configs[w.id].content
                /\ r.default = IF made.default # w.row.default THEN made.default
                               ELSE configs[w.id].default
                /\ r.status = IF made.status # w.row.status THEN made.status
                              ELSE configs[w.id].status
                /\ r.on = IF made.on # w.row.on THEN made.on ELSE configs[w.id].on
  BY <1>5, <1>7, <1>8
<1>11. \A i \in ConfigIds \ {w.id} : configs[i] # None =>
                LET r == Written(a)[i] IN
                /\ r \in ConfigRow
                /\ r.scope = configs[i].scope /\ r.content = configs[i].content
                /\ r.status = configs[i].status /\ r.on = configs[i].on
                /\ r.adapter = configs[i].adapter
                /\ IF w.default = TRUE /\ configs[i].scope = w.row.scope
                   THEN r.default = FALSE ELSE r = configs[i]
  BY <1>4, <1>8
<1> QED
  BY <1>8, <1>9, <1>10, <1>11 DEF w, made

\* With one default per scope before there is one after, so that no commit of a
\* request that has read its row is refused for the index.
LEMMA WrittenHasOneDefault ==
    ASSUME ConfigsInv, NEW a \in Admins, Mid(a), configs[work[a].id] # None
    PROVE  OneDefault(Written(a))
<1> DEFINE w == work[a]
           made == Assigned(w.row, w)
<1>1. /\ w \in Works /\ w.row \in ConfigRow /\ w.id \in ConfigIds
      /\ configs[w.id] \in ConfigRow /\ configs[w.id].scope = w.row.scope
  BY DEF ConfigsInv, ConfigsShape, ReadIsOfScope, Mid, ConfigRows
<1>2. made.default = Given(w.default, w.row.default)
  BY <1>1, AssignedRow
<1>3. \A i \in ConfigIds : configs[i] = None => Written(a)[i] = None
  BY WrittenRows
<1>4. \A i \in ConfigIds \ {w.id} : configs[i] # None =>
        /\ Written(a)[i] \in ConfigRow /\ Written(a)[i].scope = configs[i].scope
        /\ IF w.default = TRUE /\ configs[i].scope = w.row.scope
           THEN Written(a)[i].default = FALSE ELSE Written(a)[i] = configs[i]
  BY WrittenRows
<1>5. /\ Written(a)[w.id] \in ConfigRow
      /\ Written(a)[w.id].scope = configs[w.id].scope
      /\ Written(a)[w.id].default = IF made.default # w.row.default THEN made.default
                               ELSE configs[w.id].default
  BY WrittenRows
<1>6. w.default # TRUE => Written(a)[w.id].default \in {FALSE, configs[w.id].default}
  BY <1>1, <1>2, <1>5 DEF Given, Works, ConfigRow
<1> HIDE DEF made, w
<1> SUFFICES ASSUME NEW scope \in Scopes, NEW i \in InScope(Written(a), scope),
                    NEW j \in InScope(Written(a), scope),
                    Written(a)[i].default, Written(a)[j].default
             PROVE  i = j
  BY DEF OneDefault
<1>7. /\ i \in ConfigIds /\ Written(a)[i] # None /\ Written(a)[i].scope = scope
      /\ j \in ConfigIds /\ Written(a)[j] # None /\ Written(a)[j].scope = scope
  BY DEF InScope
<1>8. /\ configs[i] # None /\ configs[i].scope = scope
      /\ configs[j] # None /\ configs[j].scope = scope
  BY <1>3, <1>4, <1>5, <1>7, WrittenRows, SMTT(40) DEF w
<1>9. OneDefault(configs)
  BY DEF ConfigsInv
<1>10. CASE w.default = TRUE /\ scope = w.row.scope
  BY <1>1, <1>4, <1>7, <1>8, <1>10
<1>11. CASE ~(w.default = TRUE /\ scope = w.row.scope)
  <2>1. ASSUME NEW k \in ConfigIds, configs[k] # None, configs[k].scope = scope,
               Written(a)[k].default
        PROVE  configs[k].default
    <3>1. CASE k = w.id
      <4>1. w.default # TRUE
        BY <1>1, <1>11, <2>1, <3>1
      <4> QED
        BY <1>6, <2>1, <3>1, <4>1
    <3>2. CASE k # w.id
      BY <1>4, <1>11, <2>1, <3>2
    <3> QED
      BY <3>1, <3>2
  <2>2. configs[i].default /\ configs[j].default
    BY <1>7, <1>8, <2>1
  <2> QED
    BY <1>7, <1>8, <1>9, <2>2 DEF OneDefault, InScope
<1> QED
  BY <1>10, <1>11

\* A request that is over is one.
LEMMA NoWorkIsWork == NoWork \in Works /\ NoWork.at = "idle"
BY DEF NoWork, Works

\* There are no configurations to begin with.
LEMMA ConfigsStart == ConfigsInit => ConfigsInv
<1> SUFFICES ASSUME ConfigsInit PROVE ConfigsInv
  OBVIOUS
<1>1. /\ configs = [i \in ConfigIds |-> None] /\ work = [a \in Admins |-> NoWork]
      /\ apart \in BOOLEAN
  BY DEF ConfigsInit
<1>2. ConfigsShape
  BY <1>1, NoWorkIsWork DEF ConfigsShape, ConfigRows, Mid
<1>3. OneDefault(configs) /\ AdapterAgrees /\ OutcomeIsOfContent
  BY <1>1 DEF OneDefault, InScope, AdapterAgrees, OutcomeIsOfContent
<1>4. ReadIsOfScope /\ ReadAlone /\ TestedStays
  BY <1>1, NoWorkIsWork DEF ReadIsOfScope, ReadAlone, TestedStays, Mid
<1> QED
  BY <1>2, <1>3, <1>4 DEF ConfigsInv

\* Creating, updating, testing and deleting a configuration keep the invariant.
LEMMA ConfigsStep == ConfigsInv /\ [ConfigsNext]_configVars => ConfigsInv'
<1> SUFFICES ASSUME ConfigsInv, [ConfigsNext]_configVars PROVE ConfigsInv'
  OBVIOUS
<1> USE ConfigsAssumption
<1>0. /\ ConfigsShape /\ OneDefault(configs) /\ ReadIsOfScope /\ ReadAlone /\ TestedStays
      /\ AdapterAgrees /\ OutcomeIsOfContent
  BY DEF ConfigsInv
\* A request that is over leaves the rows as they are.
<1>10. ASSUME NEW a \in Admins, work' = [work EXCEPT ![a] = NoWork], UNCHANGED <<configs, apart>>
       PROVE  ConfigsInv'
  <2>1. /\ work'[a] \in Works /\ work'[a].at = "idle" /\ work' \in [Admins -> Works]
        /\ \A b \in Admins : b # a => work'[b] = work[b]
    BY <1>0, <1>10, NoWorkIsWork DEF ConfigsShape
  <2>2. ConfigsShape' /\ ReadIsOfScope'
    BY <1>0, <1>10, <2>1 DEF ConfigsShape, ReadIsOfScope, Mid
  <2>3. ReadAlone'
    BY <1>0, <1>10, <2>1 DEF ReadAlone, Mid
  <2>4. TestedStays'
    BY <1>0, <1>10, <2>1 DEF TestedStays, Mid
  <2> QED
    BY <1>0, <1>10, <2>2, <2>3, <2>4 DEF ConfigsInv, AdapterAgrees, OutcomeIsOfContent
<1>1. CASE UNCHANGED configVars
  BY <1>0, <1>1
     DEF configVars, ConfigsInv, ConfigsShape, OneDefault, InScope, ReadIsOfScope, ReadAlone,
         TestedStays, AdapterAgrees, OutcomeIsOfContent, Mid
\* A row is added, and the other defaults of its scope make way.
<1>2. ASSUME NEW id \in ConfigIds, NEW scope \in Scopes, NEW content \in Contents,
             NEW default \in BOOLEAN, NEW status \in Verdicts \cup {"unknown"},
             Alone, CreateConfig(id, scope, content, default, status)
      PROVE  ConfigsInv'
  <2> DEFINE rest == IF default THEN Unset(configs, scope, id) ELSE configs
             row == [scope |-> scope, content |-> content, default |-> default,
                   status |-> status, on |-> IF status = "unknown" THEN None ELSE content,
                   adapter |-> status]
  <2>1. CASE configs' = configs
    BY <1>1, <1>2, <2>1 DEF CreateConfig, configVars
  <2>2. CASE configs' = [rest EXCEPT ![id] = row] /\ OneDefault(configs')
    <3>1. row \in ConfigRow /\ row.adapter = row.status
          /\ (row.status # "unknown" => row.on = row.content)
      BY DEF ConfigRow
    <3> HIDE DEF row
    <3>2. /\ rest \in ConfigRows
          /\ \A i \in ConfigIds : configs[i] = None => rest[i] = None
          /\ \A i \in ConfigIds : configs[i] # None =>
                /\ rest[i] \in ConfigRow
                /\ rest[i].scope = configs[i].scope /\ rest[i].content = configs[i].content
                /\ rest[i].status = configs[i].status /\ rest[i].on = configs[i].on
                /\ rest[i].adapter = configs[i].adapter
      <4>1. CASE default
        <5>1. rest = Unset(configs, scope, id)
          BY <4>1
        <5> HIDE DEF rest
        <5>2. configs \in ConfigRows
          BY <1>0 DEF ConfigsShape
        <5>3. rest \in ConfigRows /\ \A i \in ConfigIds : configs[i] = None => rest[i] = None
          BY <5>1, <5>2, UnsetRows
        <5>4. ASSUME NEW i \in ConfigIds, configs[i] # None
              PROVE  /\ rest[i] \in ConfigRow
                     /\ rest[i].scope = configs[i].scope /\ rest[i].content = configs[i].content
                     /\ rest[i].status = configs[i].status /\ rest[i].on = configs[i].on
                     /\ rest[i].adapter = configs[i].adapter
          <6>1. configs[i] \in ConfigRow
                /\ Unset(configs, scope, id)[i] = IF configs[i].scope = scope /\ i # id
                     THEN [configs[i] EXCEPT !.default = FALSE] ELSE configs[i]
            BY <5>2, <5>4, UnsetRow
          <6> QED
            BY <5>1, <6>1, NoDefaultRow
        <5> QED
          BY <5>3, <5>4
      <4>2. CASE ~default
        BY <1>0, <4>2 DEF ConfigsShape, ConfigRows
      <4> QED
        BY <4>1, <4>2
    <3> HIDE DEF rest
    <3>3. configs' \in ConfigRows /\ configs'[id] = row
          /\ \A i \in ConfigIds \ {id} : configs'[i] = rest[i]
      BY <2>2, <3>1, <3>2 DEF ConfigRows
    <3>4. UNCHANGED <<work, apart>> /\ configs[id] = None /\ \A a \in Admins : work[a].id # id
      BY <1>2 DEF CreateConfig
    <3>5. ConfigsShape' /\ ReadIsOfScope'
      BY <1>0, <3>2, <3>3, <3>4 DEF ConfigsShape, ReadIsOfScope, Mid
    <3>6. ReadAlone'
      BY <1>2, <3>4 DEF ReadAlone, Alone, Mid
    <3>7. TestedStays'
      BY <1>0, <3>2, <3>3, <3>4 DEF ConfigsShape, TestedStays, Mid
    <3>8. AdapterAgrees' /\ OutcomeIsOfContent'
      BY <1>0, <3>1, <3>2, <3>3, <3>4 DEF AdapterAgrees, OutcomeIsOfContent
    <3> QED
      BY <2>2, <3>5, <3>6, <3>7, <3>8 DEF ConfigsInv
  <2> QED
    BY <1>2, <2>1, <2>2 DEF CreateConfig, Commits
<1>3. ASSUME NEW id \in ConfigIds, Alone, DeleteConfig(id) PROVE ConfigsInv'
  BY <1>0, <1>3
     DEF DeleteConfig, ConfigsInv, ConfigsShape, ConfigRows, OneDefault, InScope, ReadIsOfScope,
         ReadAlone, TestedStays, AdapterAgrees, OutcomeIsOfContent, Mid, Alone
\* A test begins: nobody changes meanwhile what it is called with.
<1>4. ASSUME NEW a \in Admins, NEW id \in ConfigIds, NEW content \in Contents \cup {None},
             Tests(a, id, content)
      PROVE  ConfigsInv'
  <2> DEFINE w == [NoWork EXCEPT !.at = "testing", !.id = id, !.content = content,
                                 !.on = Given(content, configs[id].content)]
  <2>1. w \in Works
    BY <1>0, <1>4 DEF Tests, NoWork, Works, Given, ConfigsShape, ConfigRows, ConfigRow
  <2>2. /\ w.at = "testing" /\ w.id = id /\ w.content = content
        /\ w.on = Given(content, configs[id].content)
    BY DEF NoWork
  <2>3. work' = [work EXCEPT ![a] = w] /\ UNCHANGED <<configs, apart>> /\ apart /\ Alone
        /\ Undisturbed(id, content) /\ work[a].at = "idle"
    BY <1>4 DEF Tests, Drafted
  <2> HIDE DEF w
  <2>4. ConfigsShape' /\ ReadIsOfScope' /\ ReadAlone'
    BY <1>0, <2>1, <2>2, <2>3 DEF ConfigsShape, ReadIsOfScope, ReadAlone, Alone, Mid
  <2>5. TestedStays'
    BY <1>0, <2>1, <2>2, <2>3 DEF ConfigsShape, TestedStays, Alone, Mid, Undisturbed
  <2> QED
    BY <1>0, <2>3, <2>4, <2>5 DEF ConfigsInv, AdapterAgrees, OutcomeIsOfContent
\* A request reads its row, or ends.
<1>5. ASSUME NEW a \in Admins, NEW w \in Works, Loads(a, w), w.id \in ConfigIds,
             \/ work[a].at = "idle" /\ Undisturbed(w.id, w.content) /\ w.outcome = None
             \/ /\ work[a].at = "testing"
                /\ w.id = work[a].id /\ w.content = work[a].content /\ w.on = work[a].on
      PROVE  ConfigsInv'
  <2>1. UNCHANGED <<configs, apart>> /\ Alone
    BY <1>5 DEF Loads
  <2>2. CASE configs[w.id] = None
    <3>1. work' = [work EXCEPT ![a] = NoWork]
      BY <1>5, <2>2 DEF Loads
    <3> QED
      BY <1>10, <2>1, <3>1
  <2>3. CASE configs[w.id] # None
    <3> DEFINE v == [w EXCEPT !.at = "loaded", !.row = configs[w.id]]
    <3>1. work' = [work EXCEPT ![a] = v] /\ configs[w.id] \in ConfigRow
      BY <1>0, <1>5, <2>3 DEF Loads, ConfigsShape, ConfigRows
    <3>2. /\ v \in Works /\ v.at = "loaded" /\ v.row = configs[w.id] /\ v.id = w.id
          /\ v.content = w.content /\ v.on = w.on /\ v.outcome = w.outcome
      BY <3>1 DEF Works
    <3> HIDE DEF v
    <3>3. ConfigsShape' /\ ReadIsOfScope' /\ ReadAlone'
      BY <1>0, <1>5, <2>1, <2>3, <3>1, <3>2 DEF ConfigsShape, ReadIsOfScope, ReadAlone, Alone, Mid
    <3>4. work'[a] = v /\ \A b \in Admins : b # a => work'[b] = work[b]
      BY <1>0, <3>1 DEF ConfigsShape
    <3>5. ASSUME apart, NEW b \in Admins, b # a, work[b].at = "testing", work[b].id = w.id
          PROVE  v.content = None /\ work[b].content = None
      BY <1>0, <1>5, <3>2, <3>5 DEF TestedStays, Undisturbed
    <3>6. ASSUME apart, v.outcome # None
          PROVE  v.on = Given(v.content, configs[v.id].content)
      BY <1>0, <1>5, <2>3, <3>2, <3>6 DEF TestedStays
    <3>7. TestedStays'
      BY <1>0, <2>1, <3>2, <3>4, <3>5, <3>6 DEF TestedStays, Alone, Mid
    <3> QED
      BY <1>0, <2>1, <3>3, <3>7 DEF ConfigsInv, AdapterAgrees, OutcomeIsOfContent
  <2> QED
    BY <2>2, <2>3
<1>6. ASSUME NEW a \in Admins, NEW id \in ConfigIds, NEW content \in Contents \cup {None},
             NEW default \in BOOLEAN \cup {None}, AskUpdateConfig(a, id, content, default)
      PROVE  ConfigsInv'
  <2> DEFINE w == [NoWork EXCEPT !.id = id, !.content = content, !.default = default]
  <2>1. w \in Works /\ w.id = id /\ w.content = content /\ w.outcome = None
    BY DEF NoWork, Works
  <2> HIDE DEF w
  <2>2. Loads(a, w) /\ work[a].at = "idle" /\ Undisturbed(id, content)
    BY <1>6 DEF AskUpdateConfig, w
  <2> QED
    BY <1>5, <2>1, <2>2
<1>7. ASSUME NEW a \in Admins, NEW outcome \in Verdicts, NEW default \in BOOLEAN \cup {None},
             MarkOutcome(a, outcome) \/ SaveDraft(a, outcome, default)
      PROVE  ConfigsInv'
  <2>1. PICK d \in BOOLEAN \cup {None} :
          Loads(a, [work[a] EXCEPT !.outcome = outcome, !.default = d])
    <3>1. work[a] \in Works
      BY <1>0 DEF ConfigsShape
    <3>2. CASE MarkOutcome(a, outcome)
      <4>1. [work[a] EXCEPT !.outcome = outcome] =
               [work[a] EXCEPT !.outcome = outcome, !.default = work[a].default]
        BY <3>1 DEF Works
      <4>2. work[a].default \in BOOLEAN \cup {None}
        BY <3>1 DEF Works
      <4> QED
        BY <3>2, <4>1, <4>2 DEF MarkOutcome
    <3>3. CASE SaveDraft(a, outcome, default)
      BY <3>3 DEF SaveDraft
    <3> QED
      BY <1>7, <3>2, <3>3
  <2> DEFINE w == [work[a] EXCEPT !.outcome = outcome, !.default = d]
  <2>2. work[a].at = "testing"
    BY <1>7 DEF MarkOutcome, SaveDraft
  <2>3. w \in Works /\ w.id = work[a].id /\ w.content = work[a].content /\ w.on = work[a].on
    BY <1>0, ZenonT(40) DEF ConfigsShape, Works
  <2>4. work[a].id \in ConfigIds
    BY <1>0, <2>2 DEF ConfigsShape
  <2> HIDE DEF w
  <2>5. Loads(a, w)
    BY <2>1 DEF w
  <2> QED
    BY <1>5, <2>2, <2>3, <2>4, <2>5
\* The commit.
<1>8. ASSUME NEW a \in Admins, WriteRow(a) PROVE ConfigsInv'
  <2> DEFINE w == work[a]
             made == Assigned(w.row, w)
  <2>1. /\ Mid(a) /\ work' = [work EXCEPT ![a] = NoWork] /\ apart' = apart
        /\ w \in Works /\ w.id \in ConfigIds /\ w.row \in ConfigRow
    BY <1>0, <1>8 DEF WriteRow, ConfigsShape, Mid
  <2>2. NoWork \in Works /\ NoWork.at = "idle"
    BY DEF NoWork, Works
  <2>3. CASE configs' = configs
    BY <1>10, <2>1, <2>3
  <2>4. CASE configs[w.id] # None /\ configs' = Written(a) /\ OneDefault(configs')
    <3>1. /\ configs' \in ConfigRows
          /\ \A i \in ConfigIds : configs[i] = None => configs'[i] = None
          /\ \A i \in ConfigIds \ {w.id} : configs[i] # None =>
                /\ configs'[i] \in ConfigRow
                /\ configs'[i].scope = configs[i].scope /\ configs'[i].content = configs[i].content
                /\ configs'[i].status = configs[i].status /\ configs'[i].on = configs[i].on
                /\ configs'[i].adapter = configs[i].adapter
          /\ configs'[w.id] \in ConfigRow
          /\ configs'[w.id].scope = configs[w.id].scope
      BY <2>1, <2>4, WrittenRows, ZenonT(40)
    <3>2. /\ configs'[w.id].adapter = made.status
          /\ configs'[w.id].content = IF made.content # w.row.content THEN made.content
                               ELSE configs[w.id].content
          /\ configs'[w.id].status = IF made.status # w.row.status THEN made.status
                              ELSE configs[w.id].status
          /\ configs'[w.id].on = IF made.on # w.row.on THEN made.on ELSE configs[w.id].on
      BY <2>1, <2>4, WrittenRows
    <3>3. /\ made.content = Given(w.content, w.row.content)
          /\ made.status = Given(w.outcome, IF Reset(w.row, w) THEN "unknown" ELSE w.row.status)
          /\ made.on = IF w.outcome # None THEN w.on ELSE IF Reset(w.row, w) THEN None ELSE w.row.on
      BY <2>1, AssignedRow
    <3> HIDE DEF made, w
    <3>4. apart => configs[w.id] = w.row /\ \A b \in Admins : Mid(b) => b = a
      BY <1>0, <2>1 DEF ReadAlone, w
    <3>5. apart => /\ configs'[w.id].adapter = made.status
                   /\ configs'[w.id].content = made.content
                   /\ configs'[w.id].status = made.status
                   /\ configs'[w.id].on = made.on
      BY <3>2, <3>4
    <3>6. AdapterAgrees'
      BY <1>0, <2>1, <3>1, <3>5 DEF AdapterAgrees
    <3>7. apart /\ made.status # "unknown" => made.on = made.content
      <4>1. apart /\ w.outcome # None => w.on = Given(w.content, w.row.content)
        BY <1>0, <2>1, <2>4, <3>4 DEF TestedStays, w
      <4>2. apart /\ w.row.status # "unknown" => w.row.on = w.row.content
        BY <1>0, <2>1, <2>4, <3>4 DEF OutcomeIsOfContent
      <4> QED
        BY <3>3, <4>1, <4>2 DEF Reset, Given
    <3>8. OutcomeIsOfContent'
      BY <1>0, <2>1, <3>1, <3>5, <3>7 DEF OutcomeIsOfContent
    <3>9. \A b \in Admins : Mid(b)' => Mid(b) /\ b # a /\ work'[b] = work[b]
      BY <1>0, <2>1, <2>2 DEF Mid, ConfigsShape
    <3>10. ConfigsShape'
      BY <1>0, <2>1, <2>2, <3>1 DEF ConfigsShape, Mid
    <3>11. ReadIsOfScope'
      <4> SUFFICES ASSUME NEW b \in Admins, Mid(b)', configs'[work'[b].id] # None
                   PROVE  configs'[work'[b].id].scope = work'[b].row.scope
        BY DEF ReadIsOfScope
      <4>1. Mid(b) /\ work'[b] = work[b] /\ work[b].id \in ConfigIds
        BY <1>0, <3>9 DEF ConfigsShape, Mid
      <4>2. configs[work[b].id] # None
        BY <3>1, <4>1
      <4>3. configs'[work[b].id].scope = configs[work[b].id].scope
        BY <3>1, <4>1, <4>2
      <4> QED
        BY <1>0, <4>1, <4>2, <4>3 DEF ReadIsOfScope
    <3>12. ReadAlone'
      BY <2>1, <3>4, <3>9 DEF ReadAlone
    <3>13. TestedStays'
      <4>1. \A b \in Admins : b # a => work'[b] = work[b]
        BY <1>0, <2>1 DEF ConfigsShape
      <4>2. work'[a].at = "idle"
        BY <1>0, <2>1, <2>2 DEF ConfigsShape
      <4>3. ASSUME apart, NEW b \in Admins, b # a, work[b].at = "testing", work[b].id = w.id
            PROVE  configs'[w.id].content = configs[w.id].content
        <5>1. w.content = None
          BY <1>0, <2>1, <4>3 DEF TestedStays, Mid, w
        <5> QED
          BY <3>3, <3>4, <3>5, <4>3, <5>1 DEF Given
      <4>4. ASSUME apart, NEW b \in Admins, work'[b].at = "testing",
                   configs'[work'[b].id] # None
            PROVE  work'[b].on = Given(work'[b].content, configs'[work'[b].id].content)
        <5>1. b # a /\ work'[b] = work[b] /\ work[b].id \in ConfigIds
          BY <1>0, <4>1, <4>2, <4>4 DEF ConfigsShape
        <5>2. configs[work[b].id] # None
          BY <3>1, <4>4, <5>1
        <5>3. work[b].on = Given(work[b].content, configs[work[b].id].content)
          BY <1>0, <4>4, <5>1, <5>2 DEF TestedStays
        <5>4. configs'[work[b].id].content = configs[work[b].id].content
          BY <3>1, <4>3, <4>4, <5>1, <5>2
        <5> QED
          BY <5>1, <5>3, <5>4
      <4>5. ASSUME apart, NEW b \in Admins, work'[b].at = "loaded" PROVE FALSE
        BY <3>4, <3>9, <4>5 DEF Mid
      <4>6. ASSUME apart, NEW b \in Admins, NEW c \in Admins, b # c,
                   work'[b].at \in {"testing", "loaded"}, work'[c].at = "testing",
                   work'[b].id = work'[c].id
            PROVE  work'[b].content = None /\ work'[c].content = None
        <5>1. b # a /\ c # a
          BY <4>2, <4>6
        <5> QED
          BY <1>0, <4>1, <4>6, <5>1 DEF TestedStays
      <4> QED
        BY <2>1, <4>4, <4>5, <4>6 DEF TestedStays, Mid
    <3> QED
      BY <2>4, <3>6, <3>8, <3>10, <3>11, <3>12, <3>13 DEF ConfigsInv
  <2> QED
    BY <1>8, <2>3, <2>4 DEF WriteRow, Commits
<1> QED
  BY <1>1, <1>2, <1>3, <1>4, <1>6, <1>7, <1>8 DEF ConfigsNext, TestStored, TestDraft

\* While reads and writes do not cross, only a request that says so or a deletion
\* takes its default from a scope.
LEMMA DefaultStep == ConfigsInv /\ [ConfigsNext]_configVars => [DefaultStays]_configVars
<1> SUFFICES ASSUME ConfigsInv, ConfigsNext, apart, NEW scope \in Scopes,
                    HasDefault(configs, scope), ~HasDefault(configs', scope),
                    \A a \in Admins : ~(Mid(a) /\ work[a].default = FALSE),
                    \A i \in ConfigIds : ~(configs[i] # None /\ configs'[i] = None)
             PROVE  FALSE
  BY DEF DefaultStays
<1> USE ConfigsAssumption
<1>0. configs \in ConfigRows /\ ReadAlone /\ ConfigsShape
  BY DEF ConfigsInv, ConfigsShape
<1>1. PICK k \in ConfigIds : configs[k] # None /\ configs[k].scope = scope /\ configs[k].default
  BY DEF HasDefault, InScope
<1>2. \A i \in ConfigIds : configs'[i] # None /\ configs'[i].scope = scope => ~configs'[i].default
  BY DEF HasDefault, InScope
<1>3. configs' # configs
  BY <1>1, <1>2
<1>4. ASSUME NEW id \in ConfigIds, NEW s \in Scopes, NEW content \in Contents,
             NEW default \in BOOLEAN, NEW status \in Verdicts \cup {"unknown"},
             CreateConfig(id, s, content, default, status)
      PROVE  FALSE
  <2> DEFINE rest == IF default THEN Unset(configs, s, id) ELSE configs
             row == [scope |-> s, content |-> content, default |-> default,
                   status |-> status, on |-> IF status = "unknown" THEN None ELSE content,
                   adapter |-> status]
  <2>1. configs' = [rest EXCEPT ![id] = row] /\ configs[id] = None
    BY <1>3, <1>4 DEF CreateConfig, Commits
  <2>2. row \in ConfigRow /\ row.scope = s /\ row.default = default
    BY DEF ConfigRow
  <2> HIDE DEF row
  <2>3. CASE default
    <3>1. rest = Unset(configs, s, id)
      BY <2>3
    <3> HIDE DEF rest
    <3>2. rest \in ConfigRows /\ (s # scope => rest[k] = configs[k])
      <4>1. rest \in ConfigRows
        BY <1>0, <3>1, UnsetRows
      <4>2. ASSUME s # scope PROVE rest[k] = configs[k]
        <5>1. configs[k] # None /\ configs[k].scope # s
          BY <1>1, <4>2
        <5>2. k \in ConfigIds /\ k \notin InScope(configs, s)
          BY <1>1, <5>1 DEF InScope
        <5>3. Unset(configs, s, id)[k] = configs[k]
          BY <5>2 DEF Unset
        <5> QED
          BY <3>1, <5>3
      <4> QED
        BY <4>1, <4>2
    <3>3. configs'[id] = row /\ (k # id => configs'[k] = rest[k])
      BY <2>1, <3>2 DEF ConfigRows
    <3>4. k # id
      BY <1>1, <2>1
    <3>5. CASE s = scope
      BY <1>2, <2>2, <2>3, <3>3, <3>5
    <3>6. CASE s # scope
      BY <1>1, <1>2, <3>2, <3>3, <3>4, <3>6
    <3> QED
      BY <3>5, <3>6
  <2>4. CASE ~default
    BY <1>0, <1>1, <1>2, <2>1, <2>4 DEF ConfigRows
  <2> QED
    BY <2>3, <2>4
<1>5. ASSUME NEW a \in Admins, WriteRow(a) PROVE FALSE
  <2> DEFINE w == work[a]
             made == Assigned(w.row, w)
  <2>1. Mid(a) /\ configs[w.id] # None /\ configs' = Written(a)
    BY <1>3, <1>5 DEF WriteRow, Commits
  <2>2. w \in Works /\ w.row \in ConfigRow /\ w.id \in ConfigIds /\ configs[w.id] = w.row
        /\ w.default # FALSE
    BY <1>0, <2>1 DEF ConfigsShape, ReadAlone, Mid
  <2>3. made.default = Given(w.default, w.row.default)
    BY <2>2, AssignedRow
  <2>4. \A i \in ConfigIds \ {w.id} : configs[i] # None =>
          IF w.default = TRUE /\ configs[i].scope = w.row.scope
          THEN TRUE ELSE configs'[i] = configs[i]
    BY <2>1, WrittenRows
  <2>5. /\ configs'[w.id] \in ConfigRow /\ configs'[w.id].scope = configs[w.id].scope
        /\ configs'[w.id].default = IF made.default # w.row.default THEN made.default
                               ELSE configs[w.id].default
    BY <2>1, WrittenRows
  <2>6. configs'[w.id].default = Given(w.default, w.row.default)
    BY <2>2, <2>3, <2>5
  <2> HIDE DEF made, w
  <2>7. CASE w.default = TRUE
    <3>1. configs'[w.id].default
      BY <2>6, <2>7 DEF Given
    <3>2. w.row.scope # scope
      BY <1>2, <2>2, <2>5, <3>1
    <3>3. k # w.id /\ configs'[k] = configs[k]
      BY <1>1, <2>2, <2>4, <3>2
    <3> QED
      BY <1>1, <1>2, <3>3
  <2>8. CASE w.default # TRUE
    <3>1. w.default = None
      BY <2>2, <2>8 DEF Works
    <3>2. configs'[w.id].default = configs[w.id].default
      BY <2>2, <2>6, <3>1 DEF Given
    <3> QED
      BY <1>1, <1>2, <2>2, <2>4, <2>5, <2>8, <3>2
  <2> QED
    BY <2>7, <2>8
<1>6. ASSUME NEW id \in ConfigIds, DeleteConfig(id) PROVE FALSE
  BY <1>0, <1>6 DEF DeleteConfig, ConfigRows
<1> QED
  BY <1>3, <1>4, <1>5, <1>6
     DEF ConfigsNext, TestStored, TestDraft, Tests, AskUpdateConfig, MarkOutcome, SaveDraft, Loads

\* A step of the platform is one of the configurations, where they are the part, or none.
LEMMA ConfigsPart ==
    ASSUME [PlatformNext]_platform
    PROVE  part' = part /\ (part = "configs" => [ConfigsNext]_configVars)
BY DEF PlatformNext, platform, configVars

\* No commit is refused for the index of defaults, row and adapter agree, an
\* outcome is that of the present content, and a scope keeps its default
\* (ConfigsAreSound; llm/repo.py and the tests of llm/api_service.py).
THEOREM ConfigsStaySound == PlatformSpec => ConfigsAreSound
<1> DEFINE I == part = "configs" => ConfigsInv
           S == part = "configs" => DefaultsMakeWay /\ AdapterAgrees /\ OutcomeIsOfContent
           A == part = "configs" => DefaultStays
<1>1. PlatformInit => I
  BY ConfigsStart DEF PlatformInit
<1>2. I /\ [PlatformNext]_platform => I'
  BY ConfigsPart, ConfigsStep
<1>3. I => S
  BY WrittenHasOneDefault DEF ConfigsInv, DefaultsMakeWay
<1>4. I /\ [PlatformNext]_platform => [A]_configVars
  BY ConfigsPart, DefaultStep
<1> QED
  BY <1>1, <1>2, <1>3, <1>4, PTL DEF PlatformSpec, ConfigsAreSound

-----------------------------------------------------------------------------
(* The models of OpenViking (OpenVikingModels) *)

ChosenRow == [model : Embeddings, secret : Secrets \cup {None}]
RowsThere == [embedding : DOMAIN chosen, vision : 0 .. vision]
Switches == [at : {"idle", "asked", "saved", "ready", "read"},
             model : Embeddings \cup {None}, secret : Secrets \cup {None},
             read : RowsThere \cup {None}]
ModelsShape ==
    /\ chosen \in Seq(ChosenRow) /\ Len(chosen) >= 1 /\ vision \in Nat
    /\ conf \in RowsThere /\ serving \in {conf, None}
    /\ vectors \in Embeddings \cup {None} /\ smooth \in BOOLEAN
    /\ switchers \in [Switchers -> Switches]
    /\ \A r \in Switchers : switchers[r].at = "asked" => switchers[r].model \in Embeddings
    /\ \A r \in Switchers : switchers[r].at = "read" => switchers[r].read \in RowsThere
OneSwitch ==
    smooth => \A a, b \in Switchers :
      switchers[a].at # "idle" /\ switchers[b].at # "idle" => a = b
\* A request with no key to save is about a model that never had one.
AskedHasKey ==
    smooth => \A r \in Switchers :
      switchers[r].at = "asked" /\ switchers[r].secret = None =>
        \A i \in DOMAIN chosen : chosen[i].model = switchers[r].model => chosen[i].secret = None
ReadIsNewest ==
    smooth => /\ ~MidSwitch => conf = NewestRows
              /\ \A r \in Switchers : switchers[r].at = "read" => switchers[r].read = NewestRows
\* The vectors are of the model in the file, and where the file is not of the newest
\* one there are none before it is written again.
VectorsOfFile ==
    smooth =>
      /\ vectors # None => vectors = chosen[conf.embedding].model
      /\ \A r \in Switchers : switchers[r].at \in {"ready", "read"} =>
           conf.embedding = Len(chosen) \/ (vectors = None /\ serving = None)
ModelsInv ==
    ModelsShape /\ OneSwitch /\ AskedHasKey /\ KeyIsKept /\ ReadIsNewest /\ VectorsOfFile

\* The natural numbers are well-founded.
LEMMA LeastNatural ==
    ASSUME NEW T, T \subseteq Nat, T # {}
    PROVE  \E x \in T : \A y \in T : x <= y
<1>1. IsWellFoundedOn(OpToRel(<,Nat), Nat)
  BY NatLessThanWellFounded
<1>2. \E x \in T : \A y \in T : ~ (<<y, x>> \in OpToRel(<,Nat))
  BY <1>1, WFMin
<1>3. \A x, y \in T : <<y, x>> \notin OpToRel(<,Nat) => x <= y
  BY DEF OpToRel
<1> QED
  BY <1>2, <1>3

\* A set of numbers up to n has a greatest one.
LEMMA GreatestNatural ==
    ASSUME NEW n \in Nat, NEW T, T \subseteq 0 .. n, T # {}
    PROVE  \E x \in T : \A y \in T : y <= x
<1> DEFINE U == {u \in Nat : n - u \in T}
<1>1. PICK t \in T : TRUE
  OBVIOUS
<1>2. n - t \in U /\ U \subseteq Nat
  OBVIOUS
<1> HIDE DEF U
<1>3. PICK u \in U : \A v \in U : u <= v
  BY <1>2, LeastNatural
<1>4. n - u \in T /\ u \in Nat
  BY <1>3 DEF U
<1>5. ASSUME NEW y \in T PROVE y <= n - u
  <2>1. n - y \in U /\ y \in Nat
    BY DEF U
  <2>2. u <= n - y
    BY <1>3, <2>1
  <2> QED
    BY <1>4, <2>1, <2>2
<1> QED
  BY <1>4, <1>5

\* The key that is carried is one that was given for the model, and none is only
\* where none was (_apply_carried_secrets).
LEMMA CarriedIsGiven ==
    ASSUME chosen \in Seq(ChosenRow), NEW m
    PROVE  /\ Carried(m) \in Secrets \cup {None}
           /\ Carried(m) = None => \A i \in DOMAIN chosen :
                chosen[i].model = m => chosen[i].secret = None
<1> DEFINE keyed == {i \in DOMAIN chosen : chosen[i].model = m /\ chosen[i].secret # None}
           best == CHOOSE i \in keyed : \A j \in keyed : j <= i
<1>1. Carried(m) = IF keyed = {} THEN None ELSE chosen[best].secret
  BY DEF Carried
<1>2. CASE keyed = {}
  BY <1>1, <1>2
<1>3. CASE keyed # {}
  <2>1. Len(chosen) \in Nat /\ keyed \subseteq 0 .. Len(chosen)
    OBVIOUS
  <2>2. \A i \in keyed : chosen[i].secret # None /\ chosen[i].secret \in Secrets \cup {None}
    <3>1. \A i \in DOMAIN chosen : chosen[i] \in ChosenRow
      OBVIOUS
    <3> QED
      BY <3>1 DEF ChosenRow
  <2> HIDE DEF keyed
  <2>3. \E i \in keyed : \A j \in keyed : j <= i
    BY <1>3, <2>1, GreatestNatural
  <2>4. best \in keyed
    BY <2>3
  <2> HIDE DEF best
  <2> QED
    BY <1>1, <1>3, <2>2, <2>4
<1> QED
  BY <1>2, <1>3

\* The row of the environment is the newest, and the file is written from it.
LEMMA ModelsStart == ModelsInit => ModelsInv
<1> SUFFICES ASSUME ModelsInit PROVE ModelsInv
  OBVIOUS
<1>1. PICK m \in Embeddings : chosen = <<[model |-> m, secret |-> None]>>
  BY DEF ModelsInit
<1>2. /\ chosen \in Seq(ChosenRow) /\ Len(chosen) = 1 /\ DOMAIN chosen = {1}
  BY <1>1 DEF ChosenRow
<1>3. /\ vision = 0 /\ conf = [embedding |-> 1, vision |-> 0] /\ serving = None /\ vectors = None
      /\ smooth \in BOOLEAN /\ switchers = [r \in Switchers |-> NotSwitching]
  BY DEF ModelsInit
<1>4. ModelsShape
  BY <1>2, <1>3 DEF ModelsShape, RowsThere, Switches, NotSwitching
<1>5. \A r \in Switchers : switchers[r].at = "idle"
  BY <1>3 DEF NotSwitching
<1>6. OneSwitch /\ AskedHasKey
  BY <1>5 DEF OneSwitch, AskedHasKey
<1>7. KeyIsKept
  BY <1>2 DEF KeyIsKept
<1>8. ReadIsNewest /\ VectorsOfFile
  BY <1>2, <1>3, <1>5 DEF ReadIsNewest, VectorsOfFile, NewestRows
<1> QED
  BY <1>4, <1>6, <1>7, <1>8 DEF ModelsInv


\* One request changes: the shape of all is kept.
LEMMA SwitchShape ==
    ASSUME ModelsShape, NEW r \in Switchers, NEW new,
           switchers' = [switchers EXCEPT ![r] = new],
           chosen' \in Seq(ChosenRow), Len(chosen') >= Len(chosen),
           vision' \in Nat, vision' >= vision,
           new \in Switches',
           new.at = "asked" => new.model \in Embeddings,
           new.at = "read" => new.read \in RowsThere',
           conf' \in RowsThere', serving' \in {conf', None},
           vectors' \in Embeddings \cup {None}, smooth' = smooth
    PROVE  ModelsShape'
<1>1. RowsThere \subseteq RowsThere'
  BY DEF ModelsShape, RowsThere
<1>2. Switches \subseteq Switches'
  BY <1>1 DEF Switches
<1>3. switchers' \in [Switchers -> Switches']
  BY <1>2 DEF ModelsShape
<1>4. \A q \in Switchers : switchers'[q] = IF q = r THEN new ELSE switchers[q]
  BY DEF ModelsShape
<1>5. \A q \in Switchers : switchers'[q].at = "asked" => switchers'[q].model \in Embeddings
  BY <1>4 DEF ModelsShape
<1>6. \A q \in Switchers : switchers'[q].at = "read" => switchers'[q].read \in RowsThere'
  BY <1>1, <1>4 DEF ModelsShape
<1>7. Len(chosen') >= 1
  BY DEF ModelsShape
<1>8. smooth' \in BOOLEAN
  BY DEF ModelsShape
<1> QED
  BY <1>3, <1>5, <1>6, <1>7, <1>8 DEF ModelsShape

\* The tables, the file and the vectors stay where only the state of a request changes.
LEMMA SwitchAlone ==
    ASSUME ModelsInv, NEW r \in Switchers, NEW new \in Switches,
           switchers' = [switchers EXCEPT ![r] = new],
           UNCHANGED <<chosen, vision, conf, serving, vectors, smooth>>,
           new.at = "asked" => new.model \in Embeddings,
           new.at = "read" => new.read \in RowsThere,
           smooth =>
             /\ switchers[r].at = "idle" => NoSwitch
             /\ new.at = "asked" /\ new.secret = None =>
                  \A i \in DOMAIN chosen : chosen[i].model = new.model => chosen[i].secret = None
             /\ new.at \in {"idle", "asked"} => switchers[r].at \in {"idle", "asked"}
             /\ new.at = "read" => new.read = NewestRows
             /\ new.at \in {"ready", "read"} =>
                  conf.embedding = Len(chosen) \/ (vectors = None /\ serving = None)
    PROVE  ModelsInv'
<1>1. ModelsShape /\ OneSwitch /\ AskedHasKey /\ KeyIsKept /\ ReadIsNewest /\ VectorsOfFile
  BY DEF ModelsInv
<1>2. /\ chosen \in Seq(ChosenRow) /\ vision \in Nat /\ Len(chosen) \in Nat
      /\ conf \in RowsThere /\ serving \in {conf, None} /\ vectors \in Embeddings \cup {None}
  BY <1>1 DEF ModelsShape
<1>3. RowsThere' = RowsThere /\ Switches' = Switches
  BY DEF RowsThere, Switches
<1>4. ModelsShape'
  <2>1. chosen' \in Seq(ChosenRow) /\ Len(chosen') >= Len(chosen) /\ vision' \in Nat /\ vision' >= vision
    BY <1>2
  <2>2. /\ new \in Switches' /\ conf' \in RowsThere' /\ serving' \in {conf', None}
        /\ vectors' \in Embeddings \cup {None} /\ smooth' = smooth
        /\ new.at = "read" => new.read \in RowsThere'
    BY <1>2, <1>3
  <2> QED
    BY <1>1, <2>1, <2>2, SwitchShape
<1>5. \A q \in Switchers : switchers'[q] = IF q = r THEN new ELSE switchers[q]
  BY <1>1 DEF ModelsShape
<1>6. OneSwitch'
  BY <1>1, <1>5 DEF OneSwitch, NoSwitch
<1>7. AskedHasKey'
  BY <1>1, <1>5 DEF AskedHasKey
<1>8. KeyIsKept'
  BY <1>1 DEF KeyIsKept
<1>9. smooth /\ ~MidSwitch' => ~MidSwitch
  <2> SUFFICES ASSUME smooth, ~MidSwitch', NEW q \in Switchers,
                      switchers[q].at \in {"saved", "ready", "read"}
               PROVE  FALSE
    BY DEF MidSwitch
  <2>1. q = r
    BY <1>5 DEF MidSwitch
  <2>2. new.at \in {"idle", "asked"}
    BY <1>5, <2>1 DEF MidSwitch, Switches
  <2> QED
    BY <2>1, <2>2
<1>10. ReadIsNewest'
  BY <1>1, <1>5, <1>9 DEF ReadIsNewest, NewestRows
<1>11. VectorsOfFile'
  BY <1>1, <1>5 DEF VectorsOfFile
<1> QED
  BY <1>4, <1>6, <1>7, <1>8, <1>10, <1>11 DEF ModelsInv

\* A request that names no key carries the one there is.
LEMMA AskSwitchStep ==
    ASSUME ModelsInv, NEW r \in Switchers, NEW m \in Embeddings, NEW s \in Secrets \cup {None},
           AskSwitch(r, m, s)
    PROVE  ModelsInv'
<1> DEFINE new == [at |-> "asked", model |-> m, read |-> None,
                   secret |-> IF s = None THEN Carried(m) ELSE s]
<1>1. ModelsShape
  BY DEF ModelsInv
<1>2. /\ Carried(m) \in Secrets \cup {None}
      /\ Carried(m) = None => \A i \in DOMAIN chosen : chosen[i].model = m => chosen[i].secret = None
  BY <1>1, CarriedIsGiven DEF ModelsShape
<1>3. new \in Switches /\ new.at = "asked" /\ new.model = m
  BY <1>2 DEF Switches
<1>4. new.secret = None =>
        \A i \in DOMAIN chosen : chosen[i].model = new.model => chosen[i].secret = None
  BY <1>2
<1>5. switchers' = [switchers EXCEPT ![r] = new]
  BY DEF AskSwitch
<1>6. switchers[r].at = "idle" /\ (smooth => NoSwitch)
      /\ UNCHANGED <<chosen, vision, conf, serving, vectors, smooth>>
  BY DEF AskSwitch
<1> HIDE DEF new
<1> QED
  BY <1>3, <1>4, <1>5, <1>6, SwitchAlone

\* A candidate that is not valid changes nothing.
LEMMA NotValidStep ==
    ASSUME ModelsInv, NEW r \in Switchers, NotValid(r)
    PROVE  ModelsInv'
<1>1. NotSwitching \in Switches /\ NotSwitching.at = "idle"
  BY DEF NotSwitching, Switches
<1> QED
  BY <1>1, SwitchAlone DEF NotValid

\* What a request reads are the newest rows.
LEMMA ReadRowsStep ==
    ASSUME ModelsInv, NEW r \in Switchers, ReadRows(r)
    PROVE  ModelsInv'
<1> DEFINE new == [switchers[r] EXCEPT !.at = "read", !.read = NewestRows]
<1>1. ModelsShape /\ VectorsOfFile
  BY DEF ModelsInv
<1>2. NewestRows \in RowsThere
  BY <1>1 DEF ModelsShape, NewestRows, RowsThere
<1>3. switchers[r] \in Switches
  BY <1>1 DEF ModelsShape
<1>4. new \in Switches /\ new.at = "read" /\ new.read = NewestRows
  BY <1>2, <1>3 DEF Switches
<1>5. new.read \in RowsThere
  BY <1>2, <1>4
<1>6. switchers' = [switchers EXCEPT ![r] = new]
  BY <1>1 DEF ReadRows, ModelsShape
<1>7. switchers[r].at = "ready" /\ UNCHANGED <<chosen, vision, conf, serving, vectors, smooth>>
  BY DEF ReadRows
<1> HIDE DEF new
<1> QED
  BY <1>1, <1>4, <1>5, <1>6, <1>7, SwitchAlone DEF VectorsOfFile

\* The new row loses no key; the file is behind until the request has written it.
LEMMA CommitSwitchStep ==
    ASSUME ModelsInv, NEW r \in Switchers, CommitSwitch(r)
    PROVE  ModelsInv'
<1> DEFINE new == [switchers[r] EXCEPT !.at = "saved"]
           row == [model |-> switchers[r].model, secret |-> switchers[r].secret]
<1>1. ModelsShape /\ OneSwitch /\ AskedHasKey /\ KeyIsKept /\ ReadIsNewest /\ VectorsOfFile
  BY DEF ModelsInv
<1>2. /\ chosen \in Seq(ChosenRow) /\ vision \in Nat /\ Len(chosen) \in Nat
      /\ conf \in RowsThere /\ serving \in {conf, None} /\ vectors \in Embeddings \cup {None}
  BY <1>1 DEF ModelsShape
<1>3. /\ switchers[r].at = "asked" /\ chosen' = Append(chosen, row)
      /\ UNCHANGED <<vision, conf, serving, vectors, smooth>>
  BY DEF CommitSwitch
<1>4. switchers[r] \in Switches /\ switchers[r].model \in Embeddings
  BY <1>1, <1>3 DEF ModelsShape
<1>5. row \in ChosenRow
  BY <1>4 DEF Switches, ChosenRow
<1>6. switchers' = [switchers EXCEPT ![r] = new]
  BY <1>1 DEF CommitSwitch, ModelsShape
<1>7. new \in Switches /\ new.at = "saved"
  BY <1>4 DEF Switches
<1>8. /\ chosen' \in Seq(ChosenRow) /\ Len(chosen') = Len(chosen) + 1
      /\ \A i \in 1 .. Len(chosen) : chosen'[i] = chosen[i]
      /\ chosen'[Len(chosen) + 1] = row
  BY <1>2, <1>3, <1>5
<1>9. DOMAIN chosen = 1 .. Len(chosen) /\ DOMAIN chosen' = 1 .. Len(chosen) + 1
  BY <1>2, <1>8
<1>10. RowsThere \subseteq RowsThere'
  BY <1>2, <1>3, <1>9 DEF RowsThere
<1>11. Switches \subseteq Switches'
  BY <1>10 DEF Switches
<1>12. conf.embedding \in 1 .. Len(chosen)
  BY <1>2, <1>9 DEF RowsThere
<1> HIDE DEF new
<1>13. ModelsShape'
  <2>1. Len(chosen') >= Len(chosen) /\ vision' \in Nat /\ vision' >= vision
    BY <1>2, <1>3, <1>8
  <2>2. /\ new \in Switches' /\ conf' \in RowsThere' /\ serving' \in {conf', None}
        /\ vectors' \in Embeddings \cup {None} /\ smooth' = smooth
    BY <1>2, <1>3, <1>7, <1>10, <1>11
  <2> QED
    BY <1>1, <1>6, <1>7, <1>8, <2>1, <2>2, SwitchShape
<1>14. \A q \in Switchers : switchers'[q] = IF q = r THEN new ELSE switchers[q]
  BY <1>1, <1>6 DEF ModelsShape
<1>15. smooth => \A q \in Switchers \ {r} : switchers'[q].at = "idle"
  BY <1>1, <1>3, <1>14 DEF OneSwitch
<1>16. OneSwitch'
  BY <1>1, <1>3, <1>15 DEF OneSwitch
<1>17. AskedHasKey'
  BY <1>3, <1>7, <1>14, <1>15 DEF AskedHasKey
<1>18. KeyIsKept'
  <2> SUFFICES ASSUME smooth, NEW i \in DOMAIN chosen', NEW j \in DOMAIN chosen', i < j,
                      chosen'[i].model = chosen'[j].model, chosen'[i].secret # None,
                      chosen'[j].secret = None
               PROVE  FALSE
    BY <1>3 DEF KeyIsKept
  <2>1. i \in 1 .. Len(chosen) /\ chosen'[i] = chosen[i]
    BY <1>2, <1>8, <1>9
  <2>2. CASE j \in 1 .. Len(chosen)
    BY <1>1, <1>8, <1>9, <2>1, <2>2 DEF KeyIsKept
  <2>3. CASE j \notin 1 .. Len(chosen)
    <3>1. chosen'[j] = row
      BY <1>2, <1>8, <1>9, <2>3
    <3> QED
      BY <1>1, <1>3, <1>9, <2>1, <3>1 DEF AskedHasKey
  <2> QED
    BY <2>2, <2>3
<1>19. MidSwitch'
  BY <1>7, <1>14 DEF MidSwitch
<1>20. ReadIsNewest'
  BY <1>3, <1>7, <1>14, <1>15, <1>19 DEF ReadIsNewest
<1>21. VectorsOfFile'
  BY <1>1, <1>3, <1>7, <1>8, <1>12, <1>14, <1>15 DEF VectorsOfFile
<1> QED
  BY <1>13, <1>16, <1>17, <1>18, <1>20, <1>21 DEF ModelsInv

\* The vectors are gone with the server.
LEMMA WipeStep ==
    ASSUME ModelsInv, NEW r \in Switchers, Wipe(r)
    PROVE  ModelsInv'
<1> DEFINE new == [switchers[r] EXCEPT !.at = "ready"]
<1>1. ModelsShape /\ OneSwitch /\ AskedHasKey /\ KeyIsKept /\ ReadIsNewest /\ VectorsOfFile
  BY DEF ModelsInv
<1>2. /\ chosen \in Seq(ChosenRow) /\ vision \in Nat /\ Len(chosen) \in Nat
      /\ conf \in RowsThere /\ vectors \in Embeddings \cup {None}
  BY <1>1 DEF ModelsShape
<1>3. /\ switchers[r].at = "saved" /\ serving' = None
      /\ vectors' \in Embeddings \cup {None} /\ (smooth => vectors' = None)
      /\ UNCHANGED <<chosen, vision, conf, smooth>>
  BY <1>2 DEF Wipe
<1>4. switchers' = [switchers EXCEPT ![r] = new]
  BY <1>1 DEF Wipe, ModelsShape
<1>5. new \in Switches /\ new.at = "ready"
  BY <1>1 DEF Switches, ModelsShape
<1>6. RowsThere' = RowsThere /\ Switches' = Switches
  BY <1>3 DEF RowsThere, Switches
<1> HIDE DEF new
<1>7. ModelsShape'
  <2>1. chosen' \in Seq(ChosenRow) /\ Len(chosen') >= Len(chosen) /\ vision' \in Nat /\ vision' >= vision
    BY <1>2, <1>3
  <2>2. new \in Switches' /\ conf' \in RowsThere' /\ serving' \in {conf', None} /\ smooth' = smooth
    BY <1>2, <1>3, <1>5, <1>6
  <2> QED
    BY <1>1, <1>3, <1>4, <1>5, <2>1, <2>2, SwitchShape
<1>8. \A q \in Switchers : switchers'[q] = IF q = r THEN new ELSE switchers[q]
  BY <1>1, <1>4 DEF ModelsShape
<1>9. smooth => \A q \in Switchers \ {r} : switchers'[q].at = "idle"
  BY <1>1, <1>3, <1>8 DEF OneSwitch
<1>10. OneSwitch'
  BY <1>1, <1>3, <1>9 DEF OneSwitch
<1>11. AskedHasKey'
  BY <1>3, <1>5, <1>8, <1>9 DEF AskedHasKey
<1>12. KeyIsKept'
  BY <1>1, <1>3 DEF KeyIsKept
<1>13. MidSwitch'
  BY <1>5, <1>8 DEF MidSwitch
<1>14. ReadIsNewest'
  BY <1>3, <1>5, <1>8, <1>9, <1>13 DEF ReadIsNewest
<1>15. VectorsOfFile'
  BY <1>3 DEF VectorsOfFile
<1> QED
  BY <1>7, <1>10, <1>11, <1>12, <1>14, <1>15 DEF ModelsInv

\* Another vision model leaves the vectors as they are.
LEMMA CommitVisionStep ==
    ASSUME ModelsInv, NEW r \in Switchers, CommitVision(r)
    PROVE  ModelsInv'
<1> DEFINE new == [switchers[r] EXCEPT !.at = "ready"]
<1>1. ModelsShape /\ OneSwitch /\ AskedHasKey /\ KeyIsKept /\ ReadIsNewest /\ VectorsOfFile
  BY DEF ModelsInv
<1>2. /\ chosen \in Seq(ChosenRow) /\ vision \in Nat /\ Len(chosen) \in Nat
      /\ conf \in RowsThere /\ serving \in {conf, None} /\ vectors \in Embeddings \cup {None}
  BY <1>1 DEF ModelsShape
<1>3. /\ switchers[r].at = "idle" /\ (smooth => NoSwitch) /\ vision' = vision + 1
      /\ UNCHANGED <<chosen, conf, serving, vectors, smooth>>
  BY DEF CommitVision
<1>4. switchers' = [switchers EXCEPT ![r] = new]
  BY <1>1 DEF CommitVision, ModelsShape
<1>5. new \in Switches /\ new.at = "ready"
  BY <1>1 DEF Switches, ModelsShape
<1>6. RowsThere \subseteq RowsThere'
  BY <1>2, <1>3 DEF RowsThere
<1>7. Switches \subseteq Switches'
  BY <1>6 DEF Switches
<1> HIDE DEF new
<1>8. ModelsShape'
  <2>1. chosen' \in Seq(ChosenRow) /\ Len(chosen') >= Len(chosen) /\ vision' \in Nat /\ vision' >= vision
    BY <1>2, <1>3
  <2>2. /\ new \in Switches' /\ conf' \in RowsThere' /\ serving' \in {conf', None} /\ smooth' = smooth
        /\ vectors' \in Embeddings \cup {None}
    BY <1>2, <1>3, <1>5, <1>6, <1>7
  <2> QED
    BY <1>1, <1>4, <1>5, <2>1, <2>2, SwitchShape
<1>9. \A q \in Switchers : switchers'[q] = IF q = r THEN new ELSE switchers[q]
  BY <1>1, <1>4 DEF ModelsShape
<1>10. smooth => \A q \in Switchers \ {r} : switchers'[q].at = "idle"
  BY <1>3, <1>9 DEF NoSwitch
<1>11. OneSwitch'
  BY <1>1, <1>3, <1>10 DEF OneSwitch
<1>12. AskedHasKey'
  BY <1>3, <1>5, <1>9, <1>10 DEF AskedHasKey
<1>13. KeyIsKept'
  BY <1>1, <1>3 DEF KeyIsKept
<1>14. MidSwitch'
  BY <1>5, <1>9 DEF MidSwitch
<1>15. ReadIsNewest'
  BY <1>3, <1>5, <1>9, <1>10, <1>14 DEF ReadIsNewest
<1>16. smooth => conf.embedding = Len(chosen)
  BY <1>1, <1>3 DEF ReadIsNewest, NoSwitch, MidSwitch, NewestRows
<1>17. VectorsOfFile'
  BY <1>1, <1>3, <1>16 DEF VectorsOfFile
<1> QED
  BY <1>8, <1>11, <1>12, <1>13, <1>15, <1>17 DEF ModelsInv

\* The file is of the newest rows again.
LEMMA RelaunchStep ==
    ASSUME ModelsInv, NEW r \in Switchers, Relaunch(r)
    PROVE  ModelsInv'
<1>1. ModelsShape /\ OneSwitch /\ AskedHasKey /\ KeyIsKept /\ ReadIsNewest /\ VectorsOfFile
  BY DEF ModelsInv
<1>2. /\ chosen \in Seq(ChosenRow) /\ vision \in Nat /\ Len(chosen) \in Nat
      /\ vectors \in Embeddings \cup {None}
  BY <1>1 DEF ModelsShape
<1>3. /\ switchers[r].at = "read" /\ conf' = switchers[r].read /\ serving' \in {conf', None}
      /\ switchers' = [switchers EXCEPT ![r] = NotSwitching]
      /\ UNCHANGED <<chosen, vision, vectors, smooth>>
  BY DEF Relaunch
<1>4. RowsThere' = RowsThere /\ Switches' = Switches
  BY <1>3 DEF RowsThere, Switches
<1>5. NotSwitching \in Switches /\ NotSwitching.at = "idle"
  BY DEF NotSwitching, Switches
<1>6. switchers[r].read \in RowsThere
  BY <1>1, <1>3 DEF ModelsShape
<1>7. ModelsShape'
  <2>1. chosen' \in Seq(ChosenRow) /\ Len(chosen') >= Len(chosen) /\ vision' \in Nat /\ vision' >= vision
    BY <1>2, <1>3
  <2>2. /\ NotSwitching \in Switches' /\ conf' \in RowsThere' /\ smooth' = smooth
        /\ vectors' \in Embeddings \cup {None}
    BY <1>2, <1>3, <1>4, <1>5, <1>6
  <2> QED
    BY <1>1, <1>3, <1>5, <2>1, <2>2, SwitchShape
<1>8. \A q \in Switchers : switchers'[q] = IF q = r THEN NotSwitching ELSE switchers[q]
  BY <1>1, <1>3 DEF ModelsShape
<1>9. smooth => \A q \in Switchers : switchers'[q].at = "idle"
  BY <1>1, <1>3, <1>5, <1>8 DEF OneSwitch
<1>10. OneSwitch'
  BY <1>3, <1>9 DEF OneSwitch
<1>11. AskedHasKey'
  BY <1>3, <1>9 DEF AskedHasKey
<1>12. KeyIsKept'
  BY <1>1, <1>3 DEF KeyIsKept
<1>13. smooth => conf' = NewestRows /\ NewestRows' = NewestRows
  BY <1>1, <1>3 DEF ReadIsNewest, NewestRows
<1>14. ReadIsNewest'
  BY <1>3, <1>9, <1>13 DEF ReadIsNewest
<1>15. smooth => conf'.embedding = Len(chosen)
  BY <1>13 DEF NewestRows
<1>16. VectorsOfFile'
  BY <1>1, <1>3, <1>9, <1>15 DEF VectorsOfFile
<1> QED
  BY <1>7, <1>10, <1>11, <1>12, <1>14, <1>16 DEF ModelsInv

\* The server comes and goes with the file as it is.
LEMMA ServerTurns ==
    ASSUME ModelsInv, KeepServing \/ ServerExits \/ MakeVectors
    PROVE  ModelsInv'
<1>1. ModelsShape /\ OneSwitch /\ AskedHasKey /\ KeyIsKept /\ ReadIsNewest /\ VectorsOfFile
  BY DEF ModelsInv
<1>2. /\ UNCHANGED <<chosen, vision, conf, switchers, smooth>> /\ serving' \in {conf, None}
      /\ serving \in {conf, None} /\ conf \in RowsThere /\ chosen \in Seq(ChosenRow)
      /\ vectors \in Embeddings \cup {None}
  BY <1>1 DEF ModelsShape, KeepServing, ServerExits, MakeVectors
<1>3. RowsThere' = RowsThere /\ Switches' = Switches
  BY <1>2 DEF RowsThere, Switches
<1>4. chosen[conf.embedding] \in ChosenRow
  <2>1. conf.embedding \in DOMAIN chosen
    BY <1>2 DEF RowsThere
  <2> QED
    BY <1>2, <2>1
<1>5. \/ vectors' = vectors
      \/ serving # None /\ vectors' = chosen[conf.embedding].model
  BY <1>2 DEF KeepServing, ServerExits, MakeVectors
<1>6. vectors' \in Embeddings \cup {None}
  BY <1>2, <1>4, <1>5 DEF ChosenRow
<1>7. ModelsShape'
  BY <1>1, <1>2, <1>3, <1>6 DEF ModelsShape
<1>8. OneSwitch' /\ AskedHasKey' /\ KeyIsKept'
  BY <1>1, <1>2 DEF OneSwitch, AskedHasKey, KeyIsKept
<1>9. ReadIsNewest'
  BY <1>1, <1>2 DEF ReadIsNewest, MidSwitch, NewestRows
<1>10. VectorsOfFile'
  <2> SUFFICES ASSUME smooth
               PROVE  /\ vectors' # None => vectors' = chosen[conf.embedding].model
                      /\ \A r \in Switchers : switchers[r].at \in {"ready", "read"} =>
                           conf.embedding = Len(chosen) \/ (vectors' = None /\ serving' = None)
    BY <1>2 DEF VectorsOfFile
  <2>1. vectors' # None => vectors' = chosen[conf.embedding].model
    BY <1>1, <1>5 DEF VectorsOfFile
  <2>2. ASSUME NEW r \in Switchers, switchers[r].at \in {"ready", "read"},
               conf.embedding # Len(chosen)
        PROVE  vectors' = None /\ serving' = None
    <3>1. vectors = None /\ serving = None /\ MidSwitch
      BY <1>1, <2>2 DEF VectorsOfFile, MidSwitch
    <3> QED
      BY <3>1 DEF KeepServing, ServerExits, MakeVectors
  <2> QED
    BY <2>1, <2>2
<1> QED
  BY <1>7, <1>8, <1>9, <1>10 DEF ModelsInv

\* CodeAsk writes the file anew.
LEMMA StartAgainStep ==
    ASSUME ModelsInv, StartAgain
    PROVE  ModelsInv'
<1>1. ModelsShape /\ OneSwitch /\ AskedHasKey /\ KeyIsKept /\ ReadIsNewest /\ VectorsOfFile
  BY DEF ModelsInv
<1>2. /\ conf' = NewestRows /\ serving' = None /\ switchers' = [r \in Switchers |-> NotSwitching]
      /\ smooth => \A r \in Switchers : switchers[r].at # "saved"
      /\ UNCHANGED <<chosen, vision, vectors, smooth>>
  BY DEF StartAgain
<1>3. RowsThere' = RowsThere /\ Switches' = Switches /\ NewestRows' = NewestRows
  BY <1>2 DEF RowsThere, Switches, NewestRows
<1>4. NewestRows \in RowsThere
  BY <1>1 DEF ModelsShape, NewestRows, RowsThere
<1>5. NotSwitching \in Switches /\ NotSwitching.at = "idle"
  BY DEF NotSwitching, Switches
<1>6. \A q \in Switchers : switchers'[q] = NotSwitching
  BY <1>2
<1>7. ModelsShape'
  BY <1>1, <1>2, <1>3, <1>4, <1>5, <1>6 DEF ModelsShape
<1>8. OneSwitch' /\ AskedHasKey' /\ KeyIsKept' /\ ReadIsNewest'
  BY <1>1, <1>2, <1>3, <1>5, <1>6 DEF OneSwitch, AskedHasKey, KeyIsKept, ReadIsNewest
<1>9. smooth => conf.embedding = Len(chosen) \/ vectors = None
  <2>1. CASE MidSwitch
    BY <1>1, <1>2, <2>1 DEF MidSwitch, VectorsOfFile
  <2>2. CASE ~MidSwitch
    BY <1>1, <2>2 DEF ReadIsNewest, NewestRows
  <2> QED
    BY <2>1, <2>2
<1>10. conf'.embedding = Len(chosen)
  BY <1>2 DEF NewestRows
<1>11. VectorsOfFile'
  BY <1>1, <1>2, <1>5, <1>6, <1>9, <1>10 DEF VectorsOfFile
<1> QED
  BY <1>7, <1>8, <1>11 DEF ModelsInv

\* Every step of a switch, the server and CodeAsk keeps the invariant of the models.
LEMMA ModelsStep == ModelsInv /\ [ModelsNext]_modelVars => ModelsInv'
<1> SUFFICES ASSUME ModelsInv, [ModelsNext]_modelVars PROVE ModelsInv'
  OBVIOUS
<1>1. CASE ModelsNext
  BY <1>1, AskSwitchStep, NotValidStep, CommitSwitchStep, WipeStep, CommitVisionStep,
     ReadRowsStep, RelaunchStep, ServerTurns, StartAgainStep DEF ModelsNext
<1>2. CASE UNCHANGED modelVars
  <2>1. UNCHANGED <<chosen, vision, conf, serving, vectors, switchers, smooth>>
    BY <1>2 DEF modelVars
  <2>2. RowsThere' = RowsThere /\ Switches' = Switches /\ NewestRows' = NewestRows
    BY <2>1 DEF RowsThere, Switches, NewestRows
  <2>3. ModelsShape'
    BY <2>1, <2>2 DEF ModelsInv, ModelsShape
  <2>4. OneSwitch' /\ AskedHasKey' /\ KeyIsKept'
    BY <2>1 DEF ModelsInv, OneSwitch, AskedHasKey, KeyIsKept
  <2>5. ReadIsNewest' /\ VectorsOfFile'
    BY <2>1, <2>2 DEF ModelsInv, ReadIsNewest, VectorsOfFile, MidSwitch
  <2> QED
    BY <2>3, <2>4, <2>5 DEF ModelsInv
<1> QED
  BY <1>1, <1>2

\* A step of the platform is one of the models, where they are the part, or none.
LEMMA ModelsPart ==
    ASSUME [PlatformNext]_platform
    PROVE  part' = part /\ (part = "models" => [ModelsNext]_modelVars)
BY DEF PlatformNext, platform, modelVars

\* No key that was given is lost, the newest rows are in the file and served once
\* nobody is at it, and the server works on vectors of its own model only
\* (ModelsAreSound; switch_openviking_embedding and _apply_carried_secrets).
THEOREM ModelsStaySound == PlatformSpec => []ModelsAreSound
<1> DEFINE I == part = "models" => ModelsInv
<1>1. PlatformInit => I
  BY ModelsStart DEF PlatformInit
<1>2. I /\ [PlatformNext]_platform => I'
  BY ModelsPart, ModelsStep
<1>3. I => ModelsAreSound
  <2> SUFFICES ASSUME ModelsInv PROVE KeyIsKept /\ NewestIsServed /\ VectorsAreOfModel
    BY DEF ModelsAreSound
  <2>1. KeyIsKept
    BY DEF ModelsInv
  <2>2. NewestIsServed
    BY DEF ModelsInv, ModelsShape, ReadIsNewest, NewestIsServed, NoSwitch, MidSwitch
  <2>3. VectorsAreOfModel
    BY DEF ModelsInv, ModelsShape, VectorsOfFile, VectorsAreOfModel
  <2> QED
    BY <2>1, <2>2, <2>3
<1> QED
  BY <1>1, <1>2, <1>3, PTL DEF PlatformSpec

-----------------------------------------------------------------------------
(* The tuning parameters of OpenViking (OpenVikingTuning) *)

TuneValues == 1 .. TuneLimit
Wish == [key : TuneKeys, value : Nat]
TuneRow == [key : TuneKeys, value : TuneValues, previous : TuneValues \cup {None}]
TunerState == [at : {"idle", "back", "read", "saved", "reloaded", "configured"},
               wishes : Seq(Wish), seen : [TuneKeys -> TuneValues] \cup {<<>>},
               changed : SUBSET TuneKeys]
HasAll(hist) == \A k \in TuneKeys : \E i \in DOMAIN hist : hist[i].key = k
TuningShape ==
    /\ tuneRows \in Seq(TuneRow) /\ HasAll(tuneRows)
    /\ inMemory \in [AppKeys -> TuneValues] /\ served \in [ServerKeys -> TuneValues]
    /\ reloaded \in BOOLEAN /\ alone \in BOOLEAN
    /\ tuners \in [Tuners -> TunerState]
    /\ \A r \in Tuners :
          tuners[r].at \notin {"idle", "back"} => tuners[r].seen \in [TuneKeys -> TuneValues]
\* HistoryIsChain of any list of rows.
Chained(hist) ==
    \A i, j \in DOMAIN hist :
       /\ i < j /\ hist[i].key = hist[j].key
       /\ \A m \in i + 1 .. j - 1 : hist[m].key # hist[i].key
       => hist[j].previous = hist[i].value /\ hist[j].value # hist[i].value

\* The newest row of a parameter is the one after which there is none.
LEMMA NewestIsLast ==
    ASSUME NEW hist \in Seq(TuneRow), NEW i \in DOMAIN hist,
           \A j \in DOMAIN hist : hist[j].key = hist[i].key => j <= i
    PROVE  NewestRow(hist, hist[i].key) = hist[i]
<1> DEFINE last == CHOOSE l \in DOMAIN hist :
             hist[l].key = hist[i].key /\ \A j \in DOMAIN hist : hist[j].key = hist[i].key => j <= l
<1>1. DOMAIN hist = 1 .. Len(hist) /\ Len(hist) \in Nat
  BY LenProperties
<1>2. /\ last \in DOMAIN hist /\ hist[last].key = hist[i].key
      /\ \A j \in DOMAIN hist : hist[j].key = hist[i].key => j <= last
  OBVIOUS
<1>3. last = i
  <2>1. last <= i /\ i <= last
    BY <1>2
  <2> HIDE DEF last
  <2> QED
    BY <1>1, <1>2, <2>1
<1>4. NewestRow(hist, hist[i].key) = hist[last]
  BY DEF NewestRow
<1> QED
  BY <1>3, <1>4

\* A parameter with a row has a newest one.
LEMMA NewestIsThere ==
    ASSUME NEW hist \in Seq(TuneRow), NEW k, \E i \in DOMAIN hist : hist[i].key = k
    PROVE  \E i \in DOMAIN hist :
             /\ NewestRow(hist, k) = hist[i] /\ hist[i].key = k
             /\ \A j \in DOMAIN hist : hist[j].key = k => j <= i
<1> DEFINE T == {i \in DOMAIN hist : hist[i].key = k}
<1>1. DOMAIN hist = 1 .. Len(hist) /\ Len(hist) \in Nat
  BY LenProperties
<1>2. T \subseteq 0 .. Len(hist) /\ T # {}
  BY <1>1
<1>3. PICK i \in T : \A j \in T : j <= i
  <2> HIDE DEF T
  <2> QED
    BY <1>1, <1>2, GreatestNatural
<1>4. i \in DOMAIN hist /\ hist[i].key = k /\ \A j \in DOMAIN hist : hist[j].key = k => j <= i
  BY <1>3
<1>5. NewestRow(hist, k) = hist[i]
  BY <1>4, NewestIsLast
<1> QED
  BY <1>4, <1>5

\* A row that is appended is the newest of its parameter.
LEMMA AppendedIsNewest ==
    ASSUME NEW hist \in Seq(TuneRow), HasAll(hist), NEW new \in TuneRow, NEW k \in TuneKeys
    PROVE  NewestRow(Append(hist, new), k) = IF k = new.key THEN new ELSE NewestRow(hist, k)
<1> DEFINE more == Append(hist, new)
<1>1. /\ Len(hist) \in Nat /\ DOMAIN hist = 1 .. Len(hist)
      /\ more \in Seq(TuneRow) /\ Len(more) = Len(hist) + 1 /\ DOMAIN more = 1 .. Len(hist) + 1
      /\ \A i \in 1 .. Len(hist) : more[i] = hist[i]
      /\ more[Len(hist) + 1] = new
  BY LenProperties, AppendProperties
<1> HIDE DEF more
<1>2. CASE k = new.key
  <2>1. Len(hist) + 1 \in DOMAIN more /\ more[Len(hist) + 1].key = k
    BY <1>1, <1>2
  <2>2. \A j \in DOMAIN more : j <= Len(hist) + 1
    BY <1>1
  <2>3. NewestRow(more, k) = more[Len(hist) + 1]
    BY <1>1, <2>1, <2>2, NewestIsLast
  <2> QED
    BY <1>1, <1>2, <2>3 DEF more
<1>3. CASE k # new.key
  <2>1. PICK i \in DOMAIN hist :
          /\ NewestRow(hist, k) = hist[i] /\ hist[i].key = k
          /\ \A j \in DOMAIN hist : hist[j].key = k => j <= i
    BY NewestIsThere DEF HasAll
  <2>2. i \in DOMAIN more /\ more[i] = hist[i] /\ more[i].key = k
    BY <1>1, <2>1
  <2>3. ASSUME NEW j \in DOMAIN more, more[j].key = k PROVE j <= i
    <3>1. j # Len(hist) + 1
      BY <1>1, <1>3, <2>3
    <3>2. j \in DOMAIN hist /\ hist[j].key = k
      BY <1>1, <2>3, <3>1
    <3> QED
      BY <2>1, <3>2
  <2>4. NewestRow(more, k) = more[i]
    BY <1>1, <2>2, <2>3, NewestIsLast
  <2> QED
    BY <1>3, <2>1, <2>2, <2>4 DEF more
<1> QED
  BY <1>2, <1>3

\* A row that names the value before it, and changes it, carries the chain on.
LEMMA AppendedIsChained ==
    ASSUME NEW hist \in Seq(TuneRow), HasAll(hist), Chained(hist), NEW new \in TuneRow,
           new.previous = NewestRow(hist, new.key).value, new.value # new.previous
    PROVE  Chained(Append(hist, new))
<1> DEFINE more == Append(hist, new)
<1>1. /\ Len(hist) \in Nat /\ DOMAIN hist = 1 .. Len(hist)
      /\ more \in Seq(TuneRow) /\ Len(more) = Len(hist) + 1 /\ DOMAIN more = 1 .. Len(hist) + 1
      /\ \A i \in 1 .. Len(hist) : more[i] = hist[i]
      /\ more[Len(hist) + 1] = new
  BY LenProperties, AppendProperties
<1> HIDE DEF more
<1> SUFFICES ASSUME NEW i \in DOMAIN more, NEW j \in DOMAIN more, i < j, more[i].key = more[j].key,
                    \A m \in i + 1 .. j - 1 : more[m].key # more[i].key
             PROVE  more[j].previous = more[i].value /\ more[j].value # more[i].value
  BY DEF Chained, more
<1>2. i \in DOMAIN hist /\ more[i] = hist[i]
  BY <1>1
<1>3. CASE j \in DOMAIN hist
  <2>1. more[j] = hist[j]
    BY <1>1, <1>3
  <2>2. ASSUME NEW m \in i + 1 .. j - 1 PROVE hist[m].key # hist[i].key
    <3>1. m \in 1 .. Len(hist)
      BY <1>1, <1>2, <1>3
    <3> QED
      BY <1>1, <1>2, <3>1
  <2> QED
    BY <1>2, <1>3, <2>1, <2>2 DEF Chained
<1>4. CASE j \notin DOMAIN hist
  <2>1. j = Len(hist) + 1 /\ more[j] = new
    BY <1>1, <1>4
  <2>2. ASSUME NEW m \in DOMAIN hist, hist[m].key = hist[i].key PROVE m <= i
    <3>1. SUFFICES ASSUME ~ (m <= i) PROVE FALSE
      OBVIOUS
    <3>2. m \in i + 1 .. j - 1
      BY <1>1, <1>2, <2>1, <3>1
    <3> QED
      BY <1>1, <1>2, <2>2, <3>2
  <2>3. NewestRow(hist, hist[i].key) = hist[i]
    BY <1>2, <2>2, NewestIsLast
  <2> QED
    BY <1>2, <2>1, <2>3
<1> QED
  BY <1>3, <1>4

TuneProgress == [rows : Seq(TuneRow), seen : [TuneKeys -> TuneValues]]

\* What every change of a list keeps is so of the list.
LEMMA ListIsTaken ==
    ASSUME NEW r \in Tuners, tuners[r].wishes \in Seq(Wish), NEW Good,
           [rows |-> <<>>, seen |-> tuners[r].seen] \in Good,
           \A done \in Good, wish \in Wish : TakeChange(done, wish) \in Good
    PROVE  TakenChanges(r) \in Good
<1> DEFINE wishes == tuners[r].wishes
           start == [rows |-> <<>>, seen |-> tuners[r].seen]
           Follows(f, n) == f = [i \in 0 .. n |-> IF i = 0 THEN start
                                                  ELSE TakeChange(f[i - 1], wishes[i])]
           T == {n \in 0 .. Len(wishes) : ~ \E f : Follows(f, n)}
<1>1. Len(wishes) \in Nat /\ \A i \in 1 .. Len(wishes) : wishes[i] \in Wish
  BY LenProperties
<1> HIDE DEF wishes, start
<1>2. T = {}
  <2> SUFFICES ASSUME T # {} PROVE FALSE
    OBVIOUS
  <2>1. T \subseteq Nat
    BY <1>1
  <2>2. PICK n \in T : \A m \in T : n <= m
    <3> HIDE DEF T
    <3> QED
      BY <2>1, LeastNatural
  <2>3. n \in 0 .. Len(wishes) /\ ~ \E f : Follows(f, n)
    BY <2>2
  <2>4. CASE n = 0
    <3> DEFINE f == [i \in 0 .. 0 |-> start]
    <3>1. Follows(f, 0)
      OBVIOUS
    <3> QED
      BY <2>3, <2>4, <3>1
  <2>5. CASE n # 0
    <3>1. n - 1 \in 0 .. Len(wishes) /\ n - 1 \notin T
      <4>1. n - 1 \in 0 .. Len(wishes) /\ ~ (n <= n - 1)
        BY <1>1, <2>3, <2>5
      <4> HIDE DEF T
      <4> QED
        BY <2>2, <4>1
    <3>2. PICK f : Follows(f, n - 1)
      BY <3>1
    <3> DEFINE g == [i \in 0 .. n |-> IF i = n THEN TakeChange(f[n - 1], wishes[n]) ELSE f[i]]
    <3>3. ASSUME NEW i \in 0 .. n
          PROVE  g[i] = IF i = 0 THEN start ELSE TakeChange(g[i - 1], wishes[i])
      <4>1. CASE i = n
        <5>1. g[n] = TakeChange(f[n - 1], wishes[n])
          BY <1>1, <2>3
        <5>2. g[n - 1] = f[n - 1]
          BY <1>1, <2>3, <2>5
        <5> QED
          BY <2>5, <4>1, <5>1, <5>2
      <4>2. CASE i # n
        <5>1. i \in 0 .. n - 1
          BY <1>1, <2>3, <4>2
        <5>2. g[i] = f[i] /\ (i # 0 => g[i - 1] = f[i - 1])
          BY <1>1, <2>3, <5>1
        <5>3. f[i] = IF i = 0 THEN start ELSE TakeChange(f[i - 1], wishes[i])
          BY <3>2, <5>1
        <5> QED
          BY <5>2, <5>3
      <4> QED
        BY <4>1, <4>2
    <3>4. g = [i \in 0 .. n |-> g[i]]
      OBVIOUS
    <3> HIDE DEF g
    <3>5. Follows(g, n)
      BY <3>3, <3>4
    <3> QED
      BY <2>3, <3>5
  <2> QED
    BY <2>4, <2>5
<1> DEFINE done == CHOOSE f : Follows(f, Len(wishes))
<1>3. Follows(done, Len(wishes))
  <2>1. \E f : Follows(f, Len(wishes))
    BY <1>1, <1>2
  <2> QED
    BY <2>1
<1>4. TakenChanges(r) = done[Len(wishes)]
  BY DEF TakenChanges, wishes, start
<1> HIDE DEF done
<1>5. ASSUME NEW i \in 0 .. Len(wishes)
      PROVE  done[i] = IF i = 0 THEN start ELSE TakeChange(done[i - 1], wishes[i])
  BY <1>3
<1> DEFINE U == {n \in 0 .. Len(wishes) : done[n] \notin Good}
<1>6. U = {}
  <2> SUFFICES ASSUME U # {} PROVE FALSE
    OBVIOUS
  <2>1. U \subseteq Nat
    BY <1>1
  <2>2. PICK n \in U : \A m \in U : n <= m
    <3> HIDE DEF U
    <3> QED
      BY <2>1, LeastNatural
  <2>3. n \in 0 .. Len(wishes) /\ done[n] \notin Good
    BY <2>2
  <2>4. n # 0
    BY <1>5, <2>3 DEF start
  <2>5. done[n - 1] \in Good
    BY <1>1, <2>2, <2>3, <2>4
  <2>6. done[n] = TakeChange(done[n - 1], wishes[n]) /\ wishes[n] \in Wish
    BY <1>1, <1>5, <2>3, <2>4
  <2> QED
    BY <2>3, <2>5, <2>6
<1> QED
  BY <1>1, <1>4, <1>6

\* A change leaves rows and values of their types.
LEMMA ChangeIsTyped ==
    ASSUME NEW done \in TuneProgress, NEW wish \in Wish
    PROVE  TakeChange(done, wish) \in TuneProgress
<1> DEFINE new == [key |-> wish.key, value |-> wish.value, previous |-> done.seen[wish.key]]
<1>1. CASE TakeChange(done, wish) = done
  BY <1>1
<1>2. CASE TakeChange(done, wish) # done
  <2>1. InRange(wish.value) /\ done.seen[wish.key] # wish.value
    BY <1>2 DEF TakeChange
  <2>2. wish.key \in TuneKeys /\ wish.value \in TuneValues /\ done.seen \in [TuneKeys -> TuneValues]
    BY <2>1 DEF Wish, InRange, TuneValues, TuneProgress
  <2>3. new \in TuneRow /\ done.rows \in Seq(TuneRow)
    BY <2>2 DEF TuneRow, TuneProgress
  <2>4. TakeChange(done, wish) = [rows |-> Append(done.rows, new),
                                  seen |-> [done.seen EXCEPT ![wish.key] = wish.value]]
    BY <2>1 DEF TakeChange
  <2> HIDE DEF new
  <2>5. Append(done.rows, new) \in Seq(TuneRow)
    BY <2>3, AppendProperties
  <2>6. [done.seen EXCEPT ![wish.key] = wish.value] \in [TuneKeys -> TuneValues]
    BY <2>2
  <2> QED
    BY <2>4, <2>5, <2>6 DEF TuneProgress
<1> QED
  BY <1>1, <1>2

\* What the loop has made of the rows that were there: their chain goes on, what it
\* sees are the newest values, and it sees others only where it adds a row.
Taken(old, first) ==
    {done \in TuneProgress :
       /\ Chained(old \o done.rows)
       /\ \A k \in TuneKeys :
            /\ NewestRow(old \o done.rows, k).value = done.seen[k]
            /\ (\A i \in DOMAIN done.rows : done.rows[i].key # k) => done.seen[k] = first[k]}

\* Rows that are added leave every parameter one.
LEMMA StillHasAll ==
    ASSUME NEW old \in Seq(TuneRow), HasAll(old), NEW added \in Seq(TuneRow)
    PROVE  HasAll(old \o added) /\ old \o added \in Seq(TuneRow)
<1>1. /\ Len(old) \in Nat /\ DOMAIN old = 1 .. Len(old) /\ Len(added) \in Nat
      /\ old \o added \in Seq(TuneRow) /\ Len(old \o added) = Len(old) + Len(added)
      /\ DOMAIN (old \o added) = 1 .. Len(old) + Len(added)
      /\ \A i \in 1 .. Len(old) : (old \o added)[i] = old[i]
  BY LenProperties, ConcatProperties
<1>2. ASSUME NEW k \in TuneKeys PROVE \E i \in DOMAIN (old \o added) : (old \o added)[i].key = k
  <2>1. PICK i \in DOMAIN old : old[i].key = k
    BY DEF HasAll
  <2>2. i \in DOMAIN (old \o added) /\ (old \o added)[i] = old[i]
    BY <1>1
  <2> QED
    BY <2>1, <2>2
<1> QED
  BY <1>1, <1>2 DEF HasAll

\* A change carries on what the loop has made.
LEMMA ChangeIsTaken ==
    ASSUME NEW old \in Seq(TuneRow), HasAll(old), NEW first,
           NEW done \in Taken(old, first), NEW wish \in Wish
    PROVE  TakeChange(done, wish) \in Taken(old, first)
<1> DEFINE new == [key |-> wish.key, value |-> wish.value, previous |-> done.seen[wish.key]]
           hist == old \o done.rows
           then == TakeChange(done, wish)
<1>1. CASE then = done
  BY <1>1
<1>2. CASE then # done
  <2>1. InRange(wish.value) /\ done.seen[wish.key] # wish.value
    BY <1>2 DEF TakeChange
  <2>2. /\ wish.key \in TuneKeys /\ wish.value \in TuneValues
        /\ done.seen \in [TuneKeys -> TuneValues] /\ done.rows \in Seq(TuneRow)
    BY <2>1 DEF Wish, InRange, TuneValues, TuneProgress, Taken
  <2>3. new \in TuneRow /\ new.key = wish.key /\ new.value = wish.value
        /\ new.previous = done.seen[wish.key]
    BY <2>2 DEF TuneRow
  <2>4. /\ then.rows = Append(done.rows, new)
        /\ then.seen = [done.seen EXCEPT ![wish.key] = wish.value]
    BY <2>1 DEF TakeChange
  <2>5. then \in TuneProgress
    BY ChangeIsTyped DEF Taken
  <2>6. hist \in Seq(TuneRow) /\ HasAll(hist)
    BY <2>2, StillHasAll
  <2> HIDE DEF new, then
  <2>7. old \o then.rows = Append(hist, new)
    <3>1. <<new>> \in Seq(TuneRow)
      BY <2>3
    <3>2. Append(done.rows, new) = done.rows \o <<new>>
      BY <2>2, <2>3, AppendIsConcat
    <3>3. Append(hist, new) = hist \o <<new>>
      BY <2>3, <2>6, AppendIsConcat
    <3> DEFINE one == <<new>>
               added == done.rows
    <3>4. one \in Seq(TuneRow) /\ added \in Seq(TuneRow)
      BY <2>2, <3>1
    <3> HIDE DEF one, added
    <3>5. (old \o added) \o one = old \o (added \o one)
      BY <3>4, ConcatAssociative
    <3> QED
      BY <2>4, <3>2, <3>3, <3>5 DEF one, added, hist
  <2>8. Chained(hist) /\ \A k \in TuneKeys : NewestRow(hist, k).value = done.seen[k]
    BY DEF Taken
  <2> HIDE DEF hist
  <2>9. Chained(Append(hist, new))
    BY <2>1, <2>2, <2>3, <2>6, <2>8, AppendedIsChained
  <2>10. ASSUME NEW k \in TuneKeys PROVE NewestRow(Append(hist, new), k).value = then.seen[k]
    <3>1. NewestRow(Append(hist, new), k) = IF k = new.key THEN new ELSE NewestRow(hist, k)
      BY <2>3, <2>6, AppendedIsNewest
    <3> QED
      BY <2>2, <2>3, <2>4, <2>8, <3>1
  <2>11. ASSUME NEW k \in TuneKeys, \A i \in DOMAIN then.rows : then.rows[i].key # k
         PROVE  then.seen[k] = first[k]
    <3>1. /\ DOMAIN done.rows = 1 .. Len(done.rows) /\ Len(done.rows) \in Nat
          /\ DOMAIN then.rows = 1 .. Len(done.rows) + 1
          /\ \A i \in 1 .. Len(done.rows) : then.rows[i] = done.rows[i]
          /\ then.rows[Len(done.rows) + 1] = new
      BY <2>2, <2>3, <2>4, LenProperties, AppendProperties
    <3>2. k # wish.key
      BY <2>3, <2>11, <3>1
    <3>3. \A i \in DOMAIN done.rows : done.rows[i].key # k
      BY <2>11, <3>1
    <3>4. done.seen[k] = first[k]
      BY <3>3 DEF Taken
    <3> QED
      BY <2>2, <2>4, <3>2, <3>4
  <2> QED
    BY <2>5, <2>7, <2>9, <2>10, <2>11 DEF Taken, then
<1> QED
  BY <1>1, <1>2

\* One request at a time, which has seen the newest values until it has others to make.
OneTunes == \A r, q \in Tuners : tuners[r].at # "idle" /\ tuners[q].at # "idle" => r = q
SeesNewest == \A r \in Tuners :
    tuners[r].at \in {"read", "saved", "configured"} => tuners[r].seen = LatestTuning
\* A parameter is in use with its newest value, or a request will bring it there.
ServedOrComing == \A k \in ServerKeys :
    \/ served[k] = LatestTuning[k]
    \/ \E r \in Tuners : \/ tuners[r].at = "saved" /\ k \in tuners[r].changed
                         \/ tuners[r].at \in {"reloaded", "configured"}
LoadedOrComing == \A k \in AppKeys :
    \/ inMemory[k] = IF reloaded THEN LatestTuning[k] ELSE EnvValue
    \/ reloaded /\ \E r \in Tuners : tuners[r].at = "saved" /\ k \in tuners[r].changed
TunedInOrder == /\ OneTunes /\ SeesNewest /\ Chained(tuneRows)
                /\ ServedOrComing /\ LoadedOrComing
TuningInv == TuningShape /\ (alone => TunedInOrder)

\* SetToSeq lists a finite set, each element once.
LEMMA SetIsListed ==
    ASSUME NEW S, IsFiniteSet(S)
    PROVE  /\ Cardinality(S) \in Nat /\ SetToSeq(S) \in Seq(S)
           /\ DOMAIN SetToSeq(S) = 1 .. Cardinality(S)
           /\ \A i, j \in DOMAIN SetToSeq(S) : SetToSeq(S)[i] = SetToSeq(S)[j] => i = j
           /\ \A x \in S : \E i \in DOMAIN SetToSeq(S) : SetToSeq(S)[i] = x
<1> DEFINE n == Cardinality(S)
           list == SetToSeq(S)
<1>1. n \in Nat
  BY FS_CardinalityType
<1>2. PICK m \in Nat : ExistsBijection(1 .. m, S)
  BY FS_NatBijection
<1>3. m = n
  BY <1>2, FS_CountingElements
<1>4. \E f \in [1 .. n -> S] : IsInjective(f)
  BY <1>2, <1>3 DEF ExistsBijection, Bijection, Injection
<1>5. list \in [1 .. n -> S] /\ IsInjective(list)
  BY <1>4 DEF SetToSeq
<1> HIDE DEF list
<1>6. IsFiniteSet(1 .. n) /\ Cardinality(1 .. n) = n
  BY <1>1, FS_Interval
<1>7. list \in Injection(1 .. n, S)
  BY <1>5 DEF Injection
<1>8. list \in Surjection(1 .. n, S)
  BY <1>6, <1>7, FS_Injection
<1>9. list \in Seq(S)
  BY <1>1, <1>5
<1>10. \A i, j \in DOMAIN list : list[i] = list[j] => i = j
  BY <1>5 DEF IsInjective
<1>11. \A x \in S : \E i \in DOMAIN list : list[i] = x
  BY <1>5, <1>8 DEF Surjection
<1> QED
  BY <1>1, <1>5, <1>9, <1>10, <1>11 DEF list

LEMMA TuneKeysListed == IsFiniteSet(TuneKeys)
BY TuningAssumption, FS_Union DEF TuneKeys

\* The newest values are values.
LEMMA LatestIsTyped ==
    ASSUME tuneRows \in Seq(TuneRow), HasAll(tuneRows)
    PROVE  LatestTuning \in [TuneKeys -> TuneValues]
<1> SUFFICES ASSUME NEW k \in TuneKeys PROVE NewestRow(tuneRows, k).value \in TuneValues
  BY DEF LatestTuning
<1>1. PICK i \in DOMAIN tuneRows : NewestRow(tuneRows, k) = tuneRows[i]
  BY NewestIsThere DEF HasAll
<1>2. tuneRows[i] \in TuneRow
  BY LenProperties
<1> QED
  BY <1>1, <1>2 DEF TuneRow

\* There is a row of each parameter to begin with.
LEMMA TuningStart == TuningInit => TuningInv
<1> SUFFICES ASSUME TuningInit PROVE TuningInv
  OBVIOUS
<1> DEFINE list == SetToSeq(TuneKeys)
           new(k) == [key |-> k, value |-> TuneDefault, previous |-> None]
<1>1. /\ list \in Seq(TuneKeys) /\ DOMAIN list = 1 .. Len(list) /\ Len(list) \in Nat
      /\ \A i, j \in DOMAIN list : list[i] = list[j] => i = j
      /\ \A k \in TuneKeys : \E i \in DOMAIN list : list[i] = k
  BY TuneKeysListed, SetIsListed, LenProperties
<1>2. tuneRows = [i \in DOMAIN list |-> new(list[i])]
  BY DEF TuningInit
<1>3. TuneDefault \in TuneValues /\ EnvValue \in TuneValues
  BY TuningAssumption DEF TuneDefault, TuneValues
<1> HIDE DEF list
<1>4. \A i \in DOMAIN list : list[i] \in TuneKeys /\ tuneRows[i] = new(list[i])
  BY <1>1, <1>2
<1>5. \A k \in TuneKeys : new(k) \in TuneRow /\ new(k).key = k /\ new(k).value = TuneDefault
  BY <1>3 DEF TuneRow
<1> HIDE DEF new
<1>6. /\ DOMAIN tuneRows = 1 .. Len(list)
      /\ \A i \in 1 .. Len(list) : tuneRows[i] \in TuneRow /\ tuneRows[i].key = list[i]
                                   /\ tuneRows[i].value = TuneDefault
  BY <1>1, <1>2, <1>4, <1>5
<1>7. tuneRows \in Seq(TuneRow)
  <2>1. tuneRows \in [1 .. Len(list) -> TuneRow]
    BY <1>1, <1>2, <1>6
  <2> QED
    BY <1>1, <2>1
<1>8. HasAll(tuneRows)
  BY <1>1, <1>6 DEF HasAll
<1>9. Chained(tuneRows)
  BY <1>1, <1>6 DEF Chained
<1>10. LatestTuning = [k \in TuneKeys |-> TuneDefault]
  <2>1. ASSUME NEW k \in TuneKeys PROVE NewestRow(tuneRows, k).value = TuneDefault
    <3>1. PICK i \in DOMAIN tuneRows : NewestRow(tuneRows, k) = tuneRows[i]
      BY <1>7, <1>8, NewestIsThere DEF HasAll
    <3> QED
      BY <1>6, <3>1
  <2> QED
    BY <2>1 DEF LatestTuning
<1>11. /\ inMemory = [k \in AppKeys |-> EnvValue] /\ served = [k \in ServerKeys |-> TuneDefault]
       /\ tuners = [r \in Tuners |-> NotTuning] /\ reloaded = FALSE /\ alone \in BOOLEAN
  BY DEF TuningInit
<1>12. NotTuning \in TunerState /\ NotTuning.at = "idle"
  BY DEF NotTuning, TunerState
<1>13. TuningShape
  BY <1>3, <1>7, <1>8, <1>11, <1>12 DEF TuningShape
<1>14. ServerKeys \subseteq TuneKeys
  BY DEF TuneKeys
<1>15. OneTunes /\ SeesNewest
  BY <1>11, <1>12 DEF OneTunes, SeesNewest
<1>16. ServedOrComing /\ LoadedOrComing
  BY <1>10, <1>11, <1>14 DEF ServedOrComing, LoadedOrComing
<1> QED
  BY <1>9, <1>13, <1>15, <1>16 DEF TuningInv, TunedInOrder

\* A request asks for changes.
LEMMA AskTuningStep ==
    ASSUME TuningInv, NEW r \in Tuners, NEW wishes \in Seq(Wish), AskTuning(r, wishes)
    PROVE  TuningInv'
<1> DEFINE asked == [at |-> "read", wishes |-> wishes, seen |-> LatestTuning, changed |-> {}]
<1>1. /\ TunerOpens(r) /\ tuners[r].at = "idle" /\ tuners' = [tuners EXCEPT ![r] = asked]
      /\ UNCHANGED <<tuneRows, inMemory, served, reloaded, alone>>
  BY DEF AskTuning, TunerOpens
<1>2. LatestTuning' = LatestTuning
  BY <1>1 DEF LatestTuning
<1>3. LatestTuning \in [TuneKeys -> TuneValues] /\ tuners \in [Tuners -> TunerState]
  BY LatestIsTyped DEF TuningInv, TuningShape
<1>4. asked \in TunerState /\ asked.at = "read" /\ asked.seen = LatestTuning
  BY <1>3 DEF TunerState
<1> HIDE DEF asked
<1>5. tuners'[r] = asked /\ \A q \in Tuners : q # r => tuners'[q] = tuners[q]
  BY <1>1, <1>3
<1>6. TuningShape'
  BY <1>1, <1>3, <1>4, <1>5 DEF TuningInv, TuningShape, HasAll
<1>7. ASSUME alone' PROVE TunedInOrder'
  <2>1. TunedInOrder /\ \A q \in Tuners : tuners[q].at = "idle"
    BY <1>1, <1>7 DEF TuningInv, TunerOpens
  <2>2. OneTunes'
    BY <1>5, <2>1 DEF OneTunes
  <2>3. SeesNewest'
    BY <1>2, <1>4, <1>5, <2>1 DEF SeesNewest
  <2>4. Chained(tuneRows)'
    BY <1>1, <2>1 DEF TunedInOrder, Chained
  <2>5. ServedOrComing' /\ LoadedOrComing'
    BY <1>1, <1>2, <2>1 DEF TunedInOrder, ServedOrComing, LoadedOrComing
  <2> QED
    BY <2>2, <2>3, <2>4, <2>5 DEF TunedInOrder
<1> QED
  BY <1>6, <1>7 DEF TuningInv

\* A preset is a list of changes.
LEMMA PresetIsList ==
    ASSUME NEW v \in 1 .. TuneLimit
    PROVE  SetToSeq({[key |-> k, value |-> v] : k \in TuneKeys}) \in Seq(Wish)
<1> DEFINE S == {[key |-> k, value |-> v] : k \in TuneKeys}
           f == [k \in TuneKeys |-> [key |-> k, value |-> v]]
<1>1. f \in Surjection(TuneKeys, S)
  BY DEF Surjection
<1>2. S \subseteq Wish
  BY TuningAssumption DEF Wish
<1> HIDE DEF S, f
<1>3. IsFiniteSet(S)
  BY <1>1, TuneKeysListed, FS_Surjection
<1>4. SetToSeq(S) \in Seq(S)
  BY <1>3, SetIsListed
<1>5. Seq(S) \subseteq Seq(Wish)
  BY <1>2, SeqMonotonic
<1> QED
  BY <1>4, <1>5 DEF S

\* A request asks for the value before.
LEMMA AskRollbackStep ==
    ASSUME TuningInv, NEW r \in Tuners, NEW k \in TuneKeys, AskRollback(r, k)
    PROVE  TuningInv'
<1> DEFINE previous == NewestRow(tuneRows, k).previous
           asked == [at |-> "back", wishes |-> <<[key |-> k, value |-> previous]>>,
                     seen |-> <<>>, changed |-> {}]
<1>1. /\ TunerOpens(r) /\ tuners[r].at = "idle" /\ previous # None
      /\ tuners' = [tuners EXCEPT ![r] = asked]
      /\ UNCHANGED <<tuneRows, inMemory, served, reloaded, alone>>
  BY DEF AskRollback, TunerOpens
<1>2. LatestTuning' = LatestTuning
  BY <1>1 DEF LatestTuning
<1>3. tuneRows \in Seq(TuneRow) /\ HasAll(tuneRows) /\ tuners \in [Tuners -> TunerState]
  BY DEF TuningInv, TuningShape
<1>4. previous \in Nat
  <2>1. PICK i \in DOMAIN tuneRows : NewestRow(tuneRows, k) = tuneRows[i]
    BY <1>3, NewestIsThere DEF HasAll
  <2>2. tuneRows[i] \in TuneRow
    BY <1>3, LenProperties
  <2>3. previous \in TuneValues
    BY <1>1, <2>1, <2>2 DEF TuneRow
  <2> QED
    BY <2>3, TuningAssumption DEF TuneValues
<1> HIDE DEF previous
<1>5. [key |-> k, value |-> previous] \in Wish
  BY <1>4 DEF Wish
<1>6. asked \in TunerState /\ asked.at = "back"
  BY <1>5 DEF TunerState
<1> HIDE DEF asked
<1>7. tuners'[r] = asked /\ \A q \in Tuners : q # r => tuners'[q] = tuners[q]
  BY <1>1, <1>3
<1>8. TuningShape'
  BY <1>1, <1>3, <1>6, <1>7 DEF TuningInv, TuningShape, HasAll
<1>9. ASSUME alone' PROVE TunedInOrder'
  <2>1. TunedInOrder /\ \A q \in Tuners : tuners[q].at = "idle"
    BY <1>1, <1>9 DEF TuningInv, TunerOpens
  <2>2. OneTunes'
    BY <1>7, <2>1 DEF OneTunes
  <2>3. SeesNewest'
    BY <1>2, <1>6, <1>7, <2>1 DEF SeesNewest
  <2>4. Chained(tuneRows)'
    BY <1>1, <2>1 DEF TunedInOrder, Chained
  <2>5. ServedOrComing' /\ LoadedOrComing'
    BY <1>1, <1>2, <2>1 DEF TunedInOrder, ServedOrComing, LoadedOrComing
  <2> QED
    BY <2>2, <2>3, <2>4, <2>5 DEF TunedInOrder
<1> QED
  BY <1>8, <1>9 DEF TuningInv

\* A request reads the newest rows, before its changes or before the restart.
LEMMA ReadTuningStep ==
    ASSUME TuningInv, NEW r \in Tuners, ReadAgain(r) \/ ReadConfig(r)
    PROVE  TuningInv'
<1>1. PICK at \in {"read", "configured"} :
        /\ tuners' = [tuners EXCEPT ![r].at = at, ![r].seen = LatestTuning]
        /\ tuners[r].at = IF at = "read" THEN "back" ELSE "reloaded"
  BY DEF ReadAgain, ReadConfig
<1>2. UNCHANGED <<tuneRows, inMemory, served, reloaded, alone>>
  BY DEF ReadAgain, ReadConfig
<1>3. LatestTuning' = LatestTuning
  BY <1>2 DEF LatestTuning
<1>4. LatestTuning \in [TuneKeys -> TuneValues] /\ tuners \in [Tuners -> TunerState]
  BY LatestIsTyped DEF TuningInv, TuningShape
<1>5. /\ tuners'[r] = [tuners[r] EXCEPT !.at = at, !.seen = LatestTuning]
      /\ \A q \in Tuners : q # r => tuners'[q] = tuners[q]
      /\ tuners' \in [Tuners -> TunerState]
  BY <1>1, <1>4, ZenonT(40) DEF TunerState
<1>6. tuners'[r].at = at /\ tuners'[r].seen = LatestTuning /\ tuners'[r].changed = tuners[r].changed
  BY <1>4, <1>5 DEF TunerState
<1>7. TuningShape'
  BY <1>2, <1>4, <1>5, <1>6 DEF TuningInv, TuningShape, HasAll
<1>8. ASSUME alone' PROVE TunedInOrder'
  <2>1. TunedInOrder
    BY <1>2, <1>8 DEF TuningInv
  <2>2. OneTunes'
    BY <1>1, <1>5, <2>1 DEF TunedInOrder, OneTunes
  <2>3. SeesNewest'
    BY <1>3, <1>5, <1>6, <2>1 DEF TunedInOrder, SeesNewest
  <2>4. Chained(tuneRows)'
    BY <1>2, <2>1 DEF TunedInOrder, Chained
  <2>5. ServedOrComing'
    BY <1>1, <1>2, <1>3, <1>5, <1>6, <2>1 DEF TunedInOrder, ServedOrComing
  <2>6. LoadedOrComing'
    BY <1>1, <1>2, <1>3, <1>5, <1>6, <2>1 DEF TunedInOrder, LoadedOrComing
  <2> QED
    BY <2>2, <2>3, <2>4, <2>5, <2>6 DEF TunedInOrder
<1> QED
  BY <1>7, <1>8 DEF TuningInv

\* The changes are committed.
LEMMA CommitTuningStep ==
    ASSUME TuningInv, NEW r \in Tuners, CommitTuning(r)
    PROVE  TuningInv'
<1> DEFINE done == TakenChanges(r)
           keys == {done.rows[i].key : i \in DOMAIN done.rows}
           then == IF done.rows = <<>> THEN NotTuning
                   ELSE [at |-> "saved", wishes |-> <<>>, seen |-> done.seen, changed |-> keys]
<1>1. /\ tuners[r].at = "read" /\ tuneRows' = tuneRows \o done.rows
      /\ tuners' = [tuners EXCEPT ![r] = then]
      /\ UNCHANGED <<inMemory, served, reloaded, alone>>
  BY DEF CommitTuning
<1>2. /\ tuneRows \in Seq(TuneRow) /\ HasAll(tuneRows) /\ tuners \in [Tuners -> TunerState]
      /\ tuners[r].seen \in [TuneKeys -> TuneValues] /\ tuners[r].wishes \in Seq(Wish)
  BY <1>1 DEF TuningInv, TuningShape, TunerState
<1> DEFINE begin == [rows |-> <<>>, seen |-> tuners[r].seen]
<1>3. begin \in TuneProgress /\ begin.rows = <<>> /\ begin.seen = tuners[r].seen
  BY <1>2, EmptySeq DEF TuneProgress
<1>4. done \in TuneProgress
  BY <1>2, <1>3, ListIsTaken, ChangeIsTyped
<1>5. ASSUME alone PROVE done \in Taken(tuneRows, tuners[r].seen)
  <2>1. tuneRows \o <<>> = tuneRows
    BY <1>2, ConcatEmptySeq
  <2>2. Chained(tuneRows) /\ tuners[r].seen = LatestTuning
    BY <1>1, <1>5 DEF TuningInv, TunedInOrder, SeesNewest
  <2>3. \A k \in TuneKeys : NewestRow(tuneRows, k).value = tuners[r].seen[k]
    BY <2>2 DEF LatestTuning
  <2> HIDE DEF begin
  <2>4. begin \in Taken(tuneRows, tuners[r].seen)
    BY <1>3, <2>1, <2>2, <2>3 DEF Taken
  <2>5. \A d \in Taken(tuneRows, tuners[r].seen), wish \in Wish :
           TakeChange(d, wish) \in Taken(tuneRows, tuners[r].seen)
    BY <1>2, ChangeIsTaken
  <2> QED
    BY <1>2, <2>4, <2>5, ListIsTaken DEF begin
<1> HIDE DEF done, begin
<1>6. done.rows \in Seq(TuneRow) /\ done.seen \in [TuneKeys -> TuneValues]
  BY <1>4 DEF TuneProgress
<1>7. \A i \in DOMAIN done.rows : done.rows[i].key \in TuneKeys
  <2>1. \A i \in DOMAIN done.rows : done.rows[i] \in TuneRow
    BY <1>6, LenProperties
  <2> QED
    BY <2>1 DEF TuneRow
<1>8. keys \subseteq TuneKeys
  BY <1>7
<1> HIDE DEF keys
<1>9. then \in TunerState
  BY <1>6, <1>8, EmptySeq DEF TunerState, NotTuning
<1>10. /\ then.at = IF done.rows = <<>> THEN "idle" ELSE "saved"
       /\ done.rows # <<>> => then.seen = done.seen /\ then.changed = keys
  BY DEF NotTuning
<1> HIDE DEF then
<1>11. tuners'[r] = then /\ \A q \in Tuners : q # r => tuners'[q] = tuners[q]
  BY <1>1, <1>2
<1>12. tuneRows' \in Seq(TuneRow) /\ HasAll(tuneRows')
  BY <1>1, <1>2, <1>6, StillHasAll
<1>13. TuningShape'
  BY <1>1, <1>2, <1>6, <1>9, <1>10, <1>11, <1>12, ZenonT(40) DEF TuningInv, TuningShape, HasAll
<1>14. ASSUME alone' PROVE TunedInOrder'
  <2>1. TunedInOrder /\ alone
    BY <1>1, <1>14 DEF TuningInv
  <2>2. done \in Taken(tuneRows, tuners[r].seen)
    BY <1>5, <2>1
  <2>3. \A k \in TuneKeys : NewestRow(tuneRows', k).value = done.seen[k]
    BY <1>1, <2>2 DEF Taken
  <2>4. LatestTuning' = done.seen
    BY <1>6, <2>3 DEF LatestTuning
  <2>5. tuners[r].seen = LatestTuning
    BY <1>1, <2>1 DEF TunedInOrder, SeesNewest
  <2>6. ASSUME NEW k \in TuneKeys, LatestTuning'[k] # LatestTuning[k]
        PROVE  tuners'[r].at = "saved" /\ k \in tuners'[r].changed
    <3>1. PICK i \in DOMAIN done.rows : done.rows[i].key = k
      BY <2>2, <2>4, <2>5, <2>6 DEF Taken
    <3>2. done.rows # <<>> /\ k \in keys
      BY <3>1 DEF keys
    <3> QED
      BY <1>10, <1>11, <3>2
  <2>7. OneTunes'
    BY <1>1, <1>10, <1>11, <2>1 DEF TunedInOrder, OneTunes
  <2>8. SeesNewest'
    <3> SUFFICES ASSUME NEW q \in Tuners, tuners'[q].at \in {"read", "saved", "configured"}
                 PROVE  tuners'[q].seen = LatestTuning'
      BY DEF SeesNewest
    <3>1. q = r
      BY <1>1, <1>11, <2>1 DEF TunedInOrder, OneTunes
    <3> QED
      BY <1>10, <1>11, <2>4, <3>1
  <2>9. Chained(tuneRows)'
    <3>1. Chained(tuneRows \o done.rows)
      BY <2>2 DEF Taken
    <3>2. Chained(tuneRows')
      BY <1>1, <3>1
    <3> QED
      BY <3>2 DEF Chained
  <2>10. ServedOrComing'
    <3> SUFFICES ASSUME NEW k \in ServerKeys
                 PROVE  \/ served'[k] = LatestTuning'[k]
                        \/ \E q \in Tuners : \/ tuners'[q].at = "saved" /\ k \in tuners'[q].changed
                                             \/ tuners'[q].at \in {"reloaded", "configured"}
      BY DEF ServedOrComing
    <3>1. k \in TuneKeys
      BY DEF TuneKeys
    <3>2. served[k] = LatestTuning[k]
      BY <1>1, <2>1 DEF TunedInOrder, ServedOrComing, OneTunes
    <3> QED
      BY <1>1, <2>6, <3>1, <3>2
  <2>11. LoadedOrComing'
    <3> SUFFICES ASSUME NEW k \in AppKeys
                 PROVE  \/ inMemory'[k] = IF reloaded' THEN LatestTuning'[k] ELSE EnvValue
                        \/ reloaded' /\ \E q \in Tuners :
                              tuners'[q].at = "saved" /\ k \in tuners'[q].changed
      BY DEF LoadedOrComing
    <3>1. k \in TuneKeys
      BY DEF TuneKeys
    <3>2. inMemory[k] = IF reloaded THEN LatestTuning[k] ELSE EnvValue
      BY <1>1, <2>1 DEF TunedInOrder, LoadedOrComing, OneTunes
    <3> QED
      BY <1>1, <2>6, <3>1, <3>2
  <2> QED
    BY <2>7, <2>8, <2>9, <2>10, <2>11 DEF TunedInOrder
<1> QED
  BY <1>13, <1>14 DEF TuningInv

\* The settings in memory are loaded, if one of them was changed.
LEMMA ReloadTuningStep ==
    ASSUME TuningInv, NEW r \in Tuners, ReloadTuning(r)
    PROVE  TuningInv'
<1> DEFINE then == IF tuners[r].changed \cap ServerKeys = {} THEN NotTuning
                   ELSE [tuners[r] EXCEPT !.at = "reloaded"]
<1>1. tuners[r].at = "saved" /\ UNCHANGED <<tuneRows, served, alone>>
  BY DEF ReloadTuning
<1>2. /\ tuneRows \in Seq(TuneRow) /\ HasAll(tuneRows) /\ tuners \in [Tuners -> TunerState]
      /\ tuners[r].seen \in [TuneKeys -> TuneValues] /\ AppKeys \subseteq TuneKeys
      /\ inMemory \in [AppKeys -> TuneValues] /\ reloaded \in BOOLEAN
  BY <1>1 DEF TuningInv, TuningShape, TuneKeys
<1>3. tuners' = [tuners EXCEPT ![r] = then]
  BY <1>2 DEF ReloadTuning
<1>4. \/ /\ tuners[r].changed \cap AppKeys = {} /\ UNCHANGED <<inMemory, reloaded>>
      \/ /\ inMemory' = [k \in AppKeys |-> tuners[r].seen[k]] /\ reloaded' = TRUE
  BY DEF ReloadTuning
<1>5. LatestTuning' = LatestTuning
  BY <1>1 DEF LatestTuning
<1>6. then \in TunerState
  BY <1>2, EmptySeq DEF TunerState, NotTuning
<1>7. /\ then.at = IF tuners[r].changed \cap ServerKeys = {} THEN "idle" ELSE "reloaded"
      /\ then.at = "reloaded" => then.seen = tuners[r].seen
  BY <1>2 DEF NotTuning, TunerState
<1> HIDE DEF then
<1>8. tuners'[r] = then /\ \A q \in Tuners : q # r => tuners'[q] = tuners[q]
  BY <1>2, <1>3
<1>9. inMemory' \in [AppKeys -> TuneValues] /\ reloaded' \in BOOLEAN
  BY <1>2, <1>4
<1>10. TuningShape'
  BY <1>1, <1>2, <1>3, <1>6, <1>7, <1>8, <1>9 DEF TuningInv, TuningShape, HasAll
<1>11. ASSUME alone' PROVE TunedInOrder'
  <2>1. TunedInOrder
    BY <1>1, <1>11 DEF TuningInv
  <2>2. tuners[r].seen = LatestTuning /\ \A q \in Tuners : q # r => tuners[q].at = "idle"
    BY <1>1, <2>1 DEF TunedInOrder, SeesNewest, OneTunes
  <2>3. OneTunes' /\ SeesNewest'
    BY <1>7, <1>8, <2>2 DEF OneTunes, SeesNewest
  <2>4. Chained(tuneRows)'
    BY <1>1, <2>1 DEF TunedInOrder, Chained
  <2>5. ServedOrComing'
    <3> SUFFICES ASSUME NEW k \in ServerKeys, served'[k] # LatestTuning'[k]
                 PROVE  tuners'[r].at = "reloaded"
      BY DEF ServedOrComing
    <3>1. k \in tuners[r].changed
      BY <1>1, <1>5, <2>1, <2>2 DEF TunedInOrder, ServedOrComing
    <3> QED
      BY <1>7, <1>8, <3>1
  <2>6. LoadedOrComing'
    <3> SUFFICES ASSUME NEW k \in AppKeys
                 PROVE  inMemory'[k] = IF reloaded' THEN LatestTuning'[k] ELSE EnvValue
      BY DEF LoadedOrComing
    <3>1. CASE tuners[r].changed \cap AppKeys = {} /\ UNCHANGED <<inMemory, reloaded>>
      BY <1>5, <2>1, <2>2, <3>1 DEF TunedInOrder, LoadedOrComing
    <3>2. CASE inMemory' = [l \in AppKeys |-> tuners[r].seen[l]] /\ reloaded' = TRUE
      BY <1>5, <2>2, <3>2
    <3> QED
      BY <1>4, <3>1, <3>2
  <2> QED
    BY <2>3, <2>4, <2>5, <2>6 DEF TunedInOrder
<1> QED
  BY <1>10, <1>11 DEF TuningInv

\* The server restarts with the file that was made from the newest rows.
LEMMA RestartTunedStep ==
    ASSUME TuningInv, NEW r \in Tuners, RestartTuned(r)
    PROVE  TuningInv'
<1>1. /\ tuners[r].at = "configured" /\ tuners' = [tuners EXCEPT ![r] = NotTuning]
      /\ served' = [k \in ServerKeys |-> tuners[r].seen[k]]
      /\ UNCHANGED <<tuneRows, inMemory, reloaded, alone>>
  BY DEF RestartTuned
<1>2. /\ tuners \in [Tuners -> TunerState] /\ ServerKeys \subseteq TuneKeys
      /\ tuners[r].seen \in [TuneKeys -> TuneValues]
  BY <1>1 DEF TuningInv, TuningShape, TuneKeys
<1>3. LatestTuning' = LatestTuning
  BY <1>1 DEF LatestTuning
<1>4. NotTuning \in TunerState /\ NotTuning.at = "idle"
  BY DEF NotTuning, TunerState
<1>5. tuners'[r] = NotTuning /\ \A q \in Tuners : q # r => tuners'[q] = tuners[q]
  BY <1>1, <1>2
<1>6. TuningShape'
  BY <1>1, <1>2, <1>4, <1>5 DEF TuningInv, TuningShape, HasAll
<1>7. ASSUME alone' PROVE TunedInOrder'
  <2>1. TunedInOrder
    BY <1>1, <1>7 DEF TuningInv
  <2>2. tuners[r].seen = LatestTuning /\ \A q \in Tuners : q # r => tuners[q].at = "idle"
    BY <1>1, <2>1 DEF TunedInOrder, SeesNewest, OneTunes
  <2>3. OneTunes' /\ SeesNewest'
    BY <1>4, <1>5, <2>2 DEF OneTunes, SeesNewest
  <2>4. Chained(tuneRows)'
    BY <1>1, <2>1 DEF TunedInOrder, Chained
  <2>5. ServedOrComing'
    BY <1>1, <1>3, <2>2 DEF ServedOrComing
  <2>6. LoadedOrComing'
    BY <1>1, <1>3, <2>1, <2>2 DEF TunedInOrder, LoadedOrComing
  <2> QED
    BY <2>3, <2>4, <2>5, <2>6 DEF TunedInOrder
<1> QED
  BY <1>6, <1>7 DEF TuningInv

\* CodeAsk starts anew.
LEMMA StartAnewStep == TuningInv /\ StartAnew => TuningInv'
<1> SUFFICES ASSUME TuningInv, StartAnew PROVE TuningInv'
  OBVIOUS
<1>1. /\ tuners' = [r \in Tuners |-> NotTuning] /\ inMemory' = [k \in AppKeys |-> EnvValue]
      /\ served' = [k \in ServerKeys |-> LatestTuning[k]] /\ reloaded' = FALSE
      /\ UNCHANGED <<tuneRows, alone>>
  BY DEF StartAnew
<1>2. LatestTuning \in [TuneKeys -> TuneValues] /\ ServerKeys \subseteq TuneKeys
  BY LatestIsTyped DEF TuningInv, TuningShape, TuneKeys
<1>3. LatestTuning' = LatestTuning
  BY <1>1 DEF LatestTuning
<1>4. NotTuning \in TunerState /\ NotTuning.at = "idle" /\ EnvValue \in TuneValues
  BY TuningAssumption DEF NotTuning, TunerState, TuneValues
<1>5. TuningShape'
  BY <1>1, <1>2, <1>4 DEF TuningInv, TuningShape, HasAll
<1>6. ASSUME alone' PROVE TunedInOrder'
  <2>1. TunedInOrder
    BY <1>1, <1>6 DEF TuningInv
  <2>2. OneTunes' /\ SeesNewest'
    BY <1>1, <1>4 DEF OneTunes, SeesNewest
  <2>3. Chained(tuneRows)'
    BY <1>1, <2>1 DEF TunedInOrder, Chained
  <2>4. ServedOrComing' /\ LoadedOrComing'
    BY <1>1, <1>3 DEF ServedOrComing, LoadedOrComing
  <2> QED
    BY <2>2, <2>3, <2>4 DEF TunedInOrder
<1> QED
  BY <1>5, <1>6 DEF TuningInv

\* Every step of a request and of CodeAsk keeps the invariant of the parameters.
LEMMA TuningStep == TuningInv /\ [TuningNext]_tuningVars => TuningInv'
<1> SUFFICES ASSUME TuningInv, [TuningNext]_tuningVars PROVE TuningInv'
  OBVIOUS
<1>1. CASE TuningNext
  <2>1. ASSUME NEW r \in Tuners, NEW wishes \in Wishes, AskTuning(r, wishes) PROVE TuningInv'
    <3>1. wishes \in Seq(Wish)
      BY TuningAssumption DEF Wish, TuneKeys
    <3> QED
      BY <2>1, <3>1, AskTuningStep
  <2>2. ASSUME NEW r \in Tuners, NEW v \in 1 .. TuneLimit, AskPreset(r, v) PROVE TuningInv'
    BY <2>2, PresetIsList, AskTuningStep DEF AskPreset
  <2> QED
    BY <1>1, <2>1, <2>2, AskRollbackStep, ReadTuningStep, CommitTuningStep, ReloadTuningStep,
       RestartTunedStep, StartAnewStep DEF TuningNext
<1>2. CASE UNCHANGED tuningVars
  <2>1. UNCHANGED <<tuneRows, inMemory, served, tuners, reloaded, alone>>
    BY <1>2 DEF tuningVars
  <2>2. LatestTuning' = LatestTuning
    BY <2>1 DEF LatestTuning
  <2>3. TuningShape'
    BY <2>1 DEF TuningInv, TuningShape, HasAll
  <2>4. ASSUME alone' PROVE TunedInOrder'
    BY <2>1, <2>2, <2>4 DEF TuningInv, TunedInOrder, OneTunes, SeesNewest, Chained,
                            ServedOrComing, LoadedOrComing
  <2> QED
    BY <2>3, <2>4 DEF TuningInv
<1> QED
  BY <1>1, <1>2

\* A step of the platform is one of the parameters, where they are the part, or none.
LEMMA TuningPart ==
    ASSUME [PlatformNext]_platform
    PROVE  part' = part /\ (part = "tuning" => [TuningNext]_tuningVars)
BY DEF PlatformNext, platform, tuningVars

\* The history of each parameter is a chain, the server and, once one was reloaded,
\* the settings in memory have the newest values whenever nobody is at it, also
\* after a crash (TuningIsSound; _apply_tuning_changes and _reload_codeask_tuning).
THEOREM TuningStaysSound == PlatformSpec => []TuningIsSound
<1> DEFINE I == part = "tuning" => TuningInv
<1>1. PlatformInit => I
  BY TuningStart DEF PlatformInit
<1>2. I /\ [PlatformNext]_platform => I'
  BY TuningPart, TuningStep
<1>3. I => TuningIsSound
  <2> SUFFICES ASSUME TuningInv PROVE HistoryIsChain /\ ServerRunsNewest /\ ReloadedIsNewest
    BY DEF TuningIsSound
  <2>1. HistoryIsChain
    BY DEF TuningInv, TunedInOrder, Chained, HistoryIsChain
  <2>2. ServerRunsNewest /\ ReloadedIsNewest
    BY DEF TuningInv, TunedInOrder, ServedOrComing, LoadedOrComing, ServerRunsNewest,
           ReloadedIsNewest
  <2> QED
    BY <2>1, <2>2
<1> QED
  BY <1>1, <1>2, <1>3, PTL DEF PlatformSpec
=============================================================================
