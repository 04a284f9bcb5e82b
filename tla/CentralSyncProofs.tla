------------------------- MODULE CentralSyncProofs -------------------------
(***************************************************************************)
(* Theorems about CentralSync, for every number of clients, connections,   *)
(* changes, crashes and failed flushes.                                    *)
(*                                                                         *)
(* IInv serves the safety properties that hold under all faults and the    *)
(* refinement of CausalDocs. SeqInv and ObservedInv say what holds besides *)
(* while faults are limited: that nothing is forgotten when no flush fails *)
(* or no process crashes, and that snapshots are the documents when no     *)
(* flush fails. WakeIInv says that no end of a connection sleeps over a    *)
(* change it has not announced: where both ends have come to rest, their   *)
(* documents are equal.                                                    *)
(***************************************************************************)
EXTENDS CentralSync, FiniteSetTheorems, TLAPS

USE DEF Replica, Change

-----------------------------------------------------------------------------
(* Type correctness.                                                        *)

\* The helpers of the sync protocol map their types to their types.
LEMMA SyncTypes ==
    ASSUME NEW st \in SyncRecord, NEW doc \in SUBSET Change
    PROVE  /\ SyncMsg(st, doc) \in Message
           /\ Generated(st, doc) \in SyncRecord
           /\ \A m \in Message : Received(st, doc, m) \in SyncRecord
BY DEF SyncRecord, Message, SyncMsg, Missing, Generated, Received

LEMMA NewSyncType == NewSync \in SyncRecord /\ HelloMsg \in Message
BY DEF NewSync, SyncRecord, HelloMsg, Message

LEMMA ReceivedTheirs ==
    ASSUME NEW st \in SyncRecord, NEW doc, NEW m
    PROVE  Received(st, doc, m).theirs = m.heads
BY DEF SyncRecord, Received

LEMMA GeneratedTheirs ==
    ASSUME NEW st \in SyncRecord, NEW doc
    PROVE  Generated(st, doc).theirs = st.theirs
BY DEF SyncRecord, Generated

\* A client owns every connection, and is a replica.
LEMMA Owners == Server \in Replica /\ \A k \in Conn : Owner[k] \in Client /\ Owner[k] \in Replica
BY ConstantsAssumption DEF Conn, Owner

LEMMA BroadcastType ==
    ASSUME NEW K, NEW msg \in {"doc", "presence"}, Broadcast(msg, K),
           notif \in [Conn -> Seq({"doc", "presence"})], lagged \in [Conn -> BOOLEAN]
    PROVE  notif' \in [Conn -> Seq({"doc", "presence"})] /\ lagged' \in [Conn -> BOOLEAN]
<1>1. ASSUME NEW k \in Conn
      PROVE  (IF k \notin K THEN <<>>
              ELSE IF Len(notif[k]) < Capacity THEN Append(notif[k], msg)
              ELSE Append(Tail(notif[k]), msg)) \in Seq({"doc", "presence"})
  <2>1. notif[k] \in Seq({"doc", "presence"}) OBVIOUS
  <2>2. CASE Len(notif[k]) < Capacity BY <2>1, <2>2
  <2>3. CASE ~(Len(notif[k]) < Capacity)
    <3>1. Len(notif[k]) # 0 BY <2>1, <2>3, ConstantsAssumption
    <3>2. QED BY <2>1, <3>1, <2>3
  <2>4. QED BY <2>2, <2>3
<1>2. QED BY <1>1 DEF Broadcast

\* Writing a change.
LEMMA AddChangeType ==
    ASSUME DocTypes, NEW r \in Replica, AddChange(r)
    PROVE  /\ made' \in 0..MaxChanges /\ info' \in [Change -> ChangeInfo]
           /\ mem' \in [Replica -> SUBSET Change] /\ NextChange \in Change
<1> DEFINE mine == {c \in mem[r] : info[c].author = r}
<1>1. NextChange \in Change
  BY ConstantsAssumption DEF AddChange, DocTypes, NextChange
<1>2. Cardinality(mine) + 1 \in Nat
  <2>1. IsFiniteSet(Change) BY FS_Interval, ConstantsAssumption
  <2>2. mine \subseteq Change BY DEF DocTypes
  <2>3. IsFiniteSet(mine) BY <2>1, <2>2, FS_Subset
  <2>4. QED BY <2>3, FS_CardinalityType
<1>3. [author |-> r, seq |-> Cardinality(mine) + 1, past |-> mem[r]] \in ChangeInfo
  BY <1>2 DEF ChangeInfo, DocTypes
<1>4. QED BY <1>1, <1>3, ConstantsAssumption DEF AddChange, DocTypes, NextChange

LEMMA PutType ==
    ASSUME DocTypes, NEW r \in Replica, PutFlushed(r) \/ PutUnflushed(r)
    PROVE  DocTypes'
<1>1. AddChange(r) BY DEF PutFlushed, PutUnflushed
<1>2. /\ made' \in 0..MaxChanges /\ info' \in [Change -> ChangeInfo]
      /\ mem' \in [Replica -> SUBSET Change] /\ NextChange \in Change
  BY <1>1, AddChangeType
<1>3. CASE PutFlushed(r) BY <1>2, <1>3 DEF PutFlushed, DocTypes
<1>4. CASE PutUnflushed(r)
  BY <1>2, <1>4, ConstantsAssumption DEF PutUnflushed, FlushFails, DocTypes
<1>5. QED BY <1>3, <1>4

\* Applying a frame, whether or not the flush succeeds.
LEMMA ApplyType ==
    ASSUME DocTypes, NEW r \in Replica, NEW m \in Message,
           ApplyFlushed(r, m) \/ ApplyUnflushed(r, m) \/ ApplyRejected(r, m)
    PROVE  DocTypes'
<1>1. mem' \in [Replica -> SUBSET Change]
  BY DEF ApplyFlushed, ApplyUnflushed, ApplyRejected, docVars, DocTypes, Message
<1>2. CASE ApplyFlushed(r, m) BY <1>1, <1>2 DEF ApplyFlushed, DocTypes
<1>3. CASE ApplyUnflushed(r, m)
  BY <1>1, <1>3, ConstantsAssumption DEF ApplyUnflushed, FlushFails, DocTypes
<1>4. CASE ApplyRejected(r, m) BY <1>4 DEF ApplyRejected, docVars, DocTypes
<1>5. QED BY <1>2, <1>3, <1>4

LEMMA CloseTypes ==
    ASSUME ConnTypes, NEW K \in SUBSET Conn
    PROVE  /\ CloseClients(K) =>
                /\ cend' \in [Conn -> {"idle", "hello", "loop", "pump", "closed"}]
                /\ cst' \in [Conn -> SyncRecord] /\ down' \in [Conn -> Seq(Message)]
                /\ wake' \in [Conn -> BOOLEAN]
           /\ CloseServers(K) =>
                /\ send' \in [Conn -> {"idle", "hello", "gap", "closed"} \cup Looping]
                /\ sst' \in [Conn -> SyncRecord] /\ up' \in [Conn -> Seq(Message)]
<1>1. <<>> \in Seq(Message)
  OBVIOUS
<1>2. ASSUME CloseClients(K) PROVE wake' \in [Conn -> BOOLEAN]
  <2>1. \A k \in Conn : (wake[k] /\ k \notin K) \in BOOLEAN OBVIOUS
  <2>2. QED BY <1>2, <2>1, Zenon DEF CloseClients
<1>3. ASSUME CloseClients(K)
      PROVE  /\ cend' \in [Conn -> {"idle", "hello", "loop", "pump", "closed"}]
             /\ cst' \in [Conn -> SyncRecord] /\ down' \in [Conn -> Seq(Message)]
  BY <1>1, <1>3, NewSyncType DEF CloseClients, ConnTypes
<1>4. ASSUME CloseServers(K)
      PROVE  /\ send' \in [Conn -> {"idle", "hello", "gap", "closed"} \cup Looping]
             /\ sst' \in [Conn -> SyncRecord] /\ up' \in [Conn -> Seq(Message)]
  BY <1>1, <1>4, NewSyncType DEF CloseServers, ConnTypes
<1>5. QED BY <1>2, <1>3, <1>4

LEMMA SendTypes ==
    ASSUME ConnTypes, NEW k \in Conn
    PROVE  /\ \A m \in Message : SendUp(k, m) => up' \in [Conn -> Seq(Message)]
           /\ \A ms \in Seq(Message) : SendDown(k, ms) => down' \in [Conn -> Seq(Message)]
<1>1. ASSUME NEW m \in Message, SendUp(k, m) PROVE up' \in [Conn -> Seq(Message)]
  <2>1. Append(up[k], m) \in Seq(Message) BY DEF ConnTypes
  <2>2. QED BY <1>1, <2>1 DEF SendUp, ConnTypes
<1>2. ASSUME NEW ms \in Seq(Message), SendDown(k, ms) PROVE down' \in [Conn -> Seq(Message)]
  <2>1. down[k] \o ms \in Seq(Message) BY DEF ConnTypes
  <2>2. QED BY <1>2, <2>1 DEF SendDown, ConnTypes
<1>3. QED BY <1>1, <1>2

\* Every step spends what the budget still has.
LEMMA BudgetStep == TypeOK /\ [Next]_vars => budget' \in Budget
<1> SUFFICES ASSUME TypeOK, [Next]_vars PROVE budget' \in Budget
  OBVIOUS
<1>1. budget \in Budget BY DEF TypeOK
<1>2. ASSUME NEW r \in Replica, PutFlushed(r) \/ PutUnflushed(r) PROVE budget' \in Budget
  <2>1. budget.writes[r] \in Nat /\ budget.writes[r] > 0 /\ budget.writes \in [Replica -> Nat]
    BY <1>1, <1>2 DEF PutFlushed, PutUnflushed, AddChange, Budget
  <2>2. [budget.writes EXCEPT ![r] = @ - 1] \in [Replica -> Nat] BY <2>1
  <2>3. CASE PutFlushed(r) BY <1>1, <2>2, <2>3 DEF PutFlushed, Budget
  <2>4. CASE PutUnflushed(r)
    <3>1. budget.failures \in Nat /\ budget.failures > 0
      BY <1>1, <2>4 DEF PutUnflushed, FlushFails, Budget
    <3>2. budget.failures - 1 \in Nat BY <3>1
    <3>3. QED BY <1>1, <2>2, <2>4, <3>2 DEF PutUnflushed, Budget
  <2>5. QED BY <1>2, <2>3, <2>4
<1>3. ASSUME NEW r \in Replica, NEW m,
             ApplyFlushed(r, m) \/ ApplyUnflushed(r, m) \/ ApplyRejected(r, m)
      PROVE  budget' \in Budget
  <2>1. CASE ApplyUnflushed(r, m) BY <1>1, <2>1 DEF ApplyUnflushed, FlushFails, Budget
  <2>2. QED BY <1>1, <1>3, <2>1 DEF ApplyFlushed, ApplyRejected
<1> USE Owners
<1>4. ASSUME NEW c \in Client, ClientPut(c) \/ ClientCrash(c) PROVE budget' \in Budget
  BY <1>1, <1>2, <1>4 DEF ClientPut, ClientCrash, Budget
<1>5. ASSUME ServerApiRevision \/ ServerApiHead PROVE budget' \in Budget
  BY <1>2, <1>5 DEF ServerApiRevision, ServerApiHead, ServerApiPut
<1>6. ASSUME ServerApiNotify \/ ServerApiDropped \/ ServerCrash PROVE budget' \in Budget
  BY <1>1, <1>6 DEF ServerApiNotify, ServerApiDropped, ServerCrash, Budget
<1>7. ASSUME NEW k \in Conn, ClientStep(k) \/ ClientDrops(k) PROVE budget' \in Budget
  <2>1. CASE ClientReceive(k) BY <1>3, <2>1 DEF ClientReceive
  <2>2. CASE Connect(k)
    <3>1. budget.dials[Owner[k]] \in Nat /\ budget.dials[Owner[k]] > 0
          /\ budget.dials \in [Client -> Nat]
      BY <1>1, <2>2 DEF Connect, Budget
    <3>2. [budget.dials EXCEPT ![Owner[k]] = @ - 1] \in [Client -> Nat] BY <3>1
    <3>3. QED BY <1>1, <2>2, <3>2 DEF Connect, Budget
  <2>3. CASE ClientDrops(k) BY <1>1, <2>3 DEF ClientDrops, Budget
  <2>4. CASE ClientHello(k) \/ ClientEvent(k) \/ ClientPump(k) \/ ClientSeesClose(k)
    BY <1>1, <2>4 DEF ClientHello, ClientEvent, ClientPump, ClientSeesClose
  <2>5. QED BY <1>7, <2>1, <2>2, <2>3, <2>4 DEF ClientStep
<1>8. ASSUME NEW k \in Conn, ServerStep(k) \/ ServerDrops(k) PROVE budget' \in Budget
  <2>1. CASE ServerReceive(k) BY <1>3, <2>1 DEF ServerReceive
  <2>2. CASE ServerDrops(k) BY <1>1, <2>2 DEF ServerDrops, Budget
  <2>3. CASE ~ServerReceive(k) /\ ~ServerDrops(k)
    BY <1>1, <1>8, <2>3 DEF ServerStep, ServerGreet, ServerSubscribe, ServerAnnounce,
                            ServerNotified, ServerPump, ServerSeesClose
  <2>4. QED BY <2>1, <2>2, <2>3
<1>9. CASE UNCHANGED vars BY <1>1, <1>9 DEF vars
<1>10. QED BY <1>4, <1>5, <1>6, <1>7, <1>8, <1>9 DEF Next

LEMMA TypeInit == Init => TypeOK
<1> SUFFICES ASSUME Init PROVE TypeOK
  OBVIOUS
<1>1. <<>> \in Seq(Message) /\ <<>> \in Seq({"doc", "presence"})
  OBVIOUS
<1>2. [author |-> Server, seq |-> 0, past |-> {}] \in ChangeInfo
  BY DEF ChangeInfo
<1>3. QED
  BY <1>1, <1>2, NewSyncType, ConstantsAssumption DEF Init, TypeOK, DocTypes, ConnTypes

LEMMA TypeStep == TypeOK /\ [Next]_vars => TypeOK'
<1> SUFFICES ASSUME TypeOK, [Next]_vars PROVE TypeOK'
  OBVIOUS
<1>0. budget' \in Budget BY BudgetStep
<1> USE <1>0, Owners DEF TypeOK
<1>1. ASSUME NEW c \in Client, ClientPut(c) PROVE TypeOK'
  <2>1. DocTypes' BY <1>1, PutType DEF ClientPut, apiVars
  <2>2. ConnTypes' BY <1>1 DEF ClientPut, apiVars, ConnTypes
  <2>3. QED BY <1>1, <2>1, <2>2 DEF ClientPut, apiVars
<1>2. ASSUME NEW c \in Client, ClientCrash(c) PROVE TypeOK'
  <2> DEFINE K == {k \in Conn : Owner[k] = c /\ OpenClient(k)}
  <2>1. CloseClients(K) BY <1>2 DEF ClientCrash, apiVars
  <2>2. /\ cend' \in [Conn -> {"idle", "hello", "loop", "pump", "closed"}]
        /\ cst' \in [Conn -> SyncRecord] /\ down' \in [Conn -> Seq(Message)]
        /\ wake' \in [Conn -> BOOLEAN]
    BY <2>1, CloseTypes
  <2>3. DocTypes' BY <1>2 DEF ClientCrash, apiVars, DocTypes
  <2>4. ConnTypes' BY <1>2, <2>2 DEF ClientCrash, apiVars, ConnTypes
  <2>5. QED BY <1>2, <2>3, <2>4, ConstantsAssumption DEF ClientCrash, apiVars
<1>3. ASSUME ServerApiRevision \/ ServerApiHead PROVE TypeOK'
  <2>1. DocTypes'
    BY <1>3, PutType DEF ServerApiRevision, ServerApiHead, ServerApiPut
  <2>2. ConnTypes'
    BY <1>3 DEF ServerApiRevision, ServerApiHead, ServerApiPut, connVars, ConnTypes
  <2>3. /\ api' \in {"idle", "revision", "head"} /\ NextChange \in Change
        /\ requested' \subseteq requested \cup {NextChange}
        /\ unannounced' \subseteq unannounced \cup requested \cup {NextChange}
    BY <1>3, ConstantsAssumption
    DEF ServerApiRevision, ServerApiHead, ServerApiPut, PutFlushed, PutUnflushed, AddChange,
        NextChange, Change, DocTypes
  <2>4. requested' \in SUBSET Change /\ unannounced' \in SUBSET Change BY <2>3
  <2>5. QED BY <2>1, <2>2, <2>3, <2>4
<1>13. ASSUME ServerApiDropped PROVE TypeOK'
  BY <1>13 DEF ServerApiDropped, docVars, connVars, DocTypes, ConnTypes
<1>4. ASSUME ServerApiNotify PROVE TypeOK'
  <2>1. Broadcast("doc", Receivers) BY <1>4 DEF ServerApiNotify, AnnounceDocument
  <2>2. notif' \in [Conn -> Seq({"doc", "presence"})] /\ lagged' \in [Conn -> BOOLEAN]
    BY <2>1, BroadcastType DEF ConnTypes
  <2>3. QED BY <1>4, <2>2 DEF ServerApiNotify, AnnounceDocument, docVars, DocTypes, ConnTypes
<1>5. ASSUME ServerCrash PROVE TypeOK'
  <2> DEFINE K == {k \in Conn : OpenServer(k)}
  <2>1. CloseServers(K) BY <1>5 DEF ServerCrash
  <2>2. /\ send' \in [Conn -> {"idle", "hello", "gap", "closed"} \cup Looping]
        /\ sst' \in [Conn -> SyncRecord] /\ up' \in [Conn -> Seq(Message)]
    BY <2>1, CloseTypes
  <2>3. DocTypes' BY <1>5 DEF ServerCrash, DocTypes
  <2>4. ConnTypes' BY <1>5, <2>2 DEF ServerCrash, ConnTypes
  <2>5. QED BY <1>5, <2>3, <2>4, ConstantsAssumption DEF ServerCrash
<1>6. ASSUME NEW k \in Conn, ClientStep(k) PROVE TypeOK'
  <2> DEFINE doc == mem[Owner[k]]
  <2>1. doc \in SUBSET Change BY DEF DocTypes
  <2>2. cst[k] \in SyncRecord BY DEF ConnTypes
  <2>3. CASE Connect(k) BY <2>3 DEF Connect, apiVars, docVars, DocTypes, ConnTypes
  <2>4. CASE ClientHello(k)
    <3>1. SyncMsg(NewSync, doc) \in Message /\ Generated(NewSync, doc) \in SyncRecord
      BY <2>1, NewSyncType, SyncTypes
    <3>2. up' \in [Conn -> Seq(Message)] BY <2>4, <3>1, SendTypes DEF ClientHello, apiVars
    <3>3. down' \in [Conn -> Seq(Message)]
      <4>1. down[k] \in Seq(Message) /\ down[k] # <<>> BY <2>4 DEF ClientHello, apiVars, ConnTypes
      <4>2. Tail(down[k]) \in Seq(Message) BY <4>1
      <4>3. QED BY <2>4, <4>2 DEF ClientHello, apiVars, ConnTypes
    <3>4. QED BY <2>4, <3>1, <3>2, <3>3 DEF ClientHello, apiVars, docVars, DocTypes, ConnTypes
  <2>5. CASE ClientReceive(k)
    <3> DEFINE m == Head(down[k])
    <3>1. down[k] \in Seq(Message) /\ down[k] # <<>> BY <2>5 DEF ClientReceive, apiVars, ConnTypes
    <3>2. m \in Message /\ Tail(down[k]) \in Seq(Message) BY <3>1
    <3>3. DocTypes' BY <2>5, <3>2, ApplyType DEF ClientReceive, apiVars
    <3>4. Received(cst[k], doc, m) \in SyncRecord BY <2>1, <2>2, <3>2, SyncTypes
    <3>5. CASE ApplyFlushed(Owner[k], m) /\ cend' = [cend EXCEPT ![k] = "pump"]
               /\ cst' = [cst EXCEPT ![k] = Received(@, doc, m)]
               /\ down' = [down EXCEPT ![k] = Tail(@)]
               /\ wake' = [wake EXCEPT ![k] = @ \/ mem'[Owner[k]] # doc]
      <4>1. ConnTypes' BY <2>5, <3>5, <3>2, <3>4 DEF ClientReceive, apiVars, ConnTypes
      <4>2. QED BY <2>5, <3>3, <4>1 DEF ClientReceive, apiVars
    <3>6. CASE CloseClients({k})
      <4>1. /\ cend' \in [Conn -> {"idle", "hello", "loop", "pump", "closed"}]
            /\ cst' \in [Conn -> SyncRecord] /\ down' \in [Conn -> Seq(Message)]
            /\ wake' \in [Conn -> BOOLEAN]
        BY <3>6, CloseTypes
      <4>2. ConnTypes' BY <2>5, <4>1 DEF ClientReceive, apiVars, ConnTypes
      <4>3. QED BY <2>5, <3>3, <4>2 DEF ClientReceive, apiVars
    <3>7. QED BY <2>5, <3>5, <3>6 DEF ClientReceive, apiVars
  <2>6. CASE ClientEvent(k) BY <2>6 DEF ClientEvent, apiVars, docVars, DocTypes, ConnTypes
  <2>7. CASE ClientPump(k)
    <3>1. SyncMsg(cst[k], doc) \in Message /\ Generated(cst[k], doc) \in SyncRecord
      BY <2>1, <2>2, SyncTypes
    <3>2. up' \in [Conn -> Seq(Message)]
      BY <2>7, <3>1, SendTypes DEF ClientPump, apiVars, ConnTypes
    <3>3. QED BY <2>7, <3>1, <3>2 DEF ClientPump, apiVars, docVars, DocTypes, ConnTypes
  <2>8. CASE ClientSeesClose(k) \/ ClientDrops(k)
    <3>1. CloseClients({k}) BY <2>8 DEF ClientSeesClose, ClientDrops, apiVars
    <3>2. /\ cend' \in [Conn -> {"idle", "hello", "loop", "pump", "closed"}]
          /\ cst' \in [Conn -> SyncRecord] /\ down' \in [Conn -> Seq(Message)]
          /\ wake' \in [Conn -> BOOLEAN]
      BY <3>1, CloseTypes
    <3>3. QED
      BY <2>8, <3>2 DEF ClientSeesClose, ClientDrops, apiVars, docVars, DocTypes, ConnTypes
  <2>9. QED BY <1>6, <2>3, <2>4, <2>5, <2>6, <2>7, <2>8 DEF ClientStep
<1>7. ASSUME NEW k \in Conn, ServerStep(k) PROVE TypeOK'
  <2> DEFINE doc == mem[Server]
  <2>1. doc \in SUBSET Change BY DEF DocTypes
  <2>2. sst[k] \in SyncRecord BY DEF ConnTypes
  <2>3. ASSUME EndTask(k) 
        PROVE  /\ send' \in [Conn -> {"idle", "hello", "gap", "closed"} \cup Looping]
               /\ sst' \in [Conn -> SyncRecord] /\ up' \in [Conn -> Seq(Message)]
               /\ notif' \in [Conn -> Seq({"doc", "presence"})]
               /\ lagged' \in [Conn -> BOOLEAN]
    BY <2>3, CloseTypes, BroadcastType DEF EndTask, ConnTypes
  <2>4. CASE ServerGreet(k)
    <3>1. /\ SyncMsg(NewSync, doc) \in Message /\ Generated(NewSync, doc) \in SyncRecord
          /\ <<HelloMsg, SyncMsg(NewSync, doc)>> \in Seq(Message)
      BY <2>1, NewSyncType, SyncTypes
    <3>2. down' \in [Conn -> Seq(Message)] BY <2>4, <3>1, SendTypes DEF ServerGreet, apiVars
    <3>3. notif' \in [Conn -> Seq({"doc", "presence"})] /\ lagged' \in [Conn -> BOOLEAN]
      BY <2>4, BroadcastType DEF ServerGreet, apiVars, ConnTypes
    <3>4. QED BY <2>4, <3>1, <3>2, <3>3 DEF ServerGreet, apiVars, docVars, DocTypes, ConnTypes
  <2>5. CASE ServerSubscribe(k)
    BY <2>5 DEF ServerSubscribe, apiVars, Looping, docVars, DocTypes, ConnTypes
  <2>6. CASE ServerReceive(k)
    <3> DEFINE m == Head(up[k])
    <3>1. up[k] \in Seq(Message) /\ up[k] # <<>> BY <2>6 DEF ServerReceive, apiVars, ConnTypes
    <3>2. m \in Message /\ Tail(up[k]) \in Seq(Message) BY <3>1
    <3>3. DocTypes' BY <2>6, <3>2, ApplyType DEF ServerReceive, apiVars
    <3>4. Received(sst[k], doc, m) \in SyncRecord BY <2>1, <2>2, <3>2, SyncTypes
    <3>5. CASE ApplyFlushed(Server, m)
               /\ send' = [send EXCEPT ![k] = IF mem'[Server] # doc
                                              THEN "announce" ELSE "pump"]
               /\ sst' = [sst EXCEPT ![k] = Received(@, doc, m)]
               /\ up' = [up EXCEPT ![k] = Tail(@)]
               /\ UNCHANGED <<notif, lagged>>
      <4>1. ConnTypes' BY <2>6, <3>5, <3>2, <3>4 DEF ServerReceive, apiVars, Looping, ConnTypes
      <4>2. QED BY <2>6, <3>3, <4>1 DEF ServerReceive, apiVars
    <3>6. CASE EndTask(k)
      <4>1. ConnTypes' BY <2>3, <2>6, <3>6 DEF ServerReceive, apiVars, ConnTypes
      <4>2. QED BY <2>6, <3>3, <4>1 DEF ServerReceive, apiVars
    <3>7. QED BY <2>6, <3>5, <3>6 DEF ServerReceive, apiVars
  <2>7. CASE ServerAnnounce(k)
    <3>1. notif' \in [Conn -> Seq({"doc", "presence"})] /\ lagged' \in [Conn -> BOOLEAN]
      BY <2>7, BroadcastType DEF ServerAnnounce, AnnounceDocument, ConnTypes
    <3>2. QED BY <2>7, <3>1 DEF ServerAnnounce, AnnounceDocument, Looping, docVars, DocTypes, ConnTypes
  <2>8. CASE ServerNotified(k)
    <3>1. CASE lagged[k]
      BY <2>8, <3>1 DEF ServerNotified, apiVars, docVars, DocTypes, ConnTypes
    <3>2. CASE ~lagged[k]
      <4>1. notif[k] \in Seq({"doc", "presence"}) /\ notif[k] # <<>>
        BY <2>8, <3>2 DEF ServerNotified, apiVars, ConnTypes
      <4>2. Tail(notif[k]) \in Seq({"doc", "presence"}) BY <4>1
      <4>3. send' \in [Conn -> {"idle", "hello", "gap", "closed"} \cup Looping]
        BY <2>8, <3>2 DEF ServerNotified, apiVars, Looping, ConnTypes
      <4>4. QED
        BY <2>8, <3>2, <4>2, <4>3 DEF ServerNotified, apiVars, docVars, DocTypes, ConnTypes
    <3>3. QED BY <3>1, <3>2
  <2>9. CASE ServerPump(k)
    <3>1. SyncMsg(sst[k], doc) \in Message /\ Generated(sst[k], doc) \in SyncRecord
          /\ <<SyncMsg(sst[k], doc)>> \in Seq(Message)
      BY <2>1, <2>2, SyncTypes
    <3>2. down' \in [Conn -> Seq(Message)]
      BY <2>9, <3>1, SendTypes DEF ServerPump, apiVars, ConnTypes
    <3>3. QED BY <2>9, <3>1, <3>2 DEF ServerPump, apiVars, Looping, docVars, DocTypes, ConnTypes
  <2>10. CASE ServerSeesClose(k) \/ ServerDrops(k)
    BY <2>3, <2>10 DEF ServerSeesClose, ServerDrops, apiVars, docVars, DocTypes, ConnTypes
  <2>11. QED
    BY <1>7, <2>4, <2>5, <2>6, <2>7, <2>8, <2>9, <2>10 DEF ServerStep
<1>8. ASSUME NEW k \in Conn, ClientDrops(k) PROVE TypeOK'
  <2>1. CloseClients({k}) BY <1>8 DEF ClientDrops, apiVars
  <2>2. /\ cend' \in [Conn -> {"idle", "hello", "loop", "pump", "closed"}]
        /\ cst' \in [Conn -> SyncRecord] /\ down' \in [Conn -> Seq(Message)]
        /\ wake' \in [Conn -> BOOLEAN]
    BY <2>1, CloseTypes
  <2>3. QED BY <1>8, <2>2 DEF ClientDrops, apiVars, docVars, DocTypes, ConnTypes
<1>9. ASSUME NEW k \in Conn, ServerDrops(k) PROVE TypeOK'
  BY <1>9, CloseTypes, BroadcastType
  DEF ServerDrops, apiVars, EndTask, docVars, DocTypes, ConnTypes
<1>10. CASE UNCHANGED vars
  BY <1>10 DEF vars, docVars, apiVars, connVars, DocTypes, ConnTypes
<1>11. QED
  BY <1>1, <1>2, <1>3, <1>4, <1>5, <1>6, <1>7, <1>8, <1>9, <1>10, <1>13 DEF Next

\* Every reachable state is well typed: no frame, sync record, notification queue or
\* change ever leaves its type, on either end and across crashes and failures.
THEOREM TypeCorrect == Spec => []TypeOK
BY TypeInit, TypeStep, PTL DEF Spec

-----------------------------------------------------------------------------
(* The inductive invariant.  Documents change in four ways: not at all, by   *)
(* a write, by a merge of a fitting frame, by a restart from the snapshot.   *)

\* Written changes are never rewritten.
Grows == made <= made' /\ \A c \in 1..made : info'[c] = info[c]

DocsOK == DocsWritten /\ CausallyClosed /\ AckedDurable

LEMMA PutKeepsDocs ==
    ASSUME DocTypes, DocsOK, NEW r \in Replica, PutFlushed(r) \/ PutUnflushed(r)
    PROVE  DocsOK' /\ Grows /\ \A q \in Replica : mem[q] \subseteq mem'[q]
<1> USE DEF DocTypes
<1> DEFINE new == NextChange
<1>1. AddChange(r) BY DEF PutFlushed, PutUnflushed
<1>2. /\ new \in Change /\ new \notin 1..made /\ made' = new
      /\ 1..made' = (1..made) \cup {new}
  BY <1>1, ConstantsAssumption DEF AddChange, NextChange
<1>3. mem' = [mem EXCEPT ![r] = @ \cup {new}] BY <1>1 DEF AddChange
<1>4. /\ \A c \in 1..made : info'[c] = info[c]
      /\ info'[new].past = mem[r] /\ info'[new].author = r
  BY <1>1, <1>2, ConstantsAssumption DEF AddChange, ChangeInfo
<1>5. Grows BY <1>2, <1>4 DEF Grows, NextChange
<1>6. disk' \in {disk, [disk EXCEPT ![r] = mem'[r]]}
  BY <1>3 DEF PutFlushed, PutUnflushed, FlushFails
<1>7. \A q \in Replica : /\ disk[q] \subseteq disk'[q] /\ disk'[q] \in {disk[q], mem'[q]}
                         /\ disk'[q] \subseteq mem'[q] /\ mem'[q] \in {mem[q], mem[q] \cup {new}}
  BY <1>3, <1>6 DEF DocsOK, DocsWritten
<1>8. DocsWritten'
  <2>1. acked' \subseteq acked \cup {new} BY DEF PutFlushed, PutUnflushed
  <2>2. acked' \subseteq 1..made' BY <2>1, <1>2 DEF DocsOK, DocsWritten
  <2>3. \A q \in Replica : mem[q] \subseteq 1..made BY DEF DocsOK, DocsWritten
  <2>4. \A q \in Replica : mem'[q] \subseteq 1..made' BY <2>3, <1>2, <1>7
  <2>5. QED BY <2>2, <2>4, <1>7 DEF DocsWritten
<1> DEFINE StillClosed(S) == \A c \in S : info'[c].past \subseteq S
<1>9. ASSUME NEW S, S \subseteq 1..made, Closed(S) PROVE StillClosed(S)
  BY <1>4, <1>9 DEF Closed
<1>10. StillClosed(mem[r] \cup {new})
  <2>1. StillClosed(mem[r]) BY <1>9 DEF DocsOK, DocsWritten, CausallyClosed
  <2>2. QED BY <2>1, <1>4
<1>11. CausallyClosed'
  <2>1. ASSUME NEW q \in Replica PROVE StillClosed(mem'[q]) /\ StillClosed(disk'[q])
    <3>1. mem[q] \subseteq 1..made /\ disk[q] \subseteq 1..made
      BY DEF DocsOK, DocsWritten
    <3>2. StillClosed(mem[q]) /\ StillClosed(disk[q])
      BY <1>9, <3>1 DEF DocsOK, CausallyClosed
    <3>3. mem'[q] = mem[q] \/ mem'[q] = mem[r] \cup {new} BY <1>3
    <3>4. StillClosed(mem'[q]) BY <3>2, <3>3, <1>10
    <3>5. QED BY <3>2, <3>4, <1>7
  <2>2. QED BY <2>1 DEF CausallyClosed, Closed
<1>12. AckedDurable'
  <2>1. ASSUME NEW c \in acked PROVE info'[c].author = info[c].author /\ info[c].author \in Replica
    BY <1>4 DEF DocsOK, DocsWritten, ChangeInfo
  <2>2. \A c \in acked : c \in disk'[info'[c].author]
    BY <2>1, <1>7 DEF DocsOK, AckedDurable
  <2>3. CASE PutFlushed(r)
    <3>1. new \in disk'[info'[new].author] BY <2>3, <1>4 DEF PutFlushed
    <3>2. QED BY <2>2, <2>3, <3>1 DEF PutFlushed, AckedDurable
  <2>4. CASE PutUnflushed(r) BY <2>2, <2>4 DEF PutUnflushed, AckedDurable
  <2>5. QED BY <2>3, <2>4
<1>13. QED BY <1>5, <1>7, <1>8, <1>11, <1>12 DEF DocsOK

LEMMA ApplyKeepsDocs ==
    ASSUME DocTypes, DocsOK, NEW r \in Replica, NEW m \in Message, Fits(m, r),
           ApplyFlushed(r, m) \/ ApplyUnflushed(r, m) \/ ApplyRejected(r, m)
    PROVE  DocsOK' /\ Grows /\ \A q \in Replica : mem[q] \subseteq mem'[q]
<1> USE DEF DocTypes
<1>1. CASE ApplyRejected(r, m)
  BY <1>1 DEF ApplyRejected, docVars, DocsOK, DocsWritten, CausallyClosed, AckedDurable,
              Closed, Grows
<1>2. CASE ApplyFlushed(r, m) \/ ApplyUnflushed(r, m)
  <2>1. made' = made /\ info' = info /\ acked' = acked
    BY <1>2 DEF ApplyFlushed, ApplyUnflushed
  <2>2. mem' = [mem EXCEPT ![r] = @ \cup m.changes]
    BY <1>2 DEF ApplyFlushed, ApplyUnflushed
  <2>3. disk' \in {disk, [disk EXCEPT ![r] = mem'[r]]}
    BY <1>2 DEF ApplyFlushed, ApplyUnflushed, FlushFails
  <2>4. \A q \in Replica : /\ disk[q] \subseteq disk'[q] /\ disk'[q] \in {disk[q], mem'[q]}
                           /\ disk'[q] \subseteq mem'[q] /\ mem[q] \subseteq mem'[q]
    BY <2>2, <2>3 DEF DocsOK, DocsWritten
  <2>5. m.changes \subseteq 1..made BY DEF Fits
  <2>6. DocsWritten' BY <2>1, <2>2, <2>4, <2>5 DEF DocsOK, DocsWritten
  <2>7. Closed(mem[r] \cup m.changes)
    <3>1. CASE m.changes = {} BY <3>1 DEF DocsOK, CausallyClosed, Closed
    <3>2. CASE m.changes # {}
      <4>1. m.heads \subseteq mem[r] \cup m.changes BY <3>2 DEF Fits
      <4>2. \A c \in m.changes : info[c].past \subseteq m.heads BY DEF Fits, Closed
      <4>3. QED BY <4>1, <4>2 DEF DocsOK, CausallyClosed, Closed
    <3>3. QED BY <3>1, <3>2
  <2>8. \A S : Closed(S)' <=> Closed(S) BY <2>1 DEF Closed
  <2>9. \A q \in Replica : Closed(mem'[q]) /\ Closed(disk'[q])
    BY <2>2, <2>4, <2>7 DEF DocsOK, CausallyClosed
  <2>10. CausallyClosed' BY <2>1, <2>9 DEF CausallyClosed, Closed
  <2>11. AckedDurable'
    BY <2>1, <2>4 DEF DocsOK, AckedDurable, DocsWritten, ChangeInfo
  <2>12. QED BY <2>1, <2>4, <2>6, <2>10, <2>11 DEF DocsOK, Grows
<1>3. QED BY <1>1, <1>2

LEMMA CrashKeepsDocs ==
    ASSUME DocTypes, DocsOK, NEW r \in Replica, mem' = [mem EXCEPT ![r] = disk[r]],
           UNCHANGED <<made, info, disk, acked>>
    PROVE  DocsOK' /\ Grows /\ \A q \in Replica \ {r} : mem'[q] = mem[q]
BY DEF DocTypes, DocsOK, DocsWritten, CausallyClosed, AckedDurable, Closed, Grows

-----------------------------------------------------------------------------
(* Frames in flight and what the ends know of each other.                    *)

\* The part of FramesFit and PeersKnown about one frame, and about one connection.
GoodUp(k, m) == /\ m \in Message /\ Fits(m, Server)
                /\ OpenClient(k) => m.heads \subseteq mem[Owner[k]]
GoodDown(k, m) == /\ m \in Message /\ Fits(m, Owner[k])
                  /\ OpenServer(k) => m.heads \subseteq mem[Server]
ConnOK(k) ==
    /\ \A i \in 1..Len(up[k]) : GoodUp(k, up[k][i])
    /\ \A i \in 1..Len(down[k]) : GoodDown(k, down[k][i])
    /\ OpenClient(k) => sst[k].theirs \subseteq mem[Owner[k]]
    /\ OpenServer(k) => cst[k].theirs \subseteq mem[Server]
    /\ ~OpenClient(k) => down[k] = <<>>
    /\ ~OpenServer(k) => up[k] = <<>>
    /\ cend[k] = "idle" => send[k] = "idle" /\ cst[k].theirs = {} /\ sst[k].theirs = {}
ConnsOK == \A k \in Conn : ConnOK(k)

LEMMA ConnsSplit == ConnTypes => (ConnsOK <=> FramesFit /\ PeersKnown)
<1> SUFFICES ASSUME ConnTypes PROVE ConnsOK <=> FramesFit /\ PeersKnown
  OBVIOUS
<1>1. ASSUME NEW k \in Conn
      PROVE  /\ \A i \in 1..Len(up[k]) : up[k][i] \in Message
             /\ \A i \in 1..Len(down[k]) : down[k][i] \in Message
  BY DEF ConnTypes
<1>2. QED
  BY <1>1 DEF ConnsOK, ConnOK, GoodUp, GoodDown, FramesFit, PeersKnown

LEMMA ConnsSplitNext == ConnTypes' => (ConnsOK' <=> (FramesFit /\ PeersKnown)')
<1> SUFFICES ASSUME ConnTypes' PROVE ConnsOK' <=> (FramesFit /\ PeersKnown)'
  OBVIOUS
<1>1. ASSUME NEW k \in Conn
      PROVE  /\ \A i \in 1..Len(up'[k]) : up'[k][i] \in Message
             /\ \A i \in 1..Len(down'[k]) : down'[k][i] \in Message
  BY DEF ConnTypes
<1>2. QED
  BY <1>1 DEF ConnsOK, ConnOK, GoodUp, GoodDown, FramesFit, PeersKnown

\* A frame that fits keeps fitting while its receiver forgets nothing.
LEMMA FitsKept ==
    ASSUME DocTypes, DocTypes', Grows, NEW m \in Message, NEW r \in Replica, Fits(m, r),
           mem[r] \subseteq mem'[r]
    PROVE  Fits(m, r)'
<1>1. 1..made \subseteq 1..made' BY DEF Grows, DocTypes
<1>2. \A c \in m.heads : info'[c].past \subseteq m.heads BY DEF Fits, Closed, Grows
<1>3. QED BY <1>1, <1>2 DEF Fits, Closed

\* A step that keeps or adds only good frames, closes ends or leaves them as they are, and
\* lets a replica forget only when its ends close, keeps the connection good.
LEMMA ConnKept ==
    ASSUME DocTypes, DocTypes', Grows, NEW k \in Conn,
           \A i \in 1..Len(up'[k]) : GoodUp(k, up'[k][i]),
           \A i \in 1..Len(down'[k]) : GoodDown(k, down'[k][i]),
           1..Len(up'[k]) # {} => mem[Server] \subseteq mem'[Server],
           1..Len(down'[k]) # {} => mem[Owner[k]] \subseteq mem'[Owner[k]],
           OpenClient(k)' => /\ OpenClient(k) /\ mem[Owner[k]] \subseteq mem'[Owner[k]]
                             /\ sst'[k].theirs \subseteq mem[Owner[k]],
           OpenServer(k)' => /\ OpenServer(k) /\ mem[Server] \subseteq mem'[Server]
                             /\ cst'[k].theirs \subseteq mem[Server],
           ~OpenClient(k)' => down'[k] = <<>>, ~OpenServer(k)' => up'[k] = <<>>,
           cend'[k] = "idle" => /\ send'[k] = "idle"
                                /\ cst'[k].theirs = {} /\ sst'[k].theirs = {}
    PROVE  ConnOK(k)'
<1>1. ASSUME NEW i \in 1..Len(up'[k]) PROVE GoodUp(k, up[k][i])'
  <2>1. Fits(up'[k][i], Server) /\ up'[k][i] \in Message BY DEF GoodUp
  <2>2. PICK m : m = up'[k][i] OBVIOUS
  <2>3. Fits(m, Server)' BY <2>1, <2>2, FitsKept, Owners
  <2>4. OpenClient(k)' => m.heads \subseteq mem'[Owner[k]] BY <2>2 DEF GoodUp
  <2>5. QED BY <2>1, <2>2, <2>3, <2>4 DEF GoodUp, Fits, Closed
<1>2. ASSUME NEW i \in 1..Len(down'[k]) PROVE GoodDown(k, down[k][i])'
  <2>1. Fits(down'[k][i], Owner[k]) /\ down'[k][i] \in Message BY DEF GoodDown
  <2>2. PICK m : m = down'[k][i] OBVIOUS
  <2>3. Fits(m, Owner[k])' BY <2>1, <2>2, FitsKept, Owners
  <2>4. OpenServer(k)' => m.heads \subseteq mem'[Server] BY <2>2 DEF GoodDown
  <2>5. QED BY <2>1, <2>2, <2>3, <2>4 DEF GoodDown, Fits, Closed
<1>3. QED BY <1>1, <1>2 DEF ConnOK

\* A connection the step does not touch.
LEMMA ConnSame ==
    ASSUME DocTypes, DocTypes', Grows, NEW k \in Conn, ConnOK(k),
           OpenClient(k) => mem[Owner[k]] \subseteq mem'[Owner[k]],
           OpenServer(k) => mem[Server] \subseteq mem'[Server],
           cend'[k] = cend[k], send'[k] = send[k], cst'[k] = cst[k], sst'[k] = sst[k],
           up'[k] = up[k], down'[k] = down[k]
    PROVE  ConnOK(k)'
<1>1. (OpenClient(k)' <=> OpenClient(k)) /\ (OpenServer(k)' <=> OpenServer(k))
  BY DEF OpenClient, OpenServer
<1>2. /\ 1..Len(up'[k]) # {} => mem[Server] \subseteq mem'[Server]
      /\ 1..Len(down'[k]) # {} => mem[Owner[k]] \subseteq mem'[Owner[k]]
  BY DEF ConnOK
<1>3. QED BY <1>1, <1>2, ConnKept DEF ConnOK

\* The frames of a queue after a send or a receive.
LEMMA QueueFrames ==
    ASSUME NEW s \in Seq(Message), NEW ms \in Seq(Message)
    PROVE  /\ \A i \in 1..Len(s \o ms) : \/ \E j \in 1..Len(s) : (s \o ms)[i] = s[j]
                                         \/ \E j \in 1..Len(ms) : (s \o ms)[i] = ms[j]
           /\ s # <<>> => /\ \A i \in 1..Len(Tail(s)) : Tail(s)[i] = s[i + 1] /\ i + 1 \in 1..Len(s)
                          /\ Head(s) = s[1] /\ 1 \in 1..Len(s) /\ Head(s) \in Message
                          /\ Tail(s) \in Seq(Message)
<1>1. ASSUME NEW i \in 1..Len(s \o ms)
      PROVE  \/ \E j \in 1..Len(s) : (s \o ms)[i] = s[j]
             \/ \E j \in 1..Len(ms) : (s \o ms)[i] = ms[j]
  <2>1. CASE i <= Len(s)
    <3>1. (s \o ms)[i] = s[i] /\ i \in 1..Len(s) BY <2>1
    <3>2. QED BY <3>1
  <2>2. CASE ~(i <= Len(s))
    <3>1. (s \o ms)[i] = ms[i - Len(s)] /\ i - Len(s) \in 1..Len(ms) BY <2>2
    <3>2. QED BY <3>1
  <2>3. QED BY <2>1, <2>2
<1>2. ASSUME s # <<>>
      PROVE  /\ \A i \in 1..Len(Tail(s)) : Tail(s)[i] = s[i + 1] /\ i + 1 \in 1..Len(s)
             /\ Head(s) = s[1] /\ 1 \in 1..Len(s) /\ Head(s) \in Message
             /\ Tail(s) \in Seq(Message)
  BY <1>2
<1>3. QED BY <1>1, <1>2

\* A generated frame carries the sender's whole document as its heads, and leaves out only
\* what the receiver is known to have.
LEMMA GeneratedFits ==
    ASSUME DocTypes, DocsOK, NEW from \in Replica, NEW to \in Replica, NEW st \in SyncRecord,
           st.theirs \subseteq mem[to]
    PROVE  /\ Fits(SyncMsg(st, mem[from]), to)
           /\ SyncMsg(st, mem[from]).heads = mem[from] /\ SyncMsg(st, mem[from]) \in Message
<1>1. mem[from] \in SUBSET Change BY DEF DocTypes
<1>2. SyncMsg(st, mem[from]) \in Message BY <1>1, SyncTypes
<1>3. mem[from] \subseteq 1..made /\ Closed(mem[from])
  BY DEF DocsOK, DocsWritten, CausallyClosed
<1>4. QED BY <1>2, <1>3 DEF SyncMsg, Missing, Fits

LEMMA HelloFits == ASSUME NEW r PROVE Fits(HelloMsg, r) /\ HelloMsg.heads = {}
BY DEF Fits, HelloMsg, Closed

\* Sending: every frame of the queue is good, old or new.
LEMMA SendsUp ==
    ASSUME TypeOK, DocsOK, NEW k \in Conn, ConnOK(k), NEW st \in SyncRecord,
           OpenServer(k) => st.theirs \subseteq mem[Server],
           SendUp(k, SyncMsg(st, mem[Owner[k]]))
    PROVE  /\ \A i \in 1..Len(up'[k]) : GoodUp(k, up'[k][i])
           /\ \A j \in Conn \ {k} : up'[j] = up[j]
           /\ ~OpenServer(k) => up'[k] = <<>>
<1> USE DEF TypeOK, ConnTypes
<1> DEFINE m == SyncMsg(st, mem[Owner[k]])
<1>1. CASE OpenServer(k)
  <2>1. GoodUp(k, m) BY <1>1, GeneratedFits, Owners DEF GoodUp
  <2>2. /\ up[k] \in Seq(Message) /\ m \in Message /\ <<m>> \in Seq(Message)
        /\ Append(up[k], m) = up[k] \o <<m>>
    <3>1. m \in Message /\ up[k] \in Seq(Message) BY <2>1 DEF GoodUp
    <3> HIDE DEF m
    <3>2. QED BY <3>1
  <2>3. up'[k] = up[k] \o <<m>> /\ \A j \in Conn \ {k} : up'[j] = up[j]
    BY <1>1, <2>2 DEF SendUp
  <2>4. \A i \in 1..Len(<<m>>) : <<m>>[i] = m OBVIOUS
  <2>5. ASSUME NEW i \in 1..Len(up[k] \o <<m>>) PROVE GoodUp(k, (up[k] \o <<m>>)[i])
    <3>1. \/ \E j \in 1..Len(up[k]) : (up[k] \o <<m>>)[i] = up[k][j]
          \/ \E j \in 1..Len(<<m>>) : (up[k] \o <<m>>)[i] = <<m>>[j]
      <4> HIDE DEF m
      <4>1. QED BY <2>2, QueueFrames
    <3>2. QED BY <3>1, <2>1, <2>4 DEF ConnOK
  <2>6. QED BY <1>1, <2>3, <2>5
<1>2. CASE ~OpenServer(k) BY <1>2 DEF SendUp, ConnOK
<1>3. QED BY <1>1, <1>2

LEMMA SendsDown ==
    ASSUME TypeOK, DocsOK, NEW k \in Conn, ConnOK(k), NEW ms \in Seq(Message),
           OpenClient(k) => \A i \in 1..Len(ms) : GoodDown(k, ms[i]),
           SendDown(k, ms)
    PROVE  /\ \A i \in 1..Len(down'[k]) : GoodDown(k, down'[k][i])
           /\ \A j \in Conn \ {k} : down'[j] = down[j]
           /\ ~OpenClient(k) => down'[k] = <<>>
<1> USE DEF TypeOK, ConnTypes
<1>1. CASE OpenClient(k)
  <2>1. down'[k] = down[k] \o ms /\ \A j \in Conn \ {k} : down'[j] = down[j]
    BY <1>1 DEF SendDown
  <2>2. ASSUME NEW i \in 1..Len(down[k] \o ms) PROVE GoodDown(k, (down[k] \o ms)[i])
    <3>1. \/ \E j \in 1..Len(down[k]) : (down[k] \o ms)[i] = down[k][j]
          \/ \E j \in 1..Len(ms) : (down[k] \o ms)[i] = ms[j]
      <4>1. down[k] \in Seq(Message) OBVIOUS
      <4>2. QED BY <4>1, QueueFrames
    <3>2. QED BY <1>1, <3>1 DEF ConnOK
  <2>3. QED BY <1>1, <2>1, <2>2
<1>2. CASE ~OpenClient(k) BY <1>2 DEF SendDown, ConnOK
<1>3. QED BY <1>1, <1>2

-----------------------------------------------------------------------------
(* Every step keeps the inductive invariant.                                 *)

\* A step that closes client ends, as the only ones whose replica may forget.
LEMMA ClosingClients ==
    ASSUME TypeOK, DocTypes', ConnsOK, Grows, NEW K \in SUBSET Conn, CloseClients(K),
           \A k \in K : OpenClient(k),
           UNCHANGED <<send, sst, up>>, mem[Server] \subseteq mem'[Server],
           \A k \in Conn \ K : OpenClient(k) => mem[Owner[k]] \subseteq mem'[Owner[k]]
    PROVE  ConnsOK'
<1>1. ASSUME NEW k \in Conn PROVE ConnOK(k)'
  <2>1. CASE k \in K
    <3>1. cend'[k] = "closed" /\ cst'[k] = NewSync /\ down'[k] = <<>>
      BY <2>1 DEF CloseClients
    <3>2. ~OpenClient(k)' /\ (OpenServer(k)' <=> OpenServer(k))
      BY <3>1 DEF OpenClient, OpenServer
    <3>3. cst'[k].theirs = {} BY <3>1 DEF NewSync
    <3>4. ConnOK(k) BY DEF ConnsOK
    <3>5. 1..Len(down'[k]) = {} BY <3>1
    <3>6. /\ \A i \in 1..Len(up'[k]) : GoodUp(k, up'[k][i])
          /\ ~OpenServer(k)' => up'[k] = <<>>
      BY <3>2, <3>4 DEF ConnOK
    <3>7. QED BY <3>1, <3>2, <3>3, <3>5, <3>6, ConnKept DEF TypeOK
  <2>2. CASE k \notin K
    <3>1. cend'[k] = cend[k] /\ cst'[k] = cst[k] /\ down'[k] = down[k]
      BY <2>2 DEF CloseClients
    <3>2. QED BY <2>2, <3>1, ConnSame DEF ConnsOK, TypeOK
  <2>3. QED BY <2>1, <2>2
<1>2. QED BY <1>1 DEF ConnsOK

\* The same for server ends.
LEMMA ClosingServers ==
    ASSUME TypeOK, DocTypes', ConnsOK, Grows, NEW K \in SUBSET Conn, CloseServers(K),
           \A k \in K : OpenServer(k),
           UNCHANGED <<cend, cst, down>>,
           \A k \in Conn \ K : OpenServer(k) => mem[Server] \subseteq mem'[Server],
           \A k \in Conn : mem[Owner[k]] \subseteq mem'[Owner[k]]
    PROVE  ConnsOK'
<1>1. ASSUME NEW k \in Conn PROVE ConnOK(k)'
  <2>1. CASE k \in K
    <3>1. send'[k] = "closed" /\ sst'[k] = NewSync /\ up'[k] = <<>>
      BY <2>1 DEF CloseServers
    <3>2. ~OpenServer(k)' /\ (OpenClient(k)' <=> OpenClient(k))
      BY <3>1 DEF OpenClient, OpenServer, Looping
    <3>3. sst'[k].theirs = {} BY <3>1 DEF NewSync
    <3>4. ConnOK(k) /\ send[k] # "idle" BY <2>1 DEF ConnsOK, OpenServer, Looping
    <3>5. 1..Len(up'[k]) = {} BY <3>1
    <3>6. /\ \A i \in 1..Len(down'[k]) : GoodDown(k, down'[k][i])
          /\ ~OpenClient(k)' => down'[k] = <<>>
          /\ cend'[k] # "idle"
      BY <3>2, <3>4 DEF ConnOK
    <3>7. QED BY <3>1, <3>2, <3>3, <3>5, <3>6, ConnKept DEF TypeOK
  <2>2. CASE k \notin K
    <3>1. send'[k] = send[k] /\ sst'[k] = sst[k] /\ up'[k] = up[k]
      BY <2>2 DEF CloseServers
    <3>2. QED BY <2>2, <3>1, ConnSame DEF ConnsOK, TypeOK
  <2>3. QED BY <2>1, <2>2
<1>2. QED BY <1>1 DEF ConnsOK

LEMMA ClientStepKeeps ==
    ASSUME TypeOK, TypeOK', DocsOK, ConnsOK, NEW k \in Conn, ClientStep(k) \/ ClientDrops(k)
    PROVE  DocsOK' /\ ConnsOK'
<1> USE Owners DEF TypeOK
<1> DEFINE doc == mem[Owner[k]]
<1> DEFINE Forward == Grows /\ \A q \in Replica : mem[q] \subseteq mem'[q]
<1>1. ASSUME UNCHANGED docVars PROVE DocsOK' /\ Forward
  BY <1>1 DEF docVars, DocsOK, DocsWritten, CausallyClosed, AckedDurable, Closed, Grows,
              DocTypes
<1>2. CASE Connect(k)
  <2>1. DocsOK' /\ Forward BY <1>1, <1>2 DEF Connect
  <2>2. ASSUME NEW j \in Conn, j # k PROVE ConnOK(j)'
    BY <1>2, <2>1, <2>2, ConnSame DEF Connect, ConnsOK, ConnTypes
  <2>3. ConnOK(k)'
    <3>1. ConnOK(k) /\ cend[k] = "idle" /\ cend'[k] = "hello" BY <1>2 DEF Connect, ConnsOK, ConnTypes
    <3>2. /\ up'[k] = <<>> /\ down'[k] = <<>>
          /\ cst'[k].theirs = {} /\ sst'[k].theirs = {}
      BY <1>2, <3>1 DEF Connect, ConnOK, OpenClient, OpenServer, Looping
    <3>3. 1..Len(up'[k]) = {} /\ 1..Len(down'[k]) = {} BY <3>2
    <3>4. QED BY <3>1, <3>2, <3>3 DEF ConnOK
  <2>4. QED BY <2>1, <2>2, <2>3 DEF ConnsOK
<1>3. CASE ClientHello(k)
  <2>1. DocsOK' /\ Forward BY <1>1, <1>3 DEF ClientHello
  <2>2. /\ \A i \in 1..Len(up'[k]) : GoodUp(k, up'[k][i])
        /\ \A j \in Conn \ {k} : up'[j] = up[j]
        /\ ~OpenServer(k) => up'[k] = <<>>
    <3>1. NewSync \in SyncRecord /\ NewSync.theirs = {} BY NewSyncType DEF NewSync
    <3>2. ConnOK(k) BY DEF ConnsOK
    <3>3. SendUp(k, SyncMsg(NewSync, doc)) BY <1>3 DEF ClientHello
    <3>4. QED BY <3>1, <3>2, <3>3, SendsUp
  <2>3. /\ \A i \in 1..Len(down'[k]) : GoodDown(k, down'[k][i])
        /\ \A j \in Conn \ {k} : down'[j] = down[j]
    <3>1. down[k] \in Seq(Message) /\ down[k] # <<>> /\ down' = [down EXCEPT ![k] = Tail(@)]
      BY <1>3 DEF ClientHello, ConnTypes
    <3>2. \A i \in 1..Len(Tail(down[k])) :
             Tail(down[k])[i] = down[k][i + 1] /\ i + 1 \in 1..Len(down[k])
      BY <3>1, QueueFrames
    <3>3. QED BY <3>1, <3>2 DEF ConnsOK, ConnOK, ConnTypes
  <2>4. ASSUME NEW j \in Conn, j # k PROVE ConnOK(j)'
    BY <1>3, <2>1, <2>2, <2>3, <2>4, ConnSame
    DEF ClientHello, ConnsOK, ConnTypes
  <2>5. cst'[k].theirs = {}
    BY <1>3 DEF ClientHello, Generated, NewSync, ConnTypes
  <2>6. OpenClient(k) /\ cend'[k] = "loop"
    BY <1>3 DEF ClientHello, OpenClient, ConnTypes
  <2>7. ConnOK(k)'
    <3>1. sst' = sst /\ send' = send BY <1>3 DEF ClientHello
    <3>2. (OpenServer(k)' <=> OpenServer(k)) /\ OpenClient(k)'
      BY <2>6, <3>1 DEF OpenServer, OpenClient
    <3>3. OpenClient(k) => sst[k].theirs \subseteq doc BY DEF ConnsOK, ConnOK
    <3>4. QED BY <2>1, <2>2, <2>3, <2>5, <2>6, <3>1, <3>2, <3>3, ConnKept
  <2>8. QED BY <2>1, <2>4, <2>7 DEF ConnsOK
<1>4. CASE ClientReceive(k)
  <2> DEFINE m == Head(down[k])
  <2>1. /\ down[k] \in Seq(Message) /\ down[k] # <<>>
        /\ OpenClient(k)
    BY <1>4 DEF ClientReceive, ConnTypes, OpenClient
  <2>2. /\ m = down[k][1] /\ 1 \in 1..Len(down[k]) /\ m \in Message
        /\ \A i \in 1..Len(Tail(down[k])) :
             Tail(down[k])[i] = down[k][i + 1] /\ i + 1 \in 1..Len(down[k])
    BY <2>1, QueueFrames
  <2>3. GoodDown(k, m) BY <2>2 DEF ConnsOK, ConnOK
  <2>4. ApplyFlushed(Owner[k], m) \/ ApplyUnflushed(Owner[k], m) \/ ApplyRejected(Owner[k], m)
    BY <1>4 DEF ClientReceive
  <2>5. DocsOK' /\ Forward
    BY <2>2, <2>3, <2>4, ApplyKeepsDocs DEF GoodDown
  <2>6. send' = send /\ sst' = sst /\ up' = up BY <1>4 DEF ClientReceive
  <2>7. CASE /\ cend' = [cend EXCEPT ![k] = "pump"]
             /\ cst' = [cst EXCEPT ![k] = Received(@, doc, m)]
             /\ down' = [down EXCEPT ![k] = Tail(@)]
    <3>1. ASSUME NEW j \in Conn, j # k PROVE ConnOK(j)'
      BY <2>5, <2>6, <2>7, <3>1, ConnSame DEF ConnsOK, ConnTypes
    <3>2. cst'[k].theirs = m.heads
      <4>1. cst[k] \in SyncRecord /\ cst'[k] = Received(cst[k], doc, m)
        BY <2>7 DEF ConnTypes
      <4>2. QED BY <4>1, ReceivedTheirs
    <3>3. \A i \in 1..Len(down'[k]) : GoodDown(k, down'[k][i])
      <4>1. down'[k] = Tail(down[k]) BY <2>7 DEF ConnTypes
      <4>2. \A i \in 1..Len(down[k]) : GoodDown(k, down[k][i]) BY DEF ConnsOK, ConnOK
      <4> HIDE DEF m
      <4>3. QED BY <2>2, <4>1, <4>2
    <3>4. cend'[k] = "pump" BY <2>7 DEF ConnTypes
    <3>5. (OpenServer(k)' <=> OpenServer(k)) /\ OpenClient(k)'
      BY <2>6, <3>4 DEF OpenServer, OpenClient
    <3>6. /\ OpenServer(k) => cst'[k].theirs \subseteq mem[Server]
          /\ ~OpenServer(k) => up'[k] = <<>>
          /\ \A i \in 1..Len(up'[k]) : GoodUp(k, up'[k][i])
          /\ sst'[k].theirs \subseteq doc
      BY <2>1, <2>3, <2>6, <3>2 DEF ConnsOK, ConnOK, GoodDown
    <3>7. ConnOK(k)'
      BY <2>1, <2>5, <3>3, <3>4, <3>5, <3>6, ConnKept
    <3>8. QED BY <2>5, <3>1, <3>7 DEF ConnsOK
  <2>8. CASE CloseClients({k})
    <3>1. QED BY <2>1, <2>5, <2>6, <2>8, ClosingClients
  <2>9. QED BY <1>4, <2>7, <2>8 DEF ClientReceive
<1>5. CASE ClientEvent(k)
  <2>1. DocsOK' /\ Forward BY <1>1, <1>5 DEF ClientEvent
  <2>2. ASSUME NEW j \in Conn, j # k PROVE ConnOK(j)'
    BY <1>5, <2>1, <2>2, ConnSame DEF ClientEvent, ConnsOK, ConnTypes
  <2>3. ConnOK(k)'
    <3>1. cend[k] = "loop" /\ cend'[k] = "pump" BY <1>5 DEF ClientEvent, ConnTypes
    <3>2. UNCHANGED <<send, cst, sst, up, down>> BY <1>5 DEF ClientEvent
    <3>3. OpenClient(k) /\ OpenClient(k)' /\ (OpenServer(k)' <=> OpenServer(k))
      BY <3>1, <3>2 DEF OpenClient, OpenServer
    <3>4. ConnOK(k) BY DEF ConnsOK
    <3>5. /\ \A i \in 1..Len(up'[k]) : GoodUp(k, up'[k][i])
          /\ \A i \in 1..Len(down'[k]) : GoodDown(k, down'[k][i])
          /\ ~OpenServer(k)' => up'[k] = <<>>
          /\ sst'[k].theirs \subseteq doc
          /\ OpenServer(k) => cst'[k].theirs \subseteq mem[Server]
      BY <3>2, <3>3, <3>4 DEF ConnOK
    <3>6. QED BY <2>1, <3>1, <3>3, <3>5, ConnKept
  <2>4. QED BY <2>1, <2>2, <2>3 DEF ConnsOK
<1>6. CASE ClientPump(k)
  <2>1. DocsOK' /\ Forward BY <1>1, <1>6 DEF ClientPump
  <2>2. cend[k] = "pump" /\ cend'[k] = "loop" /\ UNCHANGED <<send, sst, down>>
    BY <1>6 DEF ClientPump, ConnTypes
  <2>3. OpenClient(k) /\ OpenClient(k)' /\ (OpenServer(k)' <=> OpenServer(k))
    BY <2>2 DEF OpenClient, OpenServer
  <2>4. ConnOK(k) BY DEF ConnsOK
  <2>5. /\ \A i \in 1..Len(up'[k]) : GoodUp(k, up'[k][i])
        /\ \A j \in Conn \ {k} : up'[j] = up[j]
        /\ ~OpenServer(k) => up'[k] = <<>>
    <3>1. CASE up' = up BY <2>4, <3>1 DEF ConnOK
    <3>2. CASE SendUp(k, SyncMsg(cst[k], doc))
      <4>1. cst[k] \in SyncRecord BY DEF ConnTypes
      <4>2. OpenServer(k) => cst[k].theirs \subseteq mem[Server] BY <2>4 DEF ConnOK
      <4>3. QED BY <2>4, <3>2, <4>1, <4>2, SendsUp
    <3>3. QED BY <1>6, <3>1, <3>2 DEF ClientPump
  <2>6. cst'[k].theirs = cst[k].theirs /\ \A j \in Conn \ {k} : cst'[j] = cst[j]
    <3>1. cst[k] \in SyncRecord BY DEF ConnTypes
    <3>2. Generated(cst[k], doc).theirs = cst[k].theirs BY <3>1, GeneratedTheirs
    <3>3. QED BY <1>6, <3>2 DEF ClientPump, ConnTypes
  <2>7. ASSUME NEW j \in Conn, j # k PROVE ConnOK(j)'
    BY <1>6, <2>1, <2>2, <2>5, <2>6, <2>7, ConnSame DEF ClientPump, ConnsOK, ConnTypes
  <2>8. ConnOK(k)'
    <3>1. /\ \A i \in 1..Len(down'[k]) : GoodDown(k, down'[k][i])
          /\ sst'[k].theirs \subseteq doc
          /\ OpenServer(k) => cst'[k].theirs \subseteq mem[Server]
      BY <2>2, <2>3, <2>4, <2>6 DEF ConnOK
    <3>2. QED BY <2>1, <2>2, <2>3, <2>5, <3>1, ConnKept
  <2>9. QED BY <2>1, <2>7, <2>8 DEF ConnsOK
<1>7. CASE ClientSeesClose(k) \/ ClientDrops(k)
  <2>1. DocsOK' /\ Forward BY <1>1, <1>7 DEF ClientSeesClose, ClientDrops
  <2>2. CloseClients({k}) /\ OpenClient(k) /\ UNCHANGED <<send, sst, up>>
    BY <1>7 DEF ClientSeesClose, ClientDrops, OpenClient
  <2>3. QED BY <2>1, <2>2, ClosingClients
<1>8. QED BY <1>2, <1>3, <1>4, <1>5, <1>6, <1>7 DEF ClientStep

LEMMA ServerStepKeeps ==
    ASSUME TypeOK, TypeOK', DocsOK, ConnsOK, NEW k \in Conn, ServerStep(k) \/ ServerDrops(k)
    PROVE  DocsOK' /\ ConnsOK'
<1> USE Owners DEF TypeOK
<1> DEFINE doc == mem[Server]
<1> DEFINE Forward == Grows /\ \A q \in Replica : mem[q] \subseteq mem'[q]
<1>1. ASSUME UNCHANGED docVars PROVE DocsOK' /\ Forward
  BY <1>1 DEF docVars, DocsOK, DocsWritten, CausallyClosed, AckedDurable, Closed, Grows,
              DocTypes
<1> ConnOK(k) BY DEF ConnsOK
\* Steps that send nothing and learn nothing.
<1>2. ASSUME DocsOK', Forward, UNCHANGED <<cend, cst, sst, up, down>>,
             send[k] \in {"gap"} \cup Looping, send'[k] \in Looping,
             \A j \in Conn \ {k} : send'[j] = send[j]
      PROVE  ConnsOK'
  <2>1. ASSUME NEW j \in Conn, j # k PROVE ConnOK(j)'
    BY <1>2, <2>1, ConnSame DEF ConnsOK
  <2>2. OpenServer(k) /\ OpenServer(k)' /\ (OpenClient(k)' <=> OpenClient(k))
    BY <1>2 DEF OpenClient, OpenServer, Looping
  <2>3. /\ \A i \in 1..Len(up'[k]) : GoodUp(k, up'[k][i])
        /\ \A i \in 1..Len(down'[k]) : GoodDown(k, down'[k][i])
        /\ ~OpenClient(k)' => down'[k] = <<>>
        /\ OpenClient(k) => sst'[k].theirs \subseteq mem[Owner[k]]
        /\ cst'[k].theirs \subseteq doc
        /\ cend'[k] # "idle"
    BY <1>2, <2>2 DEF ConnOK, Looping
  <2>4. ConnOK(k)' BY <1>2, <2>2, <2>3, ConnKept
  <2>5. QED BY <2>1, <2>4 DEF ConnsOK
<1>3. CASE ServerGreet(k)
  <2> DEFINE ms == <<HelloMsg, SyncMsg(NewSync, doc)>>
  <2>1. DocsOK' /\ Forward BY <1>1, <1>3 DEF ServerGreet
  <2>2. send[k] = "hello" /\ send'[k] = "gap" /\ UNCHANGED <<cend, cst, up>>
    BY <1>3 DEF ServerGreet, ConnTypes
  <2>3. OpenServer(k) /\ OpenServer(k)' /\ (OpenClient(k)' <=> OpenClient(k))
    BY <2>2 DEF OpenClient, OpenServer
  <2>4. /\ \A i \in 1..Len(down'[k]) : GoodDown(k, down'[k][i])
        /\ \A j \in Conn \ {k} : down'[j] = down[j]
        /\ ~OpenClient(k) => down'[k] = <<>>
    <3>1. NewSync \in SyncRecord /\ NewSync.theirs = {} BY NewSyncType DEF NewSync
    <3>2. GoodDown(k, SyncMsg(NewSync, doc)) BY <3>1, GeneratedFits DEF GoodDown
    <3>3. GoodDown(k, HelloMsg) BY NewSyncType, HelloFits DEF GoodDown
    <3>4. ms \in Seq(Message) BY <3>2, <3>3 DEF GoodDown
    <3>5. \A i \in 1..Len(ms) : ms[i] \in {HelloMsg, SyncMsg(NewSync, doc)} OBVIOUS
    <3>6. SendDown(k, ms) BY <1>3 DEF ServerGreet
    <3> HIDE DEF ms
    <3>7. QED BY <3>2, <3>3, <3>4, <3>5, <3>6, SendsDown
  <2>5. sst'[k].theirs = {} /\ \A j \in Conn \ {k} : sst'[j] = sst[j]
    BY <1>3 DEF ServerGreet, Generated, NewSync, ConnTypes
  <2>6. ASSUME NEW j \in Conn, j # k PROVE ConnOK(j)'
    BY <1>3, <2>1, <2>2, <2>4, <2>5, <2>6, ConnSame DEF ServerGreet, ConnsOK, ConnTypes
  <2>7. ConnOK(k)'
    <3>1. /\ \A i \in 1..Len(up'[k]) : GoodUp(k, up'[k][i])
          /\ cst'[k].theirs \subseteq doc /\ cend'[k] # "idle"
      BY <2>2, <2>3 DEF ConnOK
    <3>2. QED BY <2>1, <2>3, <2>4, <2>5, <3>1, ConnKept
  <2>8. QED BY <2>1, <2>6, <2>7 DEF ConnsOK
<1>4. CASE ServerSubscribe(k)
  <2>1. DocsOK' /\ Forward BY <1>1, <1>4 DEF ServerSubscribe
  <2>2. QED BY <2>1, <1>2, <1>4 DEF ServerSubscribe, Looping, ConnTypes
<1>5. CASE ServerAnnounce(k)
  <2>1. DocsOK' /\ Forward BY <1>1, <1>5 DEF ServerAnnounce
  <2>2. QED BY <2>1, <1>2, <1>5 DEF ServerAnnounce, Looping, ConnTypes
<1>6. CASE ServerNotified(k)
  <2>1. DocsOK' /\ Forward BY <1>1, <1>6 DEF ServerNotified
  <2>2. send[k] = "loop" /\ (send' = send \/ send' = [send EXCEPT ![k] = "pump"])
    BY <1>6 DEF ServerNotified
  <2>3. QED BY <2>1, <2>2, <1>2, <1>6 DEF ServerNotified, Looping, ConnTypes
<1>7. CASE ServerReceive(k)
  <2> DEFINE m == Head(up[k])
  <2>1. up[k] \in Seq(Message) /\ up[k] # <<>> /\ OpenServer(k) /\ send[k] = "loop"
    BY <1>7 DEF ServerReceive, ConnTypes, OpenServer, Looping
  <2>2. /\ m = up[k][1] /\ 1 \in 1..Len(up[k]) /\ m \in Message
        /\ \A i \in 1..Len(Tail(up[k])) :
             Tail(up[k])[i] = up[k][i + 1] /\ i + 1 \in 1..Len(up[k])
    BY <2>1, QueueFrames
  <2>3. GoodUp(k, m) BY <2>2 DEF ConnOK
  <2>4. ApplyFlushed(Server, m) \/ ApplyUnflushed(Server, m) \/ ApplyRejected(Server, m)
    BY <1>7 DEF ServerReceive
  <2>5. DocsOK' /\ Forward BY <2>2, <2>3, <2>4, ApplyKeepsDocs DEF GoodUp
  <2>6. UNCHANGED <<cend, cst, down>> BY <1>7 DEF ServerReceive
  <2>7. CASE /\ send' = [send EXCEPT ![k] = IF mem'[Server] # doc THEN "announce" ELSE "pump"]
             /\ sst' = [sst EXCEPT ![k] = Received(@, doc, m)]
             /\ up' = [up EXCEPT ![k] = Tail(@)]
    <3>1. ASSUME NEW j \in Conn, j # k PROVE ConnOK(j)'
      BY <2>5, <2>6, <2>7, <3>1, ConnSame DEF ConnsOK, ConnTypes
    <3>2. sst'[k].theirs = m.heads
      <4>1. sst[k] \in SyncRecord /\ sst'[k] = Received(sst[k], doc, m)
        BY <2>7 DEF ConnTypes
      <4>2. QED BY <4>1, ReceivedTheirs
    <3>3. \A i \in 1..Len(up'[k]) : GoodUp(k, up'[k][i])
      BY <2>2, <2>7 DEF ConnOK, ConnTypes
    <3>4. send'[k] \in Looping BY <2>7 DEF ConnTypes, Looping
    <3>5. OpenServer(k)' /\ (OpenClient(k)' <=> OpenClient(k))
      BY <2>6, <3>4 DEF OpenServer, OpenClient
    <3>6. /\ OpenClient(k) => sst'[k].theirs \subseteq mem[Owner[k]]
          /\ ~OpenClient(k) => down'[k] = <<>>
          /\ \A i \in 1..Len(down'[k]) : GoodDown(k, down'[k][i])
          /\ cst'[k].theirs \subseteq doc /\ cend'[k] # "idle"
      BY <2>1, <2>3, <2>6, <3>2 DEF ConnOK, GoodUp
    <3>7. ConnOK(k)' BY <2>1, <2>5, <3>3, <3>5, <3>6, ConnKept
    <3>8. QED BY <2>5, <3>1, <3>7 DEF ConnsOK
  <2>8. CASE CloseServers({k})
    <3>1. QED BY <2>1, <2>5, <2>6, <2>8, ClosingServers
  <2>9. QED BY <1>7, <2>7, <2>8 DEF ServerReceive, EndTask
<1>8. CASE ServerPump(k)
  <2>1. DocsOK' /\ Forward BY <1>1, <1>8 DEF ServerPump
  <2>2. send[k] = "pump" /\ send'[k] = "loop" /\ UNCHANGED <<cend, cst, up>>
    BY <1>8 DEF ServerPump, ConnTypes
  <2>3. OpenServer(k) /\ OpenServer(k)' /\ (OpenClient(k)' <=> OpenClient(k))
    BY <2>2 DEF OpenClient, OpenServer, Looping
  <2>4. /\ \A i \in 1..Len(down'[k]) : GoodDown(k, down'[k][i])
        /\ \A j \in Conn \ {k} : down'[j] = down[j]
        /\ ~OpenClient(k) => down'[k] = <<>>
    <3>1. CASE down' = down BY <3>1 DEF ConnOK
    <3>2. CASE SendDown(k, <<SyncMsg(sst[k], doc)>>)
      <4> DEFINE q == SyncMsg(sst[k], doc)
      <4>1. sst[k] \in SyncRecord BY DEF ConnTypes
      <4>2. OpenClient(k) => GoodDown(k, q)
        BY <4>1, GeneratedFits DEF ConnOK, GoodDown
      <4>3. q \in Message
        <5>1. doc \in SUBSET Change BY DEF DocTypes
        <5>2. QED BY <4>1, <5>1, SyncTypes
      <4> HIDE DEF q
      <4>4. <<q>> \in Seq(Message) /\ \A i \in 1..Len(<<q>>) : <<q>>[i] = q BY <4>3
      <4>5. SendDown(k, <<q>>) BY <3>2 DEF q
      <4>6. QED BY <4>2, <4>4, <4>5, SendsDown
    <3>3. QED BY <1>8, <3>1, <3>2 DEF ServerPump
  <2>5. sst'[k].theirs = sst[k].theirs /\ \A j \in Conn \ {k} : sst'[j] = sst[j]
    <3>1. sst[k] \in SyncRecord BY DEF ConnTypes
    <3>2. Generated(sst[k], doc).theirs = sst[k].theirs BY <3>1, GeneratedTheirs
    <3>3. QED BY <1>8, <3>2 DEF ServerPump, ConnTypes
  <2>6. ASSUME NEW j \in Conn, j # k PROVE ConnOK(j)'
    BY <1>8, <2>1, <2>2, <2>4, <2>5, <2>6, ConnSame DEF ServerPump, ConnsOK, ConnTypes
  <2>7. ConnOK(k)'
    <3>1. /\ \A i \in 1..Len(up'[k]) : GoodUp(k, up'[k][i])
          /\ cst'[k].theirs \subseteq doc /\ cend'[k] # "idle"
          /\ OpenClient(k) => sst'[k].theirs \subseteq mem[Owner[k]]
      BY <2>2, <2>3, <2>5 DEF ConnOK
    <3>2. QED BY <2>1, <2>3, <2>4, <3>1, ConnKept
  <2>8. QED BY <2>1, <2>6, <2>7 DEF ConnsOK
<1>9. CASE ServerSeesClose(k) \/ ServerDrops(k)
  <2>1. DocsOK' /\ Forward BY <1>1, <1>9 DEF ServerSeesClose, ServerDrops
  <2>2. CloseServers({k}) /\ OpenServer(k) /\ UNCHANGED <<cend, cst, down>>
    BY <1>9 DEF ServerSeesClose, ServerDrops, EndTask, OpenServer, Looping
  <2>3. QED BY <2>1, <2>2, ClosingServers
<1>10. QED BY <1>3, <1>4, <1>5, <1>6, <1>7, <1>8, <1>9 DEF ServerStep

LEMMA InvSplit == IInv <=> TypeOK /\ DocsOK /\ ConnsOK
BY ConnsSplit DEF IInv, DocsOK, TypeOK

LEMMA InvInit == Init => IInv
<1> SUFFICES ASSUME Init PROVE IInv
  OBVIOUS
<1>1. TypeOK BY TypeInit
<1>2. DocsOK
  BY ConstantsAssumption
  DEF Init, DocsOK, DocsWritten, CausallyClosed, AckedDurable, Closed
<1>3. ConnsOK
  <2>1. ASSUME NEW k \in Conn PROVE ConnOK(k)
    <3>1. 1..Len(up[k]) = {} /\ 1..Len(down[k]) = {} BY DEF Init
    <3>2. QED BY <3>1 DEF Init, ConnOK, NewSync, OpenClient, OpenServer, Looping
  <2>2. QED BY <2>1 DEF ConnsOK
<1>4. QED BY <1>1, <1>2, <1>3, InvSplit

LEMMA InvStep == IInv /\ [Next]_vars => IInv'
<1> SUFFICES ASSUME IInv, [Next]_vars PROVE IInv'
  OBVIOUS
<1>1. TypeOK /\ DocsOK /\ ConnsOK BY InvSplit
<1>2. TypeOK' BY <1>1, TypeStep
<1> USE Owners DEF TypeOK
<1>3. ASSUME DocsOK', ConnsOK' PROVE IInv'
  BY <1>2, <1>3, ConnsSplitNext DEF IInv, DocsOK
\* Nothing but the documents changes.
<1>4. ASSUME DocsOK', Grows, \A q \in Replica : mem[q] \subseteq mem'[q],
             UNCHANGED <<cend, send, cst, sst, up, down>>
      PROVE  ConnsOK'
  BY <1>1, <1>2, <1>4, ConnSame DEF ConnsOK
<1>5. ASSUME UNCHANGED docVars PROVE DocsOK' /\ Grows /\ \A q \in Replica : mem[q] \subseteq mem'[q]
  BY <1>1, <1>5 DEF docVars, DocsOK, DocsWritten, CausallyClosed, AckedDurable, Closed, Grows,
                    DocTypes
<1>6. ASSUME NEW c \in Client, ClientPut(c) PROVE IInv'
  <2>1. DocsOK' /\ Grows /\ \A q \in Replica : mem[q] \subseteq mem'[q]
    BY <1>1, <1>6, PutKeepsDocs DEF ClientPut
  <2>2. QED BY <2>1, <1>3, <1>4, <1>6 DEF ClientPut
<1>7. ASSUME NEW c \in Client, ClientCrash(c) PROVE IInv'
  <2> DEFINE K == {k \in Conn : Owner[k] = c /\ OpenClient(k)}
  <2>1. DocsOK' /\ Grows /\ \A q \in Replica \ {c} : mem'[q] = mem[q]
    BY <1>1, <1>7, CrashKeepsDocs DEF ClientCrash
  <2>2. mem[Server] \subseteq mem'[Server] BY <2>1, ConstantsAssumption
  <2>3. \A k \in Conn \ K : OpenClient(k) => mem[Owner[k]] \subseteq mem'[Owner[k]] BY <2>1
  <2>4. CloseClients(K) /\ UNCHANGED <<send, sst, up>> BY <1>7 DEF ClientCrash
  <2>5. ConnsOK' BY <1>1, <1>2, <2>1, <2>2, <2>3, <2>4, ClosingClients
  <2>6. QED BY <2>1, <2>5, <1>3
<1>8. ASSUME ServerApiRevision \/ ServerApiHead PROVE IInv'
  <2>1. DocsOK' /\ Grows /\ \A q \in Replica : mem[q] \subseteq mem'[q]
    BY <1>1, <1>8, PutKeepsDocs DEF ServerApiRevision, ServerApiHead, ServerApiPut
  <2>2. UNCHANGED connVars BY <1>8 DEF ServerApiRevision, ServerApiHead, ServerApiPut
  <2>3. QED BY <2>1, <2>2, <1>3, <1>4 DEF connVars
<1>9. ASSUME ServerApiNotify \/ ServerApiDropped PROVE IInv'
  BY <1>3, <1>4, <1>5, <1>9 DEF ServerApiNotify, ServerApiDropped, connVars
<1>10. ASSUME ServerCrash PROVE IInv'
  <2> DEFINE K == {k \in Conn : OpenServer(k)}
  <2>1. DocsOK' /\ Grows /\ \A q \in Replica \ {Server} : mem'[q] = mem[q]
    BY <1>1, <1>10, CrashKeepsDocs DEF ServerCrash
  <2>2. \A k \in Conn : mem[Owner[k]] \subseteq mem'[Owner[k]] BY <2>1, ConstantsAssumption
  <2>3. CloseServers(K) /\ UNCHANGED <<cend, cst, down>> BY <1>10 DEF ServerCrash
  <2>4. ConnsOK' BY <1>1, <1>2, <2>1, <2>2, <2>3, ClosingServers
  <2>5. QED BY <2>1, <2>4, <1>3
<1>11. ASSUME NEW k \in Conn, ClientStep(k) \/ ClientDrops(k) PROVE IInv'
  BY <1>1, <1>2, <1>3, <1>11, ClientStepKeeps
<1>12. ASSUME NEW k \in Conn, ServerStep(k) \/ ServerDrops(k) PROVE IInv'
  BY <1>1, <1>2, <1>3, <1>12, ServerStepKeeps
<1>13. CASE UNCHANGED vars
  BY <1>3, <1>4, <1>5, <1>13 DEF vars, connVars
<1>14. QED
  BY <1>6, <1>7, <1>8, <1>9, <1>10, <1>11, <1>12, <1>13 DEF Next

\* The inductive invariant holds in every reachable state.
THEOREM Invariance == Spec => []IInv
BY InvInit, InvStep, PTL DEF Spec

\* No document, in memory or on disk, ever holds a change without the changes it was
\* written on, for any number of clients, reconnections, crashes and failed flushes.
THEOREM CausalClosure == Spec => []CausallyClosed
<1>1. IInv => CausallyClosed BY DEF IInv
<1>2. QED BY <1>1, Invariance, PTL

\* A write that was acknowledged stays in its writer's durable snapshot.
THEOREM AckedWritesSurvive == Spec => []AckedDurable
<1>1. IInv => AckedDurable BY DEF IInv
<1>2. QED BY <1>1, Invariance, PTL

\* Every frame in flight can be applied when it arrives.
THEOREM FramesAlwaysFit == Spec => []FramesFit
<1>1. IInv => FramesFit BY DEF IInv
<1>2. QED BY <1>1, Invariance, PTL

-----------------------------------------------------------------------------
(* CentralSync implements CausalDocs.                                        *)

LEMMA RefinesInit == Init => Docs!Init
<1> SUFFICES ASSUME Init PROVE Docs!Init
  OBVIOUS
<1>1. TypeOK BY TypeInit
<1>2. \A c \in Change : info[c].author \in Replica /\ info[c].past \in SUBSET Change
  BY <1>1 DEF TypeOK, DocTypes, ChangeInfo
<1>3. 1..made = {} BY DEF Init
<1>4. QED BY <1>2, <1>3 DEF Init, Docs!Init

LEMMA PutRefines ==
    ASSUME DocTypes, NEW r \in Replica, PutFlushed(r) \/ PutUnflushed(r)
    PROVE  Docs!Next
<1>1. AddChange(r) BY DEF PutFlushed, PutUnflushed
<1>2. NextChange \in Change /\ NextChange \notin 1..made
      /\ 1..made' = (1..made) \cup {NextChange}
  BY <1>1, ConstantsAssumption DEF AddChange, NextChange, DocTypes
<1>3. /\ \A c \in Change \ {NextChange} : info'[c] = info[c]
      /\ info'[NextChange].author = r /\ info'[NextChange].past = mem[r]
  BY <1>1, <1>2 DEF AddChange, DocTypes
<1>4. /\ [c \in Change |-> info'[c].author]
           = [[c \in Change |-> info[c].author] EXCEPT ![NextChange] = r]
      /\ [c \in Change |-> info'[c].past]
           = [[c \in Change |-> info[c].past] EXCEPT ![NextChange] = mem[r]]
  BY <1>2, <1>3
<1>5. acked' \in {acked, acked \cup {NextChange}} BY DEF PutFlushed, PutUnflushed
<1>6. mem' = [mem EXCEPT ![r] = @ \cup {NextChange}] BY <1>1 DEF AddChange
<1>7. PICK new \in Change : new = NextChange BY <1>2
<1>8. Docs!Write(r, new)
  BY <1>2, <1>4, <1>5, <1>6, <1>7 DEF Docs!Write
<1>9. QED BY <1>8 DEF Docs!Next

LEMMA ApplyRefines ==
    ASSUME DocTypes, DocsOK, NEW r \in Replica, NEW m \in Message, Fits(m, r),
           ApplyFlushed(r, m) \/ ApplyUnflushed(r, m) \/ ApplyRejected(r, m)
    PROVE  [Docs!Next]_Docs!vars
<1>1. CASE ApplyRejected(r, m) BY <1>1 DEF ApplyRejected, docVars, Docs!vars
<1>2. CASE ApplyFlushed(r, m) \/ ApplyUnflushed(r, m)
  <2>1. /\ mem' = [mem EXCEPT ![r] = @ \cup m.changes]
        /\ UNCHANGED <<made, info, acked>>
    BY <1>2 DEF ApplyFlushed, ApplyUnflushed
  <2>2. m.changes \in SUBSET (1..made) BY DEF Fits
  <2>3. Closed(mem'[r])
    BY <2>1, ApplyKeepsDocs DEF DocsOK, CausallyClosed, Closed
  <2>4. mem'[r] = mem[r] \cup m.changes BY <2>1 DEF DocTypes
  <2>5. mem'[r] \subseteq Change BY <2>1, <2>4 DEF DocTypes, Message
  <2>6. Docs!Closed(mem[r] \cup m.changes)
    BY <2>3, <2>4, <2>5 DEF Closed, Docs!Closed
  <2>7. Docs!Merge(r, m.changes) BY <2>1, <2>6 DEF Docs!Merge
  <2>8. QED BY <2>2, <2>7 DEF Docs!Next
<1>3. QED BY <1>1, <1>2

LEMMA CrashRefines ==
    ASSUME DocTypes, DocsOK, NEW r \in Replica, mem' = [mem EXCEPT ![r] = disk[r]],
           UNCHANGED <<made, info, disk, acked>>
    PROVE  Docs!Next
<1>1. disk[r] \in SUBSET mem[r] /\ disk[r] \subseteq Change
  BY DEF DocsOK, DocsWritten, DocTypes
<1>2. Docs!Closed(disk[r])
  BY <1>1 DEF DocsOK, CausallyClosed, Closed, Docs!Closed
<1>3. Docs!OwnAcked(r) \subseteq disk[r]
  BY DEF DocsOK, AckedDurable, Docs!OwnAcked, DocTypes
<1>4. Docs!Restart(r, disk[r]) BY <1>2, <1>3 DEF Docs!Restart
<1>5. QED BY <1>1, <1>4 DEF Docs!Next

LEMMA RefinesStep == IInv /\ [Next]_vars => [Docs!Next]_Docs!vars
<1> SUFFICES ASSUME IInv, [Next]_vars PROVE [Docs!Next]_Docs!vars
  OBVIOUS
<1> USE Owners
<1>1. TypeOK /\ DocTypes /\ ConnTypes /\ DocsOK /\ ConnsOK BY InvSplit DEF TypeOK
<1>2. ASSUME UNCHANGED docVars PROVE UNCHANGED Docs!vars BY <1>2 DEF docVars, Docs!vars
<1>3. ASSUME NEW c \in Client, ClientPut(c) \/ ClientCrash(c) PROVE Docs!Next
  BY <1>1, <1>3, PutRefines, CrashRefines DEF ClientPut, ClientCrash
<1>4. ASSUME ServerApiRevision \/ ServerApiHead PROVE Docs!Next
  BY <1>1, <1>4, PutRefines DEF ServerApiRevision, ServerApiHead, ServerApiPut
<1>5. CASE ServerApiNotify \/ ServerApiDropped
  BY <1>2, <1>5 DEF ServerApiNotify, ServerApiDropped
<1>6. CASE ServerCrash BY <1>1, <1>6, CrashRefines DEF ServerCrash
<1>7. ASSUME NEW k \in Conn, ClientStep(k) \/ ClientDrops(k) PROVE [Docs!Next]_Docs!vars
  <2>1. CASE ClientReceive(k)
    <3> DEFINE m == Head(down[k])
    <3>1. down[k] \in Seq(Message) /\ down[k] # <<>> BY <1>1, <2>1 DEF ClientReceive, ConnTypes
    <3>2. m = down[k][1] /\ 1 \in 1..Len(down[k]) /\ m \in Message BY <3>1, QueueFrames
    <3>3. Fits(m, Owner[k]) BY <1>1, <3>2 DEF ConnsOK, ConnOK, GoodDown
    <3>4. QED BY <1>1, <2>1, <3>2, <3>3, ApplyRefines DEF ClientReceive
  <2>2. CASE ~ClientReceive(k)
    <3>1. UNCHANGED docVars
      BY <1>7, <2>2 DEF ClientStep, Connect, ClientHello, ClientEvent, ClientPump,
                        ClientSeesClose, ClientDrops
    <3>2. QED BY <1>2, <3>1
  <2>3. QED BY <2>1, <2>2
<1>8. ASSUME NEW k \in Conn, ServerStep(k) \/ ServerDrops(k) PROVE [Docs!Next]_Docs!vars
  <2>1. CASE ServerReceive(k)
    <3> DEFINE m == Head(up[k])
    <3>1. up[k] \in Seq(Message) /\ up[k] # <<>> BY <1>1, <2>1 DEF ServerReceive, ConnTypes
    <3>2. m = up[k][1] /\ 1 \in 1..Len(up[k]) /\ m \in Message BY <3>1, QueueFrames
    <3>3. Fits(m, Server) BY <1>1, <3>2 DEF ConnsOK, ConnOK, GoodUp
    <3>4. QED BY <1>1, <2>1, <3>2, <3>3, ApplyRefines DEF ServerReceive
  <2>2. CASE ~ServerReceive(k)
    <3>1. UNCHANGED docVars
      BY <1>8, <2>2 DEF ServerStep, ServerGreet, ServerSubscribe, ServerAnnounce,
                        ServerNotified, ServerPump, ServerSeesClose, ServerDrops
    <3>2. QED BY <1>2, <3>1
  <2>3. QED BY <2>1, <2>2
<1>9. CASE UNCHANGED vars BY <1>2, <1>9 DEF vars, docVars
<1>10. QED BY <1>3, <1>4, <1>5, <1>6, <1>7, <1>8, <1>9 DEF Next

\* The synchronisation of replicas over WebSockets implements the abstract promise of
\* CausalDocs: every step writes, merges a closed set, restarts without losing an
\* acknowledged write, or changes no document.
THEOREM Refinement == Spec => ImplementsCausalDocs
BY RefinesInit, RefinesStep, Invariance, PTL DEF Spec, ImplementsCausalDocs, Docs!Spec

-----------------------------------------------------------------------------
(* What a step does to the documents, and to the frames under way.           *)

Writes(r) == AddChange(r) /\ disk' \in {disk, [disk EXCEPT ![r] = mem'[r]]}
Applies(r, m) ==
    /\ m \in Message
    /\ UNCHANGED <<made, info>>
    /\ mem' = [mem EXCEPT ![r] = @ \cup m.changes]
    /\ disk' \in {disk, [disk EXCEPT ![r] = mem'[r]]}
Forgets(r) ==
    /\ budget.crashes > 0
    /\ mem' = [mem EXCEPT ![r] = disk[r]]
    /\ UNCHANGED <<made, info, disk>>

\* Without a failed flush the snapshot is the document.
KeepsUp(r) == budget.failures = 0 /\ disk[r] = mem[r] => disk'[r] = mem'[r]

LEMMA PutEffect ==
    ASSUME DocTypes, NEW r \in Replica, PutFlushed(r) \/ PutUnflushed(r)
    PROVE  Writes(r) /\ KeepsUp(r)
<1>1. AddChange(r) BY DEF PutFlushed, PutUnflushed
<1>2. mem' = [mem EXCEPT ![r] = @ \cup {NextChange}] BY <1>1 DEF AddChange
<1>3. CASE PutFlushed(r) BY <1>1, <1>2, <1>3 DEF PutFlushed, Writes, KeepsUp, DocTypes
<1>4. CASE PutUnflushed(r) BY <1>1, <1>2, <1>4 DEF PutUnflushed, FlushFails, Writes, KeepsUp
<1>5. QED BY <1>3, <1>4

LEMMA ApplyEffect ==
    ASSUME DocTypes, NEW r \in Replica, NEW m \in Message,
           ApplyFlushed(r, m) \/ ApplyUnflushed(r, m)
    PROVE  Applies(r, m) /\ KeepsUp(r)
<1>1. CASE ApplyFlushed(r, m) BY <1>1 DEF ApplyFlushed, Applies, KeepsUp, DocTypes
<1>2. CASE ApplyUnflushed(r, m)
  BY <1>2 DEF ApplyUnflushed, FlushFails, Applies, KeepsUp, DocTypes
<1>3. QED BY <1>1, <1>2

\* A frame that arrives is one of its queue.
Arrived(r, m) ==
    \E k \in Conn :
        \/ r = Server /\ \E i \in 1..Len(up[k]) : m = up[k][i]
        \/ r = Owner[k] /\ \E i \in 1..Len(down[k]) : m = down[k][i]

DocStep ==
    \/ \E r \in Replica : Writes(r) /\ KeepsUp(r)
    \/ \E r \in Replica : \E m \in Message : Applies(r, m) /\ KeepsUp(r) /\ Arrived(r, m)
    \/ \E r \in Replica : Forgets(r)
    \/ UNCHANGED <<made, info, mem, disk>>

LEMMA DocSteps == IInv /\ [Next]_vars => DocStep
<1> SUFFICES ASSUME IInv, [Next]_vars PROVE DocStep
  OBVIOUS
<1>0. TypeOK /\ DocTypes /\ ConnTypes BY DEF IInv, TypeOK
<1> USE Owners
<1>1. ASSUME NEW c \in Client, ClientPut(c) PROVE DocStep
  BY <1>0, <1>1, PutEffect DEF ClientPut, DocStep
<1>2. ASSUME ServerApiRevision \/ ServerApiHead PROVE DocStep
  BY <1>0, <1>2, PutEffect DEF ServerApiRevision, ServerApiHead, ServerApiPut, DocStep
<1>3. ASSUME NEW c \in Client, ClientCrash(c) PROVE DocStep
  BY <1>3 DEF ClientCrash, DocStep, Forgets
<1>4. ASSUME ServerCrash PROVE DocStep
  BY <1>4 DEF ServerCrash, DocStep, Forgets
<1>5. ASSUME NEW k \in Conn, ClientReceive(k) PROVE DocStep
  <2> DEFINE m == Head(down[k])
  <2>1. down[k] \in Seq(Message) /\ down[k] # <<>> BY <1>0, <1>5 DEF ClientReceive, ConnTypes
  <2>2. m = down[k][1] /\ 1 \in 1..Len(down[k]) /\ m \in Message BY <2>1, QueueFrames
  <2>3. CASE ApplyRejected(Owner[k], m) BY <2>3 DEF ApplyRejected, docVars, DocStep
  <2>4. CASE ApplyFlushed(Owner[k], m) \/ ApplyUnflushed(Owner[k], m)
    <3>1. Applies(Owner[k], m) /\ KeepsUp(Owner[k]) BY <1>0, <2>2, <2>4, ApplyEffect
    <3>2. Arrived(Owner[k], m) BY <2>2 DEF Arrived
    <3>3. QED BY <2>2, <3>1, <3>2 DEF DocStep
  <2>5. QED BY <1>5, <2>3, <2>4 DEF ClientReceive
<1>6. ASSUME NEW k \in Conn, ServerReceive(k) PROVE DocStep
  <2> DEFINE m == Head(up[k])
  <2>1. up[k] \in Seq(Message) /\ up[k] # <<>> BY <1>0, <1>6 DEF ServerReceive, ConnTypes
  <2>2. m = up[k][1] /\ 1 \in 1..Len(up[k]) /\ m \in Message BY <2>1, QueueFrames
  <2>3. CASE ApplyRejected(Server, m) BY <2>3 DEF ApplyRejected, docVars, DocStep
  <2>4. CASE ApplyFlushed(Server, m) \/ ApplyUnflushed(Server, m)
    <3>1. Applies(Server, m) /\ KeepsUp(Server) BY <1>0, <2>2, <2>4, ApplyEffect
    <3>2. Arrived(Server, m) BY <2>2 DEF Arrived
    <3>3. QED BY <2>2, <3>1, <3>2 DEF DocStep
  <2>5. QED BY <1>6, <2>3, <2>4 DEF ServerReceive
<1>7. CASE UNCHANGED docVars BY <1>7 DEF docVars, DocStep
<1>8. QED
  BY <1>1, <1>2, <1>3, <1>4, <1>5, <1>6, <1>7
  DEF Next, ClientStep, ServerStep, vars, ServerApiNotify, ServerApiDropped, Connect, ClientHello, ClientEvent,
      ClientPump, ClientSeesClose, ClientDrops, ServerGreet, ServerSubscribe, ServerAnnounce,
      ServerNotified, ServerPump, ServerSeesClose, ServerDrops

\* Failures and crashes only get fewer.
LEMMA FaultsSpent ==
    IInv /\ [Next]_vars =>
        /\ budget.failures \in Nat /\ budget.crashes \in Nat
        /\ budget'.failures \in {budget.failures, budget.failures - 1}
        /\ budget'.crashes \in {budget.crashes, budget.crashes - 1}
<1> DEFINE Less == /\ budget'.failures \in {budget.failures, budget.failures - 1}
                   /\ budget'.crashes \in {budget.crashes, budget.crashes - 1}
<1> SUFFICES ASSUME IInv, [Next]_vars
             PROVE  budget.failures \in Nat /\ budget.crashes \in Nat /\ Less
  OBVIOUS
<1>0. budget \in Budget /\ budget.failures \in Nat /\ budget.crashes \in Nat
  BY DEF IInv, TypeOK, Budget
<1>1. ASSUME NEW r \in Replica, PutFlushed(r) \/ PutUnflushed(r) PROVE Less
  BY <1>0, <1>1 DEF PutFlushed, PutUnflushed, Budget
<1>2. ASSUME NEW r \in Replica, NEW m,
             ApplyFlushed(r, m) \/ ApplyUnflushed(r, m) \/ ApplyRejected(r, m)
      PROVE  Less
  BY <1>0, <1>2 DEF ApplyFlushed, ApplyUnflushed, ApplyRejected, Budget
<1>3. CASE UNCHANGED budget BY <1>0, <1>3
<1>4. ASSUME NEW c \in Client, ClientPut(c) \/ ClientCrash(c) PROVE Less
  <2>1. CASE ClientPut(c) BY <1>1, <2>1 DEF ClientPut
  <2>2. CASE ClientCrash(c) BY <1>0, <2>2 DEF ClientCrash, Budget
  <2>3. QED BY <1>4, <2>1, <2>2
<1>5. ASSUME \/ ServerApiRevision \/ ServerApiHead \/ ServerApiDropped \/ ServerApiNotify
             \/ ServerCrash
      PROVE  Less
  <2>1. CASE ServerApiRevision \/ ServerApiHead
    BY <1>1, <2>1, Owners DEF ServerApiRevision, ServerApiHead, ServerApiPut
  <2>2. CASE ServerCrash BY <1>0, <2>2 DEF ServerCrash, Budget
  <2>3. CASE ServerApiNotify BY <2>3 DEF ServerApiNotify
  <2>4. CASE ServerApiDropped BY <1>0, <2>4 DEF ServerApiDropped, Budget
  <2>5. QED BY <1>5, <2>1, <2>2, <2>3, <2>4
<1>6. ASSUME NEW k \in Conn, ClientStep(k) \/ ServerStep(k) \/ ClientDrops(k) \/ ServerDrops(k)
      PROVE  Less
  <2>1. CASE ClientReceive(k) BY <1>2, <2>1, Owners DEF ClientReceive
  <2>2. CASE ServerReceive(k) BY <1>2, <2>2, Owners DEF ServerReceive
  <2>3. CASE Connect(k) BY <1>0, <2>3 DEF Connect, Budget
  <2>4. CASE ClientDrops(k) BY <1>0, <2>4 DEF ClientDrops, Budget
  <2>5. CASE ServerDrops(k) BY <1>0, <2>5 DEF ServerDrops, Budget
  <2>6. CASE \/ ClientHello(k) \/ ClientEvent(k) \/ ClientPump(k) \/ ClientSeesClose(k)
             \/ ServerGreet(k) \/ ServerSubscribe(k) \/ ServerAnnounce(k) \/ ServerNotified(k)
             \/ ServerPump(k) \/ ServerSeesClose(k)
    BY <1>3, <2>6
    DEF ClientHello, ClientEvent, ClientPump, ClientSeesClose, ServerGreet, ServerSubscribe,
        ServerAnnounce, ServerNotified, ServerPump, ServerSeesClose
  <2>7. QED
    BY <1>6, <2>1, <2>2, <2>3, <2>4, <2>5, <2>6 DEF ClientStep, ServerStep
<1>7. Less
  BY <1>3, <1>4, <1>5, <1>6 DEF Next, vars
<1>8. QED BY <1>0, <1>7

\* A step that forgets nothing keeps every document and every change that was written.
LEMMA MemoryGrows ==
    ASSUME IInv, [Next]_vars, NothingForgotten
    PROVE  /\ NothingForgotten'
           /\ Flushed => Flushed'
           /\ \A r \in Replica : mem[r] \subseteq mem'[r]
           /\ \/ \E r \in Replica : AddChange(r)
              \/ /\ UNCHANGED <<made, info>>
                 /\ \/ \E r \in Replica : \E m \in Message :
                          mem' = [mem EXCEPT ![r] = @ \cup m.changes] /\ Arrived(r, m)
                    \/ mem' = mem
<1> DEFINE Merges == \E r \in Replica : \E m \in Message :
                        mem' = [mem EXCEPT ![r] = @ \cup m.changes] /\ Arrived(r, m)
<1>0. TypeOK /\ DocTypes BY DEF IInv, TypeOK
<1>1. DocStep BY DocSteps
<1>2. /\ budget.failures \in Nat /\ budget.crashes \in Nat
      /\ budget'.failures \in {budget.failures, budget.failures - 1}
      /\ budget'.crashes \in {budget.crashes, budget.crashes - 1}
      /\ budget'.failures \in Nat /\ budget'.crashes \in Nat
  <2>1. budget' \in Budget BY <1>0, BudgetStep
  <2>2. QED BY <2>1, FaultsSpent DEF Budget
<1>3. ASSUME Flushed' \/ ~Flushed PROVE NothingForgotten' /\ (Flushed => Flushed')
  BY <1>2, <1>3 DEF NothingForgotten, Flushed
<1>4. ASSUME disk' = mem' \/ disk # mem \/ budget.failures # 0 PROVE Flushed' \/ ~Flushed
  BY <1>2, <1>4 DEF Flushed
<1>5. ASSUME NEW r \in Replica, KeepsUp(r), disk' \in {disk, [disk EXCEPT ![r] = mem'[r]]},
             mem' \in [Replica -> SUBSET Change], \A q \in Replica \ {r} : mem'[q] = mem[q]
      PROVE  disk' = mem' \/ disk # mem \/ budget.failures # 0
  <2>1. CASE disk # mem \/ budget.failures # 0 BY <2>1
  <2>2. CASE disk = mem /\ budget.failures = 0
    <3>1. disk'[r] = mem'[r] BY <1>5, <2>2 DEF KeepsUp
    <3>2. disk' \in [Replica -> SUBSET Change] BY <1>0, <1>5 DEF DocTypes
    <3>3. \A q \in Replica : disk'[q] = mem'[q] BY <1>0, <1>5, <2>2, <3>1 DEF DocTypes
    <3>4. QED BY <1>5, <3>2, <3>3
  <2>3. QED BY <2>1, <2>2
<1>6. mem' \in [Replica -> SUBSET Change]
  <2>1. TypeOK' BY <1>0, TypeStep
  <2>2. QED BY <2>1 DEF TypeOK, DocTypes
<1>7. ASSUME NEW r \in Replica, Writes(r), KeepsUp(r)
      PROVE  /\ disk' = mem' \/ disk # mem \/ budget.failures # 0
             /\ \A q \in Replica : mem[q] \subseteq mem'[q]
             /\ AddChange(r)
  <2>1. mem' = [mem EXCEPT ![r] = @ \cup {NextChange}] /\ AddChange(r) BY <1>7 DEF Writes, AddChange
  <2>2. \A q \in Replica \ {r} : mem'[q] = mem[q] BY <1>0, <2>1 DEF DocTypes
  <2>3. \A q \in Replica : mem[q] \subseteq mem'[q] BY <1>0, <2>1 DEF DocTypes
  <2>4. disk' = mem' \/ disk # mem \/ budget.failures # 0 BY <1>5, <1>6, <1>7, <2>2 DEF Writes
  <2>5. QED BY <2>1, <2>3, <2>4
<1>8. ASSUME NEW r \in Replica, NEW m \in Message, Applies(r, m), KeepsUp(r), Arrived(r, m)
      PROVE  /\ disk' = mem' \/ disk # mem \/ budget.failures # 0
             /\ \A q \in Replica : mem[q] \subseteq mem'[q]
             /\ UNCHANGED <<made, info>> /\ Merges
  <2>1. mem' = [mem EXCEPT ![r] = @ \cup m.changes] /\ UNCHANGED <<made, info>> BY <1>8 DEF Applies
  <2>2. \A q \in Replica \ {r} : mem'[q] = mem[q] BY <1>0, <2>1 DEF DocTypes
  <2>3. \A q \in Replica : mem[q] \subseteq mem'[q] BY <1>0, <2>1 DEF DocTypes
  <2>4. disk' = mem' \/ disk # mem \/ budget.failures # 0 BY <1>5, <1>6, <1>8, <2>2 DEF Applies
  <2>5. Merges BY <1>8, <2>1
  <2>6. QED BY <2>1, <2>3, <2>4, <2>5
<1>9. ASSUME NEW r \in Replica, Forgets(r) PROVE mem' = mem /\ disk' = disk /\ UNCHANGED <<made, info>>
  <2>1. budget.crashes > 0 /\ mem' = [mem EXCEPT ![r] = disk[r]] /\ UNCHANGED <<made, info, disk>>
    BY <1>9 DEF Forgets
  <2>2. disk = mem BY <1>2, <2>1 DEF NothingForgotten, Flushed
  <2>3. QED BY <1>0, <2>1, <2>2 DEF DocTypes
<1> HIDE DEF Merges
<1>10. CASE \E r \in Replica : Writes(r) /\ KeepsUp(r)
  BY <1>3, <1>4, <1>7, <1>10
<1>11. CASE \E r \in Replica : \E m \in Message : Applies(r, m) /\ KeepsUp(r) /\ Arrived(r, m)
  BY <1>3, <1>4, <1>8, <1>11 DEF Merges
<1>12. CASE mem' = mem /\ disk' = disk /\ UNCHANGED <<made, info>>
  BY <1>3, <1>4, <1>12
<1>13. QED BY <1>1, <1>9, <1>10, <1>11, <1>12 DEF DocStep

\* A new change gets the next number of its author, who holds all of its own.
LEMMA CountedStep ==
    ASSUME IInv, [Next]_vars, SeqInv
    PROVE  SeqInv'
<1> USE DEF SeqInv
<1>0. TypeOK /\ DocTypes /\ DocTypes' /\ DocsWritten
  <2>1. TypeOK' BY TypeStep DEF IInv
  <2>2. QED BY <2>1 DEF IInv, TypeOK
<1>1. NothingForgotten' /\ \A r \in Replica : mem[r] \subseteq mem'[r]
  BY MemoryGrows
<1>2. IsFiniteSet(Change) BY FS_Interval, ConstantsAssumption
<1>3. \A r \in Replica : IsFiniteSet(Own(r)) /\ Own(r) \subseteq 1..made /\ Cardinality(Own(r)) \in Nat
  <2>1. ASSUME NEW r \in Replica PROVE Own(r) \subseteq Change /\ Own(r) \subseteq 1..made
    BY <1>0 DEF Own, DocTypes, DocsWritten
  <2>2. QED BY <1>2, <2>1, FS_Subset, FS_CardinalityType
<1>4. \A c \in 1..made : c \in Change /\ info[c].author \in Replica /\ info[c].seq \in Nat
  BY <1>0, ConstantsAssumption DEF DocTypes, ChangeInfo
<1>5. ASSUME UNCHANGED <<made, info>> PROVE Counted'
  <2>1. ASSUME NEW r \in Replica PROVE Own(r)' = Own(r)
    <3>1. Own(r) \subseteq Own(r)' BY <1>1, <1>5 DEF Own
    <3>2. ASSUME NEW c \in Own(r)' PROVE c \in Own(r)
      <4>1. c \in 1..made /\ info[c].author = r
        <5>1. DocsWritten'
          <6>1. IInv' BY InvStep
          <6>2. QED BY <6>1 DEF IInv
        <5>2. QED BY <1>5, <5>1 DEF Own, DocsWritten
      <4>2. QED BY <4>1 DEF Counted, Own
    <3>3. QED BY <3>1, <3>2
  <2>2. QED BY <1>1, <1>4, <1>5, <2>1 DEF Counted
<1>6. ASSUME NEW r \in Replica, AddChange(r) PROVE Counted'
  <2> DEFINE n == NextChange
  <2>1. /\ n \in Change /\ n \notin 1..made /\ made' = n /\ 1..made' = (1..made) \cup {n}
    BY <1>0, <1>6, ConstantsAssumption DEF AddChange, NextChange, DocTypes
  <2>2. /\ \A c \in 1..made : info'[c] = info[c]
        /\ info'[n].author = r /\ info'[n].seq = Cardinality(Own(r)) + 1
        /\ mem' = [mem EXCEPT ![r] = @ \cup {n}]
    BY <1>0, <1>6, <2>1 DEF AddChange, Own, DocTypes
  <2> HIDE DEF n
  <2>3. \A q \in Replica : mem[q] \subseteq 1..made BY <1>0 DEF DocsWritten
  <2>4. Own(r)' = Own(r) \cup {n}
    BY <1>0, <2>1, <2>2, <2>3 DEF Own, DocTypes
  <2>5. \A q \in Replica : q # r => Own(q)' = Own(q)
    BY <1>0, <2>1, <2>2, <2>3 DEF Own, DocTypes
  <2>6. Cardinality(Own(r)') = Cardinality(Own(r)) + 1
    <3>1. n \notin Own(r) BY <1>3, <2>1
    <3>2. QED BY <1>3, <2>4, <3>1, FS_AddElement
  <2>7. ASSUME NEW c \in 1..made', NEW a, a = info'[c].author
        PROVE  c \in mem'[a] /\ info'[c].seq <= Cardinality(Own(a)')
    <3>1. CASE c = n BY <1>0, <1>3, <2>2, <2>6, <2>7, <3>1 DEF DocTypes
    <3>2. CASE c \in 1..made
      <4>1. c \in mem[info[c].author] /\ info[c].seq <= Cardinality(Own(info[c].author))
        BY <3>2 DEF Counted
      <4>2. CASE info[c].author = r BY <1>1, <1>3, <1>4, <2>2, <2>6, <2>7, <3>2, <4>1, <4>2
      <4>3. CASE info[c].author # r BY <1>1, <1>4, <2>2, <2>5, <2>7, <3>2, <4>1, <4>3
      <4>4. QED BY <4>2, <4>3
    <3>3. QED BY <2>1, <3>1, <3>2
  <2>8. ASSUME NEW c \in 1..made', NEW d \in 1..made',
               info'[c].author = info'[d].author, info'[c].seq = info'[d].seq
        PROVE  c = d
    <3>1. \A x \in 1..made : info[x].author = r => info[x].seq # Cardinality(Own(r)) + 1
      BY <1>3, <1>4 DEF Counted
    <3>2. CASE c \in 1..made /\ d \in 1..made BY <2>2, <2>8, <3>2 DEF Counted
    <3>3. CASE c = n \/ d = n BY <2>1, <2>2, <2>8, <3>1, <3>3
    <3>4. QED BY <2>1, <3>2, <3>3
  <2>9. QED BY <2>7, <2>8 DEF Counted, Own
<1>7. QED BY <1>1, <1>5, <1>6, MemoryGrows

\* Not both: no behaviour has a failed flush and a crash.
NeverBoth == \A b \in Budgets : b.failures = 0 \/ b.crashes = 0

\* Unless a flush fails and a process crashes in one behaviour, no two changes ever share
\* author and sequence number (CentralReplica::put_record, flush, open_or_create).
THEOREM SeqNeverForks == NeverBoth => (Spec => []NoSeqFork)
<1> SUFFICES ASSUME NeverBoth PROVE Spec => []NoSeqFork
  OBVIOUS
<1>1. Init => SeqInv
  <2> SUFFICES ASSUME Init PROVE SeqInv
    OBVIOUS
  <2>1. 1..made = {} /\ mem = disk BY DEF Init
  <2>2. budget.failures = 0 \/ budget.crashes = 0 BY DEF Init, NeverBoth
  <2>3. QED BY <2>1, <2>2 DEF SeqInv, Counted, NothingForgotten, Flushed
<1>2. IInv /\ SeqInv /\ [Next]_vars => SeqInv'
  BY CountedStep
<1>3. IInv /\ SeqInv => NoSeqFork
  BY DEF IInv, DocsWritten, SeqInv, Counted, NoSeqFork
<1>4. QED BY <1>1, <1>2, <1>3, Invariance, PTL DEF Spec

\* What is in flight to a client was there before, or is the server's.
DownStep ==
    \A k \in Conn : \A i \in 1..Len(down'[k]) :
        \/ \E j \in 1..Len(down[k]) : down'[k][i] = down[k][j]
        \/ down'[k][i].changes \subseteq mem[Server]

LEMMA SendDownStep ==
    ASSUME IInv, NEW k \in Conn, NEW ms \in Seq(Message), SendDown(k, ms),
           \A i \in 1..Len(ms) : ms[i].changes \subseteq mem[Server]
    PROVE  DownStep
<1>0. ConnTypes BY DEF IInv, TypeOK
<1>1. CASE OpenClient(k)
  <2>1. down' = [down EXCEPT ![k] = @ \o ms] BY <1>1 DEF SendDown
  <2>2. down[k] \in Seq(Message) BY <1>0 DEF ConnTypes
  <2>3. \A i \in 1..Len(down[k] \o ms) : \/ \E j \in 1..Len(down[k]) : (down[k] \o ms)[i] = down[k][j]
                                         \/ \E j \in 1..Len(ms) : (down[k] \o ms)[i] = ms[j]
    BY <2>2, QueueFrames
  <2>4. down'[k] = down[k] \o ms /\ \A j \in Conn \ {k} : down'[j] = down[j]
    BY <1>0, <2>1 DEF ConnTypes
  <2>5. ASSUME NEW i \in 1..Len(down'[k])
        PROVE  \/ \E j \in 1..Len(down[k]) : down'[k][i] = down[k][j]
               \/ down'[k][i].changes \subseteq mem[Server]
    <3> DEFINE frame == down'[k][i]
    <3>1. CASE \E j \in 1..Len(down[k]) : frame = down[k][j] BY <3>1
    <3>2. CASE \E j \in 1..Len(ms) : frame = ms[j] BY <3>2
    <3>3. \/ \E j \in 1..Len(down[k]) : frame = down[k][j]
          \/ \E j \in 1..Len(ms) : frame = ms[j]
      BY <2>3, <2>4
    <3> HIDE DEF frame
    <3>4. QED BY <3>1, <3>2, <3>3 DEF frame
  <2>6. QED BY <2>4, <2>5 DEF DownStep
<1>2. CASE ~OpenClient(k) BY <1>2 DEF SendDown, DownStep
<1>3. QED BY <1>1, <1>2

LEMMA DownSteps == IInv /\ [Next]_vars => DownStep
<1> SUFFICES ASSUME IInv, [Next]_vars PROVE DownStep
  OBVIOUS
<1>0. TypeOK /\ DocTypes /\ ConnTypes BY DEF IInv, TypeOK
<1>1. CASE down' = down BY <1>1 DEF DownStep
<1>2. ASSUME NEW K, CloseClients(K) PROVE DownStep
  <2>1. \A k \in Conn : down'[k] \in {<<>>, down[k]} BY <1>2 DEF CloseClients
  <2>2. QED BY <2>1 DEF DownStep
<1>3. ASSUME NEW k \in Conn, down[k] # <<>>, down' = [down EXCEPT ![k] = Tail(@)] PROVE DownStep
  <2>1. down[k] \in Seq(Message) BY <1>0 DEF ConnTypes
  <2>2. \A i \in 1..Len(Tail(down[k])) : Tail(down[k])[i] = down[k][i + 1] /\ i + 1 \in 1..Len(down[k])
    BY <1>3, <2>1, QueueFrames
  <2>3. down'[k] = Tail(down[k]) /\ \A j \in Conn \ {k} : down'[j] = down[j]
    BY <1>0, <1>3 DEF ConnTypes
  <2>4. ASSUME NEW i \in 1..Len(down'[k]) PROVE \E j \in 1..Len(down[k]) : down'[k][i] = down[k][j]
    BY <2>2, <2>3
  <2>5. QED BY <2>3, <2>4 DEF DownStep
<1>4. mem[Server] \in SUBSET Change BY <1>0, Owners DEF DocTypes
<1>5. ASSUME NEW st \in SyncRecord
      PROVE  SyncMsg(st, mem[Server]) \in Message /\ SyncMsg(st, mem[Server]).changes \subseteq mem[Server]
  <2>1. SyncMsg(st, mem[Server]) \in Message BY <1>4, SyncTypes
  <2>2. QED BY <2>1 DEF SyncMsg, Missing
<1>6. ASSUME NEW k \in Conn, ServerGreet(k) PROVE DownStep
  <2> DEFINE q == SyncMsg(NewSync, mem[Server])  ms == <<HelloMsg, q>>
  <2>1. q \in Message /\ q.changes \subseteq mem[Server] BY <1>5, NewSyncType
  <2>2. HelloMsg \in Message /\ HelloMsg.changes = {} BY NewSyncType DEF HelloMsg
  <2>3. SendDown(k, ms) BY <1>6 DEF ServerGreet
  <2> HIDE DEF q
  <2>4. ms \in Seq(Message) BY <2>1, <2>2
  <2>5. \A i \in 1..Len(ms) : ms[i] \in {HelloMsg, q} OBVIOUS
  <2>6. \A i \in 1..Len(ms) : ms[i].changes \subseteq mem[Server] BY <2>1, <2>2, <2>5
  <2> HIDE DEF ms
  <2>7. QED BY <2>3, <2>4, <2>6, SendDownStep
<1>7. ASSUME NEW k \in Conn, ServerPump(k) PROVE DownStep
  <2>1. CASE down' = down BY <1>1, <2>1
  <2>2. CASE SendDown(k, <<SyncMsg(sst[k], mem[Server])>>)
    <3> DEFINE q == SyncMsg(sst[k], mem[Server])
    <3>1. q \in Message /\ q.changes \subseteq mem[Server] BY <1>0, <1>5 DEF ConnTypes
    <3> HIDE DEF q
    <3>2. <<q>> \in Seq(Message) /\ \A i \in 1..Len(<<q>>) : <<q>>[i] = q BY <3>1
    <3>3. \A i \in 1..Len(<<q>>) : <<q>>[i].changes \subseteq mem[Server] BY <3>1, <3>2
    <3>4. SendDown(k, <<q>>) BY <2>2 DEF q
    <3>5. QED BY <3>2, <3>3, <3>4, SendDownStep
  <2>3. QED BY <1>7, <2>1, <2>2 DEF ServerPump
<1>8. ASSUME NEW k \in Conn, ClientStep(k) \/ ClientDrops(k) PROVE DownStep
  BY <1>1, <1>2, <1>3, <1>8
  DEF ClientStep, ClientDrops, Connect, ClientHello, ClientReceive, ClientEvent, ClientPump,
      ClientSeesClose
<1>9. ASSUME NEW k \in Conn, ServerStep(k) \/ ServerDrops(k) PROVE DownStep
  BY <1>1, <1>6, <1>7, <1>9
  DEF ServerStep, ServerDrops, ServerSubscribe, ServerReceive, ServerAnnounce, ServerNotified,
      ServerSeesClose
<1>10. ASSUME NEW c \in Client, ClientPut(c) \/ ClientCrash(c) PROVE DownStep
  BY <1>1, <1>2, <1>10 DEF ClientPut, ClientCrash
<1>11. ASSUME \/ ServerApiRevision \/ ServerApiHead \/ ServerApiDropped \/ ServerApiNotify
              \/ ServerCrash
       PROVE  DownStep
  BY <1>1, <1>11
  DEF ServerApiRevision, ServerApiHead, ServerApiPut, ServerApiDropped, ServerApiNotify,
      ServerCrash, connVars
<1>12. QED BY <1>1, <1>8, <1>9, <1>10, <1>11 DEF Next, vars, connVars

\* What reaches a client came from the server, whose document only grows.
LEMMA ObservedStep ==
    ASSUME IInv, [Next]_vars, ObservedInv
    PROVE  ObservedInv'
<1>0. TypeOK /\ DocTypes /\ DocsWritten
  BY DEF IInv, TypeOK
<1> USE Owners
<1>1. Flushed /\ NothingForgotten BY DEF ObservedInv, NothingForgotten
<1>2. Flushed' /\ \A r \in Replica : mem[r] \subseteq mem'[r]
  BY <1>1, MemoryGrows
<1>3. \A k \in Conn : \A i \in 1..Len(down'[k]) : down'[k][i].changes \subseteq mem'[Server]
  <2>1. DownStep BY DownSteps
  <2>2. QED BY <1>2, <2>1 DEF DownStep, ObservedInv
<1>4. ASSUME NEW c \in Client, NEW x \in mem[c], info'[x] = info[x]
      PROVE  x \in Own(c)' \cup mem'[Server]
  <2>1. x \in Own(c) \cup mem[Server] BY DEF ObservedInv
  <2>2. QED BY <1>2, <1>4, <2>1 DEF Own
<1>5. ASSUME NEW r \in Replica, AddChange(r), NEW c \in Client
      PROVE  mem'[c] \subseteq Own(c)' \cup mem'[Server]
  <2>1. /\ NextChange \in Change /\ NextChange \notin 1..made
        /\ mem' = [mem EXCEPT ![r] = @ \cup {NextChange}]
        /\ \A x \in 1..made : info'[x] = info[x]
        /\ info'[NextChange].author = r
    BY <1>0, <1>5, ConstantsAssumption DEF AddChange, NextChange, DocTypes
  <2>2. \A x \in mem[c] : info'[x] = info[x] BY <1>0, <2>1 DEF DocsWritten
  <2>3. ASSUME NEW x \in mem'[c] PROVE x \in Own(c)' \cup mem'[Server]
    <3>1. CASE x \in mem[c] BY <1>4, <2>2, <3>1
    <3>2. CASE x = NextChange /\ c = r BY <2>1, <2>3, <3>2 DEF Own
    <3>3. QED BY <1>0, <2>1, <2>3, <3>1, <3>2 DEF DocTypes
  <2>4. QED BY <2>3
<1>6. ASSUME NEW r \in Replica, NEW m \in Message, Arrived(r, m), UNCHANGED info,
             mem' = [mem EXCEPT ![r] = @ \cup m.changes], NEW c \in Client
      PROVE  mem'[c] \subseteq Own(c)' \cup mem'[Server]
  <2>1. ASSUME NEW x \in mem'[c] PROVE x \in Own(c)' \cup mem'[Server]
    <3>1. CASE x \in mem[c] BY <1>4, <1>6, <3>1
    <3>2. CASE x \in m.changes /\ c = r
      <4>1. r # Server BY <3>2, ConstantsAssumption
      <4>2. m.changes \subseteq mem[Server] BY <1>6, <4>1 DEF Arrived, ObservedInv
      <4>3. QED BY <1>2, <3>2, <4>2
    <3>3. QED BY <1>0, <1>6, <2>1, <3>1, <3>2 DEF DocTypes
  <2>2. QED BY <2>1
<1>7. ASSUME mem' = mem, UNCHANGED info, NEW c \in Client
      PROVE  mem'[c] \subseteq Own(c)' \cup mem'[Server]
  BY <1>4, <1>7
<1>8. \A c \in Client : mem'[c] \subseteq Own(c)' \cup mem'[Server]
  BY <1>1, <1>5, <1>6, <1>7, MemoryGrows
<1>9. QED BY <1>2, <1>3, <1>8 DEF ObservedInv

\* No flush fails.
NeverFails == \A b \in Budgets : b.failures = 0

\* While every flush succeeds, a client holds a change of somebody else only when it is in
\* the server's durable snapshot (serve_socket applies and flushes before it answers).
THEOREM DurableBeforeObserved == NeverFails => (Spec => []ServerDurableBeforeObserved)
<1> SUFFICES ASSUME NeverFails PROVE Spec => []ServerDurableBeforeObserved
  OBVIOUS
<1>1. Init => ObservedInv
  <2> SUFFICES ASSUME Init PROVE ObservedInv
    OBVIOUS
  <2>1. Flushed BY DEF Init, NeverFails, Flushed
  <2>2. \A k \in Conn : 1..Len(down[k]) = {} BY DEF Init
  <2>3. \A c \in Client : mem[c] = {} BY DEF Init
  <2>4. QED BY <2>1, <2>2, <2>3 DEF ObservedInv
<1>2. IInv /\ ObservedInv /\ [Next]_vars => ObservedInv'
  BY ObservedStep
<1>3. ObservedInv => ServerDurableBeforeObserved
  BY DEF ObservedInv, Flushed, Own, ServerDurableBeforeObserved
<1>4. QED BY <1>1, <1>2, <1>3, Invariance, PTL DEF Spec

-----------------------------------------------------------------------------
(***************************************************************************)
(* No wake-up is lost. The tasks of a connection sleep when nothing wakes  *)
(* them; the two documents are equal by then, unless a receiver has been   *)
(* overrun, a flush has failed or an item request has put a change that it *)
(* has not announced. An end that sleeps has told the other what it holds, *)
(* or the other has told it the same; and of two ends that await an answer *)
(* one has a frame to read.                                                *)
(***************************************************************************)

\* A merge into the server's document is about to be announced, or a notification to k is
\* unread.
DocNoticed(k) ==
    \/ \E j \in Conn : send[j] = "announce"
    \/ \E i \in 1..Len(notif[k]) : notif[k][i] = "doc"

\* Both ends of k wait, and nothing is on its way to either.
Settled(k) ==
    /\ cend[k] = "loop" /\ send[k] = "loop"
    /\ up[k] = <<>> /\ down[k] = <<>>
    /\ ~wake[k] /\ ~DocNoticed(k)

\* What item requests have put and not announced: those that still run, and those that were
\* dropped before they could.
Unsaid == requested \cup unannounced

SettledAgree ==
    \A k \in Conn : Settled(k) =>
        mem[Owner[k]] \subseteq mem[Server] /\ mem[Server] \ mem[Owner[k]] \subseteq Unsaid

\* No receiver is overrun.
NoneLagged == \A k \in Conn : ~lagged[k]

Greeted(k) == cend[k] \in {"loop", "pump"} /\ send[k] \in {"gap"} \cup Looping

\* What the last frame of a queue told, or what was told before it.
ToldLast(queue, before) == IF queue = <<>> THEN before ELSE queue[Len(queue)].heads

\* The two sync states of a connection and what is between them.
Answered(k) ==
    /\ send[k] = "hello" => cend[k] \in {"hello", "closed"} /\ down[k] = <<>>
    /\ send[k] = "gap" => sst[k].flying /\ ~sst[k].heard
    /\ cend[k] = "hello" /\ send[k] \in {"gap"} \cup Looping =>
          down[k] # <<>> /\ Head(down[k]).heads = {}
    /\ cend[k] = "loop" /\ ~cst[k].flying => cst[k].last = cst[k].theirs
    /\ send[k] = "loop" /\ ~sst[k].flying => sst[k].last = sst[k].theirs
    /\ OpenClient(k) /\ send[k] \in {"gap"} \cup Looping /\ sst[k].flying =>
          sst[k].last = ToldLast(down[k], cst[k].theirs)
    /\ Greeted(k) /\ cst[k].flying => cst[k].last = ToldLast(up[k], sst[k].theirs)
    /\ Greeted(k) /\ ~sst[k].heard => up[k] # <<>>
    /\ Greeted(k) /\ cst[k].flying /\ sst[k].flying => up[k] # <<>> \/ down[k] # <<>>

\* An end that sleeps has announced its document, or something wakes it.
ClientDue(k) == cend[k] = "loop" => cst[k].last = mem[Owner[k]] \/ wake[k]
ServerDue(k) ==
    send[k] = "loop" /\ sst[k].heard =>
        \/ sst[k].last \subseteq mem[Server] /\ mem[Server] \ sst[k].last \subseteq Unsaid
        \/ DocNoticed(k)

\* A client has one connection at a time.
OneByOne == \A j, k \in Conn :
    Owner[j] = Owner[k] /\ j[2] < k[2] /\ cend[k] # "idle" => cend[j] = "closed"

WakeIInv ==
    /\ budget.failures = 0 /\ mem = disk
    /\ OneByOne
    /\ \A k \in Conn : Len(notif[k]) <= Capacity
    /\ \A k \in Conn : Answered(k)
    /\ \A k \in Conn : ClientDue(k)
    /\ \A k \in Conn : ServerDue(k)

\* Where both ends sleep, they agree.
LEMMA WakeIInvSettles == IInv /\ WakeIInv => SettledAgree
<1> SUFFICES ASSUME IInv, WakeIInv, NEW k \in Conn, Settled(k)
             PROVE  /\ mem[Owner[k]] \subseteq mem[Server]
                    /\ mem[Server] \ mem[Owner[k]] \subseteq Unsaid
  BY DEF SettledAgree
<1>1. /\ Answered(k) /\ ClientDue(k) /\ ServerDue(k)
      /\ cend[k] = "loop" /\ send[k] = "loop" /\ up[k] = <<>> /\ down[k] = <<>>
      /\ ~wake[k] /\ ~DocNoticed(k)
  BY DEF WakeIInv, Settled
<1>2. Greeted(k) /\ OpenClient(k)
  BY <1>1 DEF Greeted, Looping, OpenClient
<1>3. sst[k].heard
  BY <1>1, <1>2 DEF Answered
<1>4. /\ cst[k].last = mem[Owner[k]]
      /\ sst[k].last \subseteq mem[Server] /\ mem[Server] \ sst[k].last \subseteq Unsaid
  BY <1>1, <1>3 DEF ClientDue, ServerDue
<1>5. ToldLast(up[k], sst[k].theirs) = sst[k].theirs /\ ToldLast(down[k], cst[k].theirs) = cst[k].theirs
  BY <1>1 DEF ToldLast
<1>6. CASE ~cst[k].flying /\ ~sst[k].flying
  <2>1. cst[k].last = cst[k].theirs /\ sst[k].last = sst[k].theirs
    BY <1>1, <1>6 DEF Answered
  <2>2. OpenServer(k)
    BY <1>1 DEF OpenServer, Looping
  <2>3. sst[k].theirs \subseteq mem[Owner[k]] /\ cst[k].theirs \subseteq mem[Server]
    BY <1>2, <2>2 DEF IInv, PeersKnown
  <2> QED BY <1>4, <2>1, <2>3
<1>7. CASE ~cst[k].flying /\ sst[k].flying
  BY <1>1, <1>2, <1>4, <1>5, <1>7 DEF Answered, Looping
<1>8. CASE cst[k].flying /\ ~sst[k].flying
  BY <1>1, <1>2, <1>4, <1>5, <1>8 DEF Answered
<1>9. ~(cst[k].flying /\ sst[k].flying)
  BY <1>1, <1>2 DEF Answered
<1> QED BY <1>6, <1>7, <1>8, <1>9

-----------------------------------------------------------------------------
(* Queues and sync states *)

LEMMA ToldAppended ==
    ASSUME NEW s \in Seq(Message), NEW m \in Message, NEW before
    PROVE  /\ ToldLast(Append(s, m), before) = m.heads /\ Append(s, m) # <<>>
           /\ ToldLast(s \o <<m>>, before) = m.heads /\ s \o <<m>> # <<>>
           /\ s # <<>> => Head(s \o <<m>>) = Head(s)
<1>1. /\ Append(s, m) \in Seq(Message) /\ Len(Append(s, m)) = Len(s) + 1
      /\ Append(s, m)[Len(s) + 1] = m
  OBVIOUS
<1>2. /\ Len(s \o <<m>>) = Len(s) + 1 /\ (s \o <<m>>)[Len(s) + 1] = m
      /\ s # <<>> => (s \o <<m>>)[1] = s[1]
  OBVIOUS
<1>3. Append(s, m) # <<>> /\ s \o <<m>> # <<>>
  BY <1>1, <1>2
<1>4. s # <<>> => Head(s \o <<m>>) = Head(s)
  BY <1>2, <1>3
<1>5. ToldLast(Append(s, m), before) = m.heads
  BY <1>1, <1>3 DEF ToldLast
<1>6. ToldLast(s \o <<m>>, before) = m.heads
  BY <1>2, <1>3 DEF ToldLast
<1> QED BY <1>3, <1>4, <1>5, <1>6

LEMMA EmptyQueue == \A s \in Seq(Message) : s = <<>> <=> Len(s) = 0
OBVIOUS

LEMMA ToldPopped ==
    ASSUME NEW s \in Seq(Message), s # <<>>, NEW before
    PROVE  ToldLast(Tail(s), Head(s).heads) = ToldLast(s, before)
<1>1. Len(s) \in Nat \ {0} /\ Head(s) = s[1] /\ Tail(s) \in Seq(Message)
      /\ Len(Tail(s)) = Len(s) - 1 /\ \A i \in 1..Len(s) - 1 : Tail(s)[i] = s[i + 1]
  OBVIOUS
<1>2. CASE Len(s) = 1
  <2>1. Tail(s) = <<>>
    <3>1. Len(Tail(s)) = 0
      BY <1>1, <1>2
    <3> QED BY <1>1, <3>1, EmptyQueue
  <2> QED BY <1>1, <1>2, <2>1 DEF ToldLast
<1>3. CASE Len(s) # 1
  <2>1. Tail(s)[Len(s) - 1] = s[Len(s)] /\ Len(Tail(s)) # 0
    BY <1>1, <1>3
  <2>2. Tail(s) # <<>>
    BY <1>1, <2>1, EmptyQueue
  <2> QED BY <1>1, <2>1, <2>2 DEF ToldLast
<1> QED BY <1>2, <1>3

LEMMA SyncFields ==
    ASSUME NEW st \in SyncRecord, NEW doc
    PROVE  /\ Generated(st, doc).flying /\ Generated(st, doc).last = doc
           /\ Generated(st, doc).theirs = st.theirs /\ Generated(st, doc).heard = st.heard
           /\ SyncMsg(st, doc).heads = doc
           /\ Quiet(st, doc) => /\ st.last = doc
                                /\ ~st.flying => st.last = st.theirs
BY DEF SyncRecord, Generated, SyncMsg, Quiet

LEMMA ReceivedFields ==
    ASSUME NEW st \in SyncRecord, NEW doc, NEW m
    PROVE  /\ ~Received(st, doc, m).flying /\ Received(st, doc, m).heard
           /\ Received(st, doc, m).theirs = m.heads
BY DEF SyncRecord, Received

LEMMA NewSyncFields == NewSync.theirs = {} /\ ~NewSync.heard /\ HelloMsg.heads = {}
BY DEF NewSync, HelloMsg

\* A broadcast that overruns nobody is added to what is unread.
LEMMA BroadcastAdds ==
    ASSUME NEW msg \in {"doc", "presence"}, NEW K, Broadcast(msg, K), NEW k \in Conn, k \in K,
           ~lagged'[k], notif[k] \in Seq({"doc", "presence"}), Len(notif[k]) <= Capacity
    PROVE  /\ Len(notif'[k]) <= Capacity
           /\ msg = "doc" => \E i \in 1..Len(notif'[k]) : notif'[k][i] = "doc"
           /\ \A i \in 1..Len(notif[k]) : i \in 1..Len(notif'[k]) /\ notif'[k][i] = notif[k][i]
<1>1. Len(notif[k]) # Capacity
  BY DEF Broadcast
<1>2. Len(notif[k]) < Capacity /\ Len(notif[k]) \in Nat
  BY <1>1, ConstantsAssumption
<1>3. notif'[k] = Append(notif[k], msg)
  BY <1>2 DEF Broadcast
<1>4. /\ Len(notif'[k]) = Len(notif[k]) + 1 /\ notif'[k][Len(notif[k]) + 1] = msg
      /\ \A i \in 1..Len(notif[k]) : notif'[k][i] = notif[k][i]
  BY <1>3
<1> QED BY <1>2, <1>4, ConstantsAssumption

-----------------------------------------------------------------------------
(* The steps of the ends of a connection *)

Ends(k) == <<cend[k], send[k], cst[k], sst[k], up[k], down[k]>>

LEMMA AnsweredKept ==
    ASSUME NEW k \in Conn, Answered(k), UNCHANGED Ends(k)
    PROVE  Answered(k)'
BY DEF Answered, Ends, OpenClient, Greeted, Looping

LEMMA AnsweredClosed ==
    ASSUME ConnTypes, NEW k \in Conn, NEW K, k \in K, Answered(k),
           \/ CloseClients(K) /\ UNCHANGED <<send[k], sst[k], up[k]>>
           \/ CloseServers(K) /\ UNCHANGED <<cend[k], cst[k], down[k]>>
    PROVE  Answered(k)'
<1>1. CASE CloseClients(K) /\ UNCHANGED <<send[k], sst[k], up[k]>>
  <2>1. cend'[k] = "closed" /\ down'[k] = <<>>
    BY <1>1 DEF CloseClients
  <2> QED BY <1>1, <2>1 DEF Answered, OpenClient, Greeted, Looping
<1>2. CASE CloseServers(K) /\ UNCHANGED <<cend[k], cst[k], down[k]>>
  <2>1. send'[k] = "closed"
    BY <1>2 DEF CloseServers
  <2> QED BY <1>2, <2>1 DEF Answered, OpenClient, Greeted, Looping
<1> QED BY <1>1, <1>2

LEMMA AnsweredClient ==
    ASSUME IInv, NEW k \in Conn, Answered(k), ClientStep(k) \/ ClientDrops(k)
    PROVE  Answered(k)'
<1> DEFINE doc == mem[Owner[k]]
<1>0. /\ ConnTypes /\ cst[k] \in SyncRecord /\ sst[k] \in SyncRecord
      /\ up[k] \in Seq(Message) /\ down[k] \in Seq(Message) /\ doc \in SUBSET Change
      /\ NewSync \in SyncRecord
  BY Owners, NewSyncType DEF IInv, TypeOK, ConnTypes, DocTypes
<1>1. CASE Connect(k)
  <2>1. cend[k] = "idle" /\ down[k] = <<>>
    BY <1>1 DEF Connect, IInv, PeersKnown, OpenClient
  <2>2. /\ cend'[k] = "hello" /\ send'[k] = "hello" /\ down'[k] = <<>>
        /\ UNCHANGED <<cst, sst>>
    BY <1>0, <1>1, <2>1 DEF Connect, ConnTypes
  <2> QED BY <2>2 DEF Answered, OpenClient, Greeted, Looping
<1>2. CASE ClientHello(k)
  <2>1. /\ cend[k] = "hello" /\ down[k] # <<>> /\ cend'[k] = "loop"
        /\ cst'[k] = Generated(NewSync, doc) /\ down'[k] = Tail(down[k])
        /\ UNCHANGED <<send, sst>> /\ SendUp(k, SyncMsg(NewSync, doc))
    BY <1>0, <1>2 DEF ClientHello, ConnTypes
  <2>2. cst'[k].flying /\ cst'[k].last = doc /\ cst'[k].theirs = {}
    BY <1>0, <2>1, SyncFields, NewSyncFields
  <2>3. SyncMsg(NewSync, doc) \in Message /\ SyncMsg(NewSync, doc).heads = doc
    BY <1>0, SyncTypes, SyncFields
  <2>4. send[k] # "hello"
    BY <2>1 DEF Answered
  <2>5. send[k] \in {"gap"} \cup Looping =>
            /\ up'[k] # <<>> /\ ToldLast(up'[k], sst'[k].theirs) = doc
            /\ ToldLast(down'[k], {}) = ToldLast(down[k], cst[k].theirs)
    <3>1. SUFFICES ASSUME send[k] \in {"gap"} \cup Looping
                   PROVE  /\ up'[k] # <<>> /\ ToldLast(up'[k], sst'[k].theirs) = doc
                          /\ ToldLast(down'[k], {}) = ToldLast(down[k], cst[k].theirs)
      OBVIOUS
    <3>2. up'[k] = Append(up[k], SyncMsg(NewSync, doc))
      BY <1>0, <2>1, <3>1 DEF SendUp, OpenServer, ConnTypes
    <3>3. Head(down[k]).heads = {}
      BY <2>1, <3>1 DEF Answered
    <3> DEFINE q == SyncMsg(NewSync, doc)
    <3>4. q \in Message /\ q.heads = doc /\ up'[k] = Append(up[k], q)
      BY <2>3, <3>2
    <3> HIDE DEF q
    <3>5. up'[k] # <<>> /\ ToldLast(up'[k], sst'[k].theirs) = doc
      BY <1>0, <3>4, ToldAppended
    <3>6. ToldLast(down'[k], {}) = ToldLast(down[k], cst[k].theirs)
      BY <1>0, <2>1, <3>3, ToldPopped
    <3> QED BY <3>5, <3>6
  <2> QED BY <2>1, <2>2, <2>4, <2>5 DEF Answered, OpenClient, Greeted, Looping
<1>3. CASE ClientReceive(k)
  <2> DEFINE m == Head(down[k])
  <2>1. cend[k] = "loop" /\ down[k] # <<>> /\ UNCHANGED <<send, sst, up>>
    BY <1>3 DEF ClientReceive
  <2>2. CASE CloseClients({k})
    BY <1>0, <2>1, <2>2, AnsweredClosed
  <2>3. CASE /\ down' = [down EXCEPT ![k] = Tail(@)]
             /\ cend' = [cend EXCEPT ![k] = "pump"]
             /\ cst' = [cst EXCEPT ![k] = Received(@, doc, m)]
    <3>1. /\ cend'[k] = "pump" /\ down'[k] = Tail(down[k]) /\ ~cst'[k].flying
          /\ cst'[k].theirs = m.heads
      BY <1>0, <2>3, ReceivedFields DEF ConnTypes
    <3>2. ToldLast(down'[k], cst'[k].theirs) = ToldLast(down[k], cst[k].theirs)
      BY <1>0, <2>1, <3>1, ToldPopped
    <3> QED BY <2>1, <3>1, <3>2 DEF Answered, OpenClient, Greeted, Looping
  <2> QED BY <1>3, <2>2, <2>3 DEF ClientReceive
<1>4. CASE ClientEvent(k)
  <2>1. /\ cend[k] = "loop" /\ cend'[k] = "pump" /\ UNCHANGED <<send, cst, sst, up, down>>
    BY <1>0, <1>4 DEF ClientEvent, ConnTypes
  <2> QED BY <2>1 DEF Answered, OpenClient, Greeted, Looping
<1>5. CASE ClientPump(k)
  <2>1. cend[k] = "pump" /\ cend'[k] = "loop" /\ UNCHANGED <<send, sst, down>>
    BY <1>0, <1>5 DEF ClientPump, ConnTypes
  <2>2. CASE Quiet(cst[k], doc)
    <3>1. UNCHANGED <<cst, up>>
      BY <1>5, <2>2 DEF ClientPump
    <3>2. ~cst[k].flying => cst[k].last = cst[k].theirs
      BY <1>0, <2>2, SyncFields
    <3> QED BY <2>1, <3>1, <3>2 DEF Answered, OpenClient, Greeted, Looping
  <2>3. CASE ~Quiet(cst[k], doc)
    <3>1. cst' = [cst EXCEPT ![k] = Generated(@, doc)] /\ SendUp(k, SyncMsg(cst[k], doc))
      BY <1>5, <2>3 DEF ClientPump
    <3>2. cst'[k].flying /\ cst'[k].last = doc /\ cst'[k].theirs = cst[k].theirs
      BY <1>0, <3>1, SyncFields DEF ConnTypes
    <3> DEFINE q == SyncMsg(cst[k], doc)
    <3>3. q \in Message /\ q.heads = doc
      BY <1>0, SyncTypes, SyncFields
    <3>4. send[k] \in {"gap"} \cup Looping =>
              up'[k] # <<>> /\ ToldLast(up'[k], sst'[k].theirs) = doc
      <4>1. send[k] \in {"gap"} \cup Looping => up'[k] = Append(up[k], q)
        BY <1>0, <3>1 DEF SendUp, OpenServer, ConnTypes
      <4> HIDE DEF q
      <4> QED BY <1>0, <3>3, <4>1, ToldAppended
    <3> QED BY <2>1, <3>2, <3>4 DEF Answered, OpenClient, Greeted, Looping
  <2> QED BY <2>2, <2>3
<1>6. CASE ClientSeesClose(k) \/ ClientDrops(k)
  BY <1>0, <1>6, AnsweredClosed DEF ClientSeesClose, ClientDrops
<1> QED BY <1>1, <1>2, <1>3, <1>4, <1>5, <1>6 DEF ClientStep

LEMMA AnsweredServer ==
    ASSUME IInv, NEW k \in Conn, Answered(k), ServerStep(k) \/ ServerDrops(k)
    PROVE  Answered(k)'
<1> DEFINE doc == mem[Server]
<1>0. /\ ConnTypes /\ cst[k] \in SyncRecord /\ sst[k] \in SyncRecord
      /\ up[k] \in Seq(Message) /\ down[k] \in Seq(Message) /\ doc \in SUBSET Change
      /\ NewSync \in SyncRecord
  BY Owners, NewSyncType DEF IInv, TypeOK, ConnTypes, DocTypes
<1>1. CASE ServerGreet(k)
  <2> DEFINE q == SyncMsg(NewSync, doc)
  <2>1. /\ send[k] = "hello" /\ send'[k] = "gap" /\ sst'[k] = Generated(NewSync, doc)
        /\ UNCHANGED <<cend, cst, up>> /\ SendDown(k, <<HelloMsg, q>>)
    BY <1>0, <1>1 DEF ServerGreet, ConnTypes
  <2>2. sst'[k].flying /\ sst'[k].last = doc /\ ~sst'[k].heard
    BY <1>0, <2>1, SyncFields, NewSyncFields
  <2>3. q.heads = doc /\ HelloMsg.heads = {}
    BY <1>0, SyncFields, NewSyncFields
  <2>4. cend[k] \in {"hello", "closed"} /\ down[k] = <<>>
    BY <2>1 DEF Answered
  <2>5. OpenClient(k) => /\ down'[k] # <<>> /\ Head(down'[k]).heads = {}
                         /\ ToldLast(down'[k], cst'[k].theirs) = doc
    <3>1. OpenClient(k) => down'[k] = <<HelloMsg, q>>
      BY <1>0, <2>1, <2>4 DEF SendDown, ConnTypes
    <3> HIDE DEF q
    <3>2. <<HelloMsg, q>> # <<>> /\ Len(<<HelloMsg, q>>) = 2 /\ <<HelloMsg, q>>[2] = q
          /\ Head(<<HelloMsg, q>>) = HelloMsg
      OBVIOUS
    <3> QED BY <2>3, <3>1, <3>2 DEF ToldLast
  <2> QED BY <2>1, <2>2, <2>4, <2>5 DEF Answered, OpenClient, Greeted, Looping
<1>2. CASE ServerSubscribe(k)
  <2>1. send[k] = "gap" /\ send'[k] = "loop" /\ UNCHANGED <<cend, cst, sst, up, down>>
    BY <1>0, <1>2 DEF ServerSubscribe, ConnTypes
  <2> QED BY <2>1 DEF Answered, OpenClient, Greeted, Looping
<1>3. ASSUME EndTask(k), UNCHANGED <<cend, cst, down>> PROVE Answered(k)'
  BY <1>0, <1>3, AnsweredClosed DEF EndTask
<1>4. CASE ServerReceive(k)
  <2> DEFINE m == Head(up[k])
  <2>1. send[k] = "loop" /\ up[k] # <<>> /\ UNCHANGED <<cend, cst, down>>
    BY <1>4 DEF ServerReceive
  <2>2. CASE /\ send' = [send EXCEPT ![k] = IF mem'[Server] # mem[Server]
                                            THEN "announce" ELSE "pump"]
             /\ sst' = [sst EXCEPT ![k] = Received(@, doc, m)]
             /\ up' = [up EXCEPT ![k] = Tail(@)]
    <3>1. /\ send'[k] \in {"announce", "pump"} /\ up'[k] = Tail(up[k]) /\ ~sst'[k].flying
          /\ sst'[k].theirs = m.heads /\ sst'[k].heard
      BY <1>0, <2>2, ReceivedFields DEF ConnTypes
    <3>2. ToldLast(up'[k], sst'[k].theirs) = ToldLast(up[k], sst[k].theirs)
      BY <1>0, <2>1, <3>1, ToldPopped
    <3> QED BY <2>1, <3>1, <3>2 DEF Answered, OpenClient, Greeted, Looping
  <2> QED BY <1>3, <1>4, <2>1, <2>2 DEF ServerReceive
<1>5. CASE ServerAnnounce(k) \/ ServerNotified(k)
  <2>1. /\ send[k] \in {"loop", "announce"} /\ send'[k] \in {send[k], "pump"}
        /\ send[k] = "announce" => send'[k] = "pump"
        /\ UNCHANGED <<cend, cst, sst, up, down>>
    BY <1>0, <1>5 DEF ServerAnnounce, ServerNotified, ConnTypes
  <2> QED BY <2>1 DEF Answered, OpenClient, Greeted, Looping
<1>6. CASE ServerPump(k)
  <2>1. send[k] = "pump" /\ send'[k] = "loop" /\ UNCHANGED <<cend, cst, up>>
    BY <1>0, <1>6 DEF ServerPump, ConnTypes
  <2>2. CASE Quiet(sst[k], doc)
    <3>1. UNCHANGED <<sst, down>>
      BY <1>6, <2>2 DEF ServerPump
    <3>2. ~sst[k].flying => sst[k].last = sst[k].theirs
      BY <1>0, <2>2, SyncFields
    <3> QED BY <2>1, <3>1, <3>2 DEF Answered, OpenClient, Greeted, Looping
  <2>3. CASE ~Quiet(sst[k], doc)
    <3> DEFINE q == SyncMsg(sst[k], doc)
    <3>1. sst' = [sst EXCEPT ![k] = Generated(@, doc)] /\ SendDown(k, <<q>>)
      BY <1>6, <2>3 DEF ServerPump
    <3>2. /\ sst'[k].flying /\ sst'[k].last = doc /\ sst'[k].theirs = sst[k].theirs
          /\ sst'[k].heard = sst[k].heard
      BY <1>0, <3>1, SyncFields DEF ConnTypes
    <3>3. q \in Message /\ q.heads = doc
      BY <1>0, SyncTypes, SyncFields
    <3>4. OpenClient(k) => /\ down'[k] # <<>> /\ ToldLast(down'[k], cst'[k].theirs) = doc
                           /\ down[k] # <<>> => Head(down'[k]) = Head(down[k])
      <4>1. OpenClient(k) => down'[k] = down[k] \o <<q>>
        BY <1>0, <3>1 DEF SendDown, ConnTypes
      <4> HIDE DEF q
      <4> QED BY <1>0, <3>3, <4>1, ToldAppended
    <3> QED BY <2>1, <3>2, <3>4 DEF Answered, OpenClient, Greeted, Looping
  <2> QED BY <2>2, <2>3
<1>7. CASE ServerSeesClose(k) \/ ServerDrops(k)
  BY <1>3, <1>7 DEF ServerSeesClose, ServerDrops
<1> QED BY <1>1, <1>2, <1>4, <1>5, <1>6, <1>7 DEF ServerStep

-----------------------------------------------------------------------------
(* The steps as a connection sees them *)

Acts(j) == ClientStep(j) \/ ServerStep(j) \/ ClientDrops(j) \/ ServerDrops(j)

\* A step of one connection leaves the ends of the others.
LEMMA OthersRest ==
    ASSUME ConnTypes, NEW j \in Conn, NEW k \in Conn, j # k, Acts(j)
    PROVE  UNCHANGED <<Ends(k), wake[k]>>
<1>1. ASSUME CloseClients({j}), UNCHANGED <<send, sst, up>>
      PROVE  UNCHANGED <<Ends(k), wake[k]>>
  <2>1. wake'[k] = (wake[k] /\ k \notin {j}) /\ wake[k] \in BOOLEAN
    BY <1>1 DEF CloseClients, ConnTypes
  <2>2. wake'[k] = wake[k]
    BY <2>1
  <2> QED BY <1>1, <2>2 DEF CloseClients, Ends
<1>2. ASSUME CloseServers({j}), UNCHANGED <<cend, cst, down, wake>>
      PROVE  UNCHANGED <<Ends(k), wake[k]>>
  BY <1>2 DEF CloseServers, Ends
<1>3. CASE ClientStep(j) \/ ClientDrops(j)
  <2>1. CASE Connect(j)
    BY <2>1 DEF Connect, ConnTypes, Ends
  <2>2. CASE ClientHello(j)
    BY <2>2 DEF ClientHello, SendUp, ConnTypes, Ends
  <2>3. CASE ClientReceive(j)
    BY <1>1, <2>3 DEF ClientReceive, ConnTypes, Ends
  <2>4. CASE ClientEvent(j)
    BY <2>4 DEF ClientEvent, ConnTypes, Ends
  <2>5. CASE ClientPump(j)
    BY <2>5 DEF ClientPump, SendUp, ConnTypes, Ends
  <2>6. CASE ClientSeesClose(j) \/ ClientDrops(j)
    BY <1>1, <2>6 DEF ClientSeesClose, ClientDrops
  <2> QED BY <1>3, <2>1, <2>2, <2>3, <2>4, <2>5, <2>6 DEF ClientStep
<1>4. CASE ServerStep(j) \/ ServerDrops(j)
  <2>1. CASE ServerGreet(j)
    BY <2>1 DEF ServerGreet, SendDown, ConnTypes, Ends
  <2>2. CASE ServerSubscribe(j)
    BY <2>2 DEF ServerSubscribe, ConnTypes, Ends
  <2>3. CASE ServerReceive(j)
    BY <1>2, <2>3 DEF ServerReceive, EndTask, ConnTypes, Ends
  <2>4. CASE ServerAnnounce(j)
    BY <2>4 DEF ServerAnnounce, ConnTypes, Ends
  <2>5. CASE ServerNotified(j)
    BY <2>5 DEF ServerNotified, ConnTypes, Ends
  <2>6. CASE ServerPump(j)
    BY <2>6 DEF ServerPump, SendDown, ConnTypes, Ends
  <2>7. CASE ServerSeesClose(j) \/ ServerDrops(j)
    BY <1>2, <2>7 DEF ServerSeesClose, ServerDrops, EndTask
  <2> QED BY <1>4, <2>1, <2>2, <2>3, <2>4, <2>5, <2>6, <2>7 DEF ServerStep
<1> QED BY <1>3, <1>4 DEF Acts

LEMMA AnsweredStep ==
    ASSUME IInv, \A k \in Conn : Answered(k), [Next]_vars, NEW k \in Conn
    PROVE  Answered(k)'
<1>0. ConnTypes /\ Answered(k)
  BY DEF IInv, TypeOK
<1>1. CASE UNCHANGED connVars
  BY <1>0, <1>1, AnsweredKept DEF connVars, Ends
<1>2. ASSUME NEW c \in Client, ClientPut(c) PROVE Answered(k)'
  BY <1>0, <1>2, AnsweredKept DEF ClientPut, Ends
<1>3. ASSUME NEW c \in Client, ClientCrash(c) PROVE Answered(k)'
  <2> DEFINE K == {i \in Conn : Owner[i] = c /\ OpenClient(i)}
  <2>1. CloseClients(K) /\ UNCHANGED <<send, sst, up>>
    BY <1>3 DEF ClientCrash
  <2>2. CASE k \in K
    BY <1>0, <2>1, <2>2, AnsweredClosed
  <2>3. CASE k \notin K
    <3> HIDE DEF K
    <3>1. UNCHANGED Ends(k)
      BY <2>1, <2>3 DEF CloseClients, Ends
    <3> QED BY <1>0, <3>1, AnsweredKept
  <2> QED BY <2>2, <2>3
<1>4. ASSUME ServerCrash PROVE Answered(k)'
  <2> DEFINE K == {i \in Conn : OpenServer(i)}
  <2>1. CloseServers(K) /\ UNCHANGED <<cend, cst, down>>
    BY <1>4 DEF ServerCrash
  <2>2. CASE k \in K
    BY <1>0, <2>1, <2>2, AnsweredClosed
  <2>3. CASE k \notin K
    <3> HIDE DEF K
    <3>1. UNCHANGED Ends(k)
      BY <2>1, <2>3 DEF CloseServers, Ends
    <3> QED BY <1>0, <3>1, AnsweredKept
  <2> QED BY <2>2, <2>3
<1>5. ASSUME NEW j \in Conn, Acts(j) PROVE Answered(k)'
  <2>1. CASE j = k
    BY <1>0, <1>5, <2>1, AnsweredClient, AnsweredServer DEF Acts
  <2>2. CASE j # k
    BY <1>0, <1>5, <2>2, OthersRest, AnsweredKept
  <2> QED BY <2>1, <2>2
<1>6. CASE ServerApiRevision \/ ServerApiHead \/ ServerApiDropped \/ ServerApiNotify
  BY <1>0, <1>6, AnsweredKept
  DEF ServerApiRevision, ServerApiHead, ServerApiPut, ServerApiDropped, ServerApiNotify,
      connVars, Ends
<1> QED BY <1>1, <1>2, <1>3, <1>4, <1>5, <1>6 DEF Next, vars, Acts

\* Connections open in their order, and stay closed.
LEMMA OneByOneStep == ASSUME IInv, OneByOne, [Next]_vars PROVE OneByOne'
<1>0. ConnTypes
  BY DEF IInv, TypeOK
<1>1. ASSUME \A k \in Conn : /\ cend'[k] = "idle" <=> cend[k] = "idle"
                             /\ cend[k] = "closed" => cend'[k] = "closed"
      PROVE  OneByOne'
  BY <1>1 DEF OneByOne
<1>2. ASSUME NEW K, CloseClients(K), \A k \in Conn : k \in K => cend[k] # "idle" PROVE OneByOne'
  BY <1>1, <1>2 DEF CloseClients
<1>3. CASE cend' = cend
  BY <1>1, <1>3
<1>4. ASSUME NEW c \in Client, ClientCrash(c) PROVE OneByOne'
  BY <1>2, <1>4 DEF ClientCrash, OpenClient
<1>5. ASSUME NEW j \in Conn, ClientStep(j) \/ ClientDrops(j) PROVE OneByOne'
  <2>1. CASE Connect(j)
    <3>1. /\ cend[j] = "idle" /\ cend' = [cend EXCEPT ![j] = "hello"]
          /\ \A i \in Conn : Owner[i] = Owner[j] /\ i[2] < j[2] => cend[i] = "closed"
      BY <2>1 DEF Connect
    <3>2. \A i \in Conn : Owner[i] = Owner[j] /\ j[2] < i[2] => cend[i] = "idle"
      BY <3>1 DEF OneByOne
    <3>3. \A i \in Conn : i # j => cend'[i] = cend[i]
      BY <1>0, <3>1 DEF ConnTypes
    <3>4. \A i \in Conn : i[2] \in Nat
      BY ConstantsAssumption DEF Conn
    <3> QED BY <3>1, <3>2, <3>3, <3>4 DEF OneByOne
  <2>2. CASE \E at \in {"loop", "pump"} : cend' = [cend EXCEPT ![j] = at]
             /\ cend[j] \in {"hello", "loop", "pump"}
    BY <1>0, <1>1, <2>2 DEF ConnTypes
  <2>3. CASE CloseClients({j}) /\ cend[j] # "idle"
    BY <1>2, <2>3
  <2> QED BY <1>5, <2>1, <2>2, <2>3 DEF ClientStep, ClientHello, ClientReceive, ClientEvent,
             ClientPump, ClientSeesClose, ClientDrops, OpenClient
<1>6. ASSUME NEW j \in Conn, ServerStep(j) \/ ServerDrops(j) PROVE OneByOne'
  BY <1>3, <1>6 DEF ServerStep, ServerGreet, ServerSubscribe, ServerReceive, ServerAnnounce,
                    ServerNotified, ServerPump, ServerSeesClose, ServerDrops
<1>7. CASE \/ \E c \in Client : ClientPut(c)
           \/ ServerApiRevision \/ ServerApiHead \/ ServerApiDropped \/ ServerApiNotify
           \/ ServerCrash
  BY <1>3, <1>7 DEF ClientPut, ServerApiRevision, ServerApiHead, ServerApiPut, ServerApiDropped,
                    ServerApiNotify, ServerCrash, connVars
<1>8. CASE UNCHANGED vars
  BY <1>3, <1>8 DEF vars, connVars
<1> QED BY <1>4, <1>5, <1>6, <1>7, <1>8 DEF Next

\* While no flush fails, a client's document changes by a write, which wakes its tasks, or
\* by a merge of the one connection it has; a restart loads what was there.
LEMMA ClientDueStep ==
    ASSUME IInv, WakeIInv, [Next]_vars, NEW k \in Conn
    PROVE  ClientDue(k)'
<1> DEFINE c == Owner[k]
<1>0. /\ ConnTypes /\ mem \in [Replica -> SUBSET Change] /\ c \in Client /\ c \in Replica
      /\ Server \in Replica /\ c # Server /\ Server \notin Client
      /\ ClientDue(k) /\ budget.failures = 0 /\ OneByOne
      /\ cst[k] \in SyncRecord /\ mem[c] \in SUBSET Change /\ NewSync \in SyncRecord
  BY Owners, ConstantsAssumption, NewSyncType DEF IInv, TypeOK, DocTypes, ConnTypes, WakeIInv
<1>1. ASSUME UNCHANGED <<cend[k], cst[k], mem[c]>>, wake[k] => wake'[k] PROVE ClientDue(k)'
  BY <1>0, <1>1 DEF ClientDue
<1>2. ASSUME cend'[k] # "loop" PROVE ClientDue(k)'
  BY <1>2 DEF ClientDue
<1>3. ASSUME NEW d \in Client, ClientPut(d) PROVE ClientDue(k)'
  <2>1. UNCHANGED <<cend, cst>> /\ \A r \in Replica \ {d} : mem'[r] = mem[r]
    BY <1>0, <1>3 DEF ClientPut, PutFlushed, PutUnflushed, AddChange
  <2>2. wake' = [i \in Conn |-> wake[i] \/ (Owner[i] = d /\ cend[i] \in {"loop", "pump"})]
    BY <1>0, <1>3 DEF ClientPut, PutUnflushed, FlushFails
  <2>3. CASE d = c
    BY <2>1, <2>2, <2>3 DEF ClientDue
  <2>4. CASE d # c
    BY <1>0, <1>1, <2>1, <2>2, <2>4
  <2> QED BY <2>3, <2>4
<1>4. ASSUME NEW d \in Client, ClientCrash(d) PROVE ClientDue(k)'
  <2>1. mem' = mem
    BY <1>0, <1>4 DEF ClientCrash, WakeIInv
  <2> DEFINE K == {i \in Conn : Owner[i] = d /\ OpenClient(i)}
  <2>2. CloseClients(K)
    BY <1>4 DEF ClientCrash
  <2> HIDE DEF K
  <2> QED BY <1>1, <1>2, <2>1, <2>2 DEF CloseClients
<1>5. CASE \/ ServerApiRevision \/ ServerApiHead \/ ServerApiDropped \/ ServerApiNotify
           \/ ServerCrash
  <2>1. mem'[c] = mem[c]
    BY <1>0, <1>5 DEF ServerApiRevision, ServerApiHead, ServerApiPut, ServerApiDropped,
                      ServerApiNotify, ServerCrash, PutFlushed, PutUnflushed, AddChange, docVars
  <2>2. UNCHANGED <<cend, cst, wake>>
    BY <1>5 DEF ServerApiRevision, ServerApiHead, ServerApiPut, ServerApiDropped,
                ServerApiNotify, ServerCrash, connVars
  <2> QED BY <1>1, <2>1, <2>2
<1>6. ASSUME NEW j \in Conn, Acts(j) PROVE ClientDue(k)'
  <2>1. CASE ServerStep(j) \/ ServerDrops(j)
    <3>1. mem'[c] = mem[c]
      BY <1>0, <2>1 DEF ServerStep, ServerGreet, ServerSubscribe, ServerReceive, ServerAnnounce,
         ServerNotified, ServerPump, ServerSeesClose, ServerDrops, docVars, ApplyFlushed,
         ApplyUnflushed, ApplyRejected
    <3>2. UNCHANGED <<cend, cst, wake>>
      BY <2>1 DEF ServerStep, ServerGreet, ServerSubscribe, ServerReceive, ServerAnnounce,
         ServerNotified, ServerPump, ServerSeesClose, ServerDrops
    <3> QED BY <1>1, <3>1, <3>2
  <2>2. CASE (ClientStep(j) \/ ClientDrops(j)) /\ j # k
    <3>1. UNCHANGED <<cend[k], cst[k], wake[k]>>
      BY <1>0, <1>6, <2>2, OthersRest DEF Ends
    <3>2. CASE mem'[c] = mem[c]
      BY <1>1, <3>1, <3>2
    <3>3. CASE mem'[c] # mem[c]
      <4>1. ClientReceive(j) /\ Owner[j] = c
        BY <1>0, <2>2, <3>3 DEF ClientStep, ClientDrops, Connect, ClientHello, ClientReceive,
           ClientEvent, ClientPump, ClientSeesClose, docVars, ApplyFlushed, ApplyUnflushed,
           ApplyRejected
      <4>2. cend[j] = "loop"
        BY <4>1 DEF ClientReceive
      <4>3. j[1] = k[1] /\ j = <<j[1], j[2]>> /\ k = <<k[1], k[2]>> /\ j[2] \in Nat /\ k[2] \in Nat
        BY <4>1, ConstantsAssumption DEF Conn, Owner
      <4>4. j[2] < k[2] \/ k[2] < j[2]
        BY <2>2, <4>3
      <4>5. cend[k] # "loop"
        BY <1>0, <4>1, <4>2, <4>4 DEF OneByOne
      <4> QED BY <1>2, <3>1, <4>5
    <3> QED BY <3>2, <3>3
  <2>3. CASE ClientStep(k) \/ ClientDrops(k)
    <3>1. CASE ClientHello(k)
      <4>1. cst'[k] = Generated(NewSync, mem[c]) /\ mem' = mem
        BY <1>0, <3>1 DEF ClientHello, docVars, ConnTypes
      <4> QED BY <1>0, <4>1, SyncFields DEF ClientDue
    <3>2. CASE ClientPump(k)
      <4>1. mem' = mem
        BY <3>2 DEF ClientPump, docVars
      <4>2. CASE Quiet(cst[k], mem[c])
        BY <1>0, <3>2, <4>1, <4>2, SyncFields DEF ClientPump, ClientDue
      <4>3. CASE ~Quiet(cst[k], mem[c])
        <5>1. cst'[k] = Generated(cst[k], mem[c])
          BY <1>0, <3>2, <4>3 DEF ClientPump, ConnTypes
        <5> QED BY <1>0, <4>1, <5>1, SyncFields DEF ClientDue
      <4> QED BY <4>2, <4>3
    <3>3. CASE Connect(k) \/ ClientReceive(k) \/ ClientEvent(k) \/ ClientSeesClose(k) \/ ClientDrops(k)
      <4>1. cend'[k] # "loop"
        BY <1>0, <3>3 DEF Connect, ClientReceive, ClientEvent, ClientSeesClose, ClientDrops,
                          CloseClients, ConnTypes
      <4> QED BY <1>2, <4>1
    <3> QED BY <2>3, <3>1, <3>2, <3>3 DEF ClientStep
  <2> QED BY <1>6, <2>1, <2>2, <2>3 DEF Acts
<1>7. CASE UNCHANGED vars
  BY <1>1, <1>7 DEF vars, docVars, connVars
<1> QED BY <1>3, <1>4, <1>5, <1>6, <1>7 DEF Next, Acts

\* Notifications that are unread stay unread, and a broadcast of a document is noticed.
NoticeKept(k) ==
    \A i \in 1..Len(notif[k]) : i \in 1..Len(notif'[k]) /\ notif'[k][i] = notif[k][i]
AnnouncersKept == \A j \in Conn : send[j] = "announce" => send'[j] = "announce"

LEMMA NotifPopped ==
    ASSUME NEW s \in Seq({"doc", "presence"}), s # <<>>, NEW i \in 1..Len(s)
    PROVE  /\ i = 1 => s[i] = Head(s)
           /\ i # 1 => i - 1 \in 1..Len(Tail(s)) /\ Tail(s)[i - 1] = s[i]
OBVIOUS

LEMMA NoticedKept ==
    ASSUME NEW k \in Conn, NoticeKept(k), AnnouncersKept, DocNoticed(k)
    PROVE  DocNoticed(k)'
BY DEF NoticeKept, AnnouncersKept, DocNoticed

LEMMA NotifBounded ==
    ASSUME IInv, WakeIInv, [Next]_vars, NoneLagged, NoneLagged', NEW k \in Conn
    PROVE  Len(notif'[k]) <= Capacity
<1>0. /\ notif[k] \in Seq({"doc", "presence"}) /\ Len(notif[k]) <= Capacity
      /\ notif \in [Conn -> Seq({"doc", "presence"})] /\ ~lagged[k] /\ ~lagged'[k]
      /\ Len(<<>>) <= Capacity
  BY ConstantsAssumption DEF IInv, TypeOK, ConnTypes, WakeIInv, NoneLagged
<1>1. ASSUME NEW msg \in {"doc", "presence"}, NEW K, Broadcast(msg, K)
      PROVE  Len(notif'[k]) <= Capacity
  <2>1. CASE k \in K
    BY <1>0, <1>1, <2>1, BroadcastAdds
  <2>2. CASE k \notin K
    BY <1>0, <1>1, <2>2 DEF Broadcast
  <2> QED BY <2>1, <2>2
<1>2. CASE notif' = notif
  BY <1>0, <1>2
<1>3. ASSUME NEW j \in Conn, ServerNotified(j) PROVE Len(notif'[k]) <= Capacity
  <2>1. CASE notif' = [notif EXCEPT ![j] = Tail(@)] /\ notif[j] # <<>>
    <3>1. CASE j = k
      <4>1. notif'[k] = Tail(notif[k]) /\ notif[k] # <<>>
        BY <1>0, <2>1, <3>1
      <4>2. Len(Tail(notif[k])) <= Len(notif[k])
        BY <1>0, <4>1
      <4> QED BY <1>0, <4>1, <4>2, ConstantsAssumption
    <3>2. CASE j # k
      BY <1>0, <2>1, <3>2
    <3> QED BY <3>1, <3>2
  <2> QED BY <1>2, <1>3, <2>1 DEF ServerNotified
<1>4. ASSUME NEW j \in Conn, ServerStep(j) \/ ServerDrops(j) PROVE Len(notif'[k]) <= Capacity
  BY <1>1, <1>2, <1>3, <1>4 DEF ServerStep, ServerGreet, ServerSubscribe, ServerReceive,
     ServerAnnounce, AnnounceDocument, ServerPump, ServerSeesClose, ServerDrops, EndTask
<1>5. ASSUME NEW j \in Conn, ClientStep(j) \/ ClientDrops(j) PROVE notif' = notif
  BY <1>5 DEF ClientStep, ClientDrops, Connect, ClientHello, ClientReceive, ClientEvent,
              ClientPump, ClientSeesClose
<1>6. CASE ServerApiNotify
  BY <1>1, <1>6 DEF ServerApiNotify, AnnounceDocument
<1>7. CASE ServerCrash
  BY <1>0, <1>7 DEF ServerCrash
<1>8. CASE \/ \E c \in Client : ClientPut(c) \/ ClientCrash(c)
           \/ ServerApiRevision \/ ServerApiHead \/ ServerApiDropped
  BY <1>2, <1>8 DEF ClientPut, ClientCrash, ServerApiRevision, ServerApiHead, ServerApiPut,
                    ServerApiDropped, connVars
<1>9. CASE UNCHANGED vars
  BY <1>2, <1>9 DEF vars, connVars
<1> QED BY <1>2, <1>4, <1>5, <1>6, <1>7, <1>8, <1>9 DEF Next

LEMMA ServerDueStep ==
    ASSUME IInv, WakeIInv, [Next]_vars, NoneLagged, NoneLagged', NEW k \in Conn
    PROVE  ServerDue(k)'
<1>0. /\ ConnTypes /\ mem \in [Replica -> SUBSET Change] /\ Server \in Replica
      /\ Server \notin Client /\ \A j \in Conn : Owner[j] \in Client
      /\ ServerDue(k) /\ Answered(k) /\ budget.failures = 0 /\ ~lagged[k] /\ ~lagged'[k]
      /\ notif[k] \in Seq({"doc", "presence"}) /\ Len(notif[k]) <= Capacity
      /\ sst[k] \in SyncRecord /\ mem[Server] \in SUBSET Change
  BY Owners, ConstantsAssumption
  DEF IInv, TypeOK, DocTypes, ConnTypes, WakeIInv, NoneLagged
<1>1. ASSUME send'[k] # "loop" PROVE ServerDue(k)'
  BY <1>1 DEF ServerDue
<1>2. ASSUME DocNoticed(k)' PROVE ServerDue(k)'
  BY <1>2 DEF ServerDue
<1>3. ASSUME NoticeKept(k), AnnouncersKept, UNCHANGED <<send[k], sst[k], mem[Server]>>,
             Unsaid \subseteq Unsaid'
      PROVE  ServerDue(k)'
  <2>1. DocNoticed(k) => DocNoticed(k)'
    BY <1>3, NoticedKept
  <2> QED BY <1>0, <1>3, <2>1 DEF ServerDue
<1>4. UNCHANGED notif => NoticeKept(k)
  BY DEF NoticeKept
<1>5. UNCHANGED send => AnnouncersKept
  BY DEF AnnouncersKept
<1>6. ASSUME NEW K, k \in K, Broadcast("doc", K) PROVE DocNoticed(k)'
  BY <1>0, <1>6, BroadcastAdds DEF DocNoticed
<1>7. ASSUME NEW K, k \in K, Broadcast("presence", K) PROVE NoticeKept(k)
  BY <1>0, <1>7, BroadcastAdds DEF NoticeKept
<1>8. send[k] = "loop" => k \in Receivers
  BY DEF Receivers, Subscribed, Looping
<1>9. ASSUME NEW c \in Client, ClientPut(c) \/ ClientCrash(c) PROVE ServerDue(k)'
  <2>1. UNCHANGED <<Unsaid, send, sst, notif>>
    BY <1>9 DEF ClientPut, ClientCrash, apiVars, Unsaid
  <2>2. mem'[Server] = mem[Server]
    BY <1>0, <1>9 DEF ClientPut, ClientCrash, PutFlushed, PutUnflushed, AddChange
  <2> QED BY <1>3, <1>4, <1>5, <2>1, <2>2
<1>10. ASSUME NEW j \in Conn, ClientStep(j) \/ ClientDrops(j) PROVE ServerDue(k)'
  <2>1. UNCHANGED <<Unsaid, send, sst, notif>> \/ Connect(j)
    BY <1>10 DEF ClientStep, ClientDrops, ClientHello, ClientReceive, ClientEvent, ClientPump,
                 ClientSeesClose, apiVars, Unsaid
  <2>2. mem'[Server] = mem[Server]
    BY <1>0, <1>10 DEF ClientStep, ClientDrops, Connect, ClientHello, ClientReceive, ClientEvent,
       ClientPump, ClientSeesClose, docVars, ApplyFlushed, ApplyUnflushed, ApplyRejected
  <2>3. CASE Connect(j)
    <3>1. /\ UNCHANGED <<Unsaid, sst, notif>> /\ cend[j] = "idle"
          /\ send' = [send EXCEPT ![j] = "hello"]
      BY <2>3 DEF Connect, apiVars, Unsaid
    <3>2. send[j] = "idle"
      BY <3>1 DEF IInv, PeersKnown
    <3>3. AnnouncersKept
      BY <1>0, <3>1, <3>2 DEF AnnouncersKept, ConnTypes
    <3>4. send'[k] = send[k] \/ send'[k] = "hello"
      BY <1>0, <3>1 DEF ConnTypes
    <3> QED BY <1>1, <1>3, <1>4, <2>2, <3>1, <3>3, <3>4
  <2> QED BY <1>3, <1>4, <1>5, <2>1, <2>2, <2>3
<1>11. CASE ServerApiRevision \/ ServerApiHead
  <2>1. mem' = [mem EXCEPT ![Server] = @ \cup {NextChange}]
    BY <1>11 DEF ServerApiRevision, ServerApiHead, ServerApiPut, PutFlushed, PutUnflushed, AddChange
  <2>2. mem'[Server] = mem[Server] \cup {NextChange}
    BY <1>0, <2>1
  <2>3. requested' = requested \cup {NextChange} /\ unannounced' = unannounced
    BY <1>0, <1>11
    DEF ServerApiRevision, ServerApiHead, ServerApiPut, PutUnflushed, FlushFails
  <2>4. UNCHANGED <<send, sst, notif>>
    BY <1>11 DEF ServerApiRevision, ServerApiHead, ServerApiPut, connVars
  <2>5. DocNoticed(k) => DocNoticed(k)'
    BY <1>4, <1>5, <2>4, NoticedKept
  <2> QED BY <1>0, <2>2, <2>3, <2>4, <2>5 DEF ServerDue, Unsaid
<1>12. CASE ServerApiNotify
  <2>1. Broadcast("doc", Receivers) /\ send' = send
    BY <1>12 DEF ServerApiNotify, AnnounceDocument
  <2> QED BY <1>1, <1>2, <1>6, <1>8, <2>1
<1>17. CASE ServerApiDropped
  <2>1. UNCHANGED <<send, sst, mem, notif>> /\ Unsaid \subseteq Unsaid'
    BY <1>17 DEF ServerApiDropped, docVars, connVars, Unsaid
  <2> QED BY <1>3, <1>4, <1>5, <2>1
<1>13. CASE ServerCrash
  <2>1. send'[k] # "loop"
    BY <1>13 DEF ServerCrash, CloseServers, OpenServer, Looping
  <2> QED BY <1>1, <2>1
<1>14. CASE ServerStep(k) \/ ServerDrops(k)
  <2>1. CASE ServerSubscribe(k)
    BY <1>0, <2>1 DEF ServerSubscribe, Answered, ServerDue
  <2>2. CASE ServerNotified(k)
    <3>1. notif[k] # <<>> /\ notif' = [notif EXCEPT ![k] = Tail(@)]
          /\ UNCHANGED <<Unsaid, sst, mem>>
      BY <1>0, <2>2 DEF ServerNotified, docVars, apiVars, Unsaid
    <3>2. CASE Head(notif[k]) = "doc"
      BY <1>0, <1>1, <2>2, <3>2 DEF ServerNotified, ConnTypes
    <3>3. CASE Head(notif[k]) # "doc"
      <4>1. send' = send
        BY <1>0, <2>2, <3>3 DEF ServerNotified
      <4>2. notif'[k] = Tail(notif[k])
        BY <1>0, <3>1 DEF ConnTypes
      <4>3. ASSUME NEW i \in 1..Len(notif[k]), notif[k][i] = "doc"
            PROVE  i - 1 \in 1..Len(notif'[k]) /\ notif'[k][i - 1] = "doc"
        <5>1. i # 1
          BY <1>0, <3>1, <3>3, <4>3, NotifPopped
        <5>2. i - 1 \in 1..Len(Tail(notif[k])) /\ Tail(notif[k])[i - 1] = notif[k][i]
          BY <1>0, <3>1, <4>3, <5>1, NotifPopped
        <5> QED BY <4>2, <4>3, <5>2
      <4>4. DocNoticed(k) => DocNoticed(k)'
        BY <3>1, <4>1, <4>3 DEF DocNoticed
      <4> QED BY <1>0, <3>1, <4>1, <4>4 DEF ServerDue
    <3> QED BY <3>2, <3>3
  <2>3. CASE ServerPump(k)
    <3>1. mem' = mem
      BY <2>3 DEF ServerPump, docVars
    <3>2. CASE Quiet(sst[k], mem[Server])
      BY <1>0, <2>3, <3>1, <3>2, SyncFields DEF ServerPump, ServerDue
    <3>3. CASE ~Quiet(sst[k], mem[Server])
      <4>1. sst'[k] = Generated(sst[k], mem[Server])
        BY <1>0, <2>3, <3>3 DEF ServerPump, ConnTypes
      <4> QED BY <1>0, <3>1, <4>1, SyncFields DEF ServerDue
    <3> QED BY <3>2, <3>3
  <2>4. CASE \/ ServerGreet(k) \/ ServerReceive(k) \/ ServerAnnounce(k)
             \/ ServerSeesClose(k) \/ ServerDrops(k)
    <3>1. send'[k] # "loop"
      BY <1>0, <2>4 DEF ServerGreet, ServerReceive, ServerAnnounce, ServerSeesClose, ServerDrops,
                        EndTask, CloseServers, ConnTypes
    <3> QED BY <1>1, <3>1
  <2> QED BY <1>14, <2>1, <2>2, <2>3, <2>4 DEF ServerStep
<1>15. ASSUME NEW j \in Conn, j # k, ServerStep(j) \/ ServerDrops(j) PROVE ServerDue(k)'
  <2>1. UNCHANGED <<send[k], sst[k]>>
    <3>1. UNCHANGED Ends(k)
      BY <1>0, <1>15, OthersRest DEF Acts
    <3> QED BY <3>1 DEF Ends
  <2>5. send[j] # "announce" => Unsaid \subseteq Unsaid'
    BY <1>15 DEF ServerStep, ServerGreet, ServerSubscribe, ServerReceive, ServerAnnounce,
       ServerNotified, ServerPump, ServerSeesClose, ServerDrops, apiVars, Unsaid
  <2>2. ASSUME send[j] # "announce" PROVE AnnouncersKept
    <3>1. ASSUME NEW i \in Conn, i # j PROVE send'[i] = send[i]
      BY <1>0, <1>15, <3>1, OthersRest DEF Acts, Ends
    <3> QED BY <2>2, <3>1 DEF AnnouncersKept
  <2>3. CASE send[k] # "loop"
    BY <1>1, <2>1, <2>3
  <2>4. CASE send[k] = "loop"
    <3>1. k \in Receivers \ {j} /\ k \in Receivers
      BY <1>8, <1>15, <2>4
    <3>2. ASSUME EndTask(j), send[j] # "announce", UNCHANGED mem PROVE ServerDue(k)'
      <4>1. NoticeKept(k)
        BY <1>4, <1>7, <3>1, <3>2 DEF EndTask
      <4> QED BY <1>3, <2>1, <2>2, <2>5, <3>2, <4>1
    <3>3. CASE ServerGreet(j)
      <4>1. send[j] = "hello" /\ Broadcast("presence", Receivers) /\ UNCHANGED mem
        BY <3>3 DEF ServerGreet, docVars
      <4> QED BY <1>3, <1>7, <2>1, <2>2, <2>5, <3>1, <4>1
    <3>4. CASE ServerSubscribe(j) \/ ServerPump(j)
      <4>1. send[j] \in {"gap", "pump"} /\ UNCHANGED <<notif, mem>>
        BY <3>4 DEF ServerSubscribe, ServerPump, docVars
      <4> QED BY <1>3, <1>4, <2>1, <2>2, <2>5, <4>1
    <3>5. CASE ServerReceive(j)
      <4>1. send[j] = "loop"
        BY <3>5 DEF ServerReceive
      <4>2. CASE ApplyRejected(Server, Head(up[j])) /\ EndTask(j)
        BY <3>2, <4>1, <4>2 DEF ApplyRejected, docVars
      <4>3. ~ApplyUnflushed(Server, Head(up[j]))
        BY <1>0 DEF ApplyUnflushed, FlushFails
      <4>4. CASE /\ send' = [send EXCEPT ![j] = IF mem'[Server] # mem[Server]
                                                THEN "announce" ELSE "pump"]
                 /\ UNCHANGED notif
        <5>1. CASE mem'[Server] # mem[Server]
          <6>1. send'[j] = "announce"
            BY <1>0, <4>4, <5>1 DEF ConnTypes
          <6> QED BY <1>2, <6>1 DEF DocNoticed
        <5>2. CASE mem'[Server] = mem[Server]
          BY <1>3, <1>4, <2>1, <2>2, <2>5, <4>1, <4>4, <5>2
        <5> QED BY <5>1, <5>2
      <4> QED BY <3>5, <4>2, <4>3, <4>4 DEF ServerReceive
    <3>6. CASE ServerAnnounce(j)
      BY <1>2, <1>6, <3>1, <3>6 DEF ServerAnnounce, AnnounceDocument
    <3>7. CASE ServerNotified(j)
      <4>1. send[j] = "loop" /\ UNCHANGED mem /\ notif'[k] = notif[k]
        BY <1>0, <1>15, <3>7 DEF ServerNotified, docVars, ConnTypes
      <4>2. NoticeKept(k)
        BY <4>1 DEF NoticeKept
      <4> QED BY <1>3, <2>1, <2>2, <2>5, <4>1, <4>2
    <3>8. CASE ServerSeesClose(j) \/ ServerDrops(j)
      BY <3>2, <3>8 DEF ServerSeesClose, ServerDrops, docVars
    <3> QED BY <1>15, <3>3, <3>4, <3>5, <3>6, <3>7, <3>8 DEF ServerStep
  <2> QED BY <2>3, <2>4
<1>16. CASE UNCHANGED vars
  BY <1>3, <1>4, <1>5, <1>16 DEF vars, docVars, apiVars, connVars, Unsaid
<1> QED BY <1>9, <1>10, <1>11, <1>12, <1>13, <1>14, <1>15, <1>16, <1>17 DEF Next

LEMMA WakeInit == NeverFails => (Init => WakeIInv)
<1> SUFFICES ASSUME NeverFails, Init PROVE WakeIInv
  OBVIOUS
<1>1. budget.failures = 0 /\ mem = disk
  BY DEF Init, NeverFails
<1>2. \A k \in Conn : /\ cend[k] = "idle" /\ send[k] = "idle" /\ notif[k] = <<>>
  BY DEF Init
<1>3. \A k \in Conn : Len(notif[k]) <= Capacity
  BY <1>2, ConstantsAssumption
<1> QED BY <1>1, <1>2, <1>3
    DEF WakeIInv, OneByOne, Answered, ClientDue, ServerDue, OpenClient, Greeted, Looping

LEMMA WakeStep == IInv /\ WakeIInv /\ [Next]_vars /\ NoneLagged /\ NoneLagged' => WakeIInv'
<1> SUFFICES ASSUME IInv, WakeIInv, [Next]_vars, NoneLagged, NoneLagged' PROVE WakeIInv'
  OBVIOUS
<1>1. Flushed /\ NothingForgotten
  BY DEF WakeIInv, Flushed, NothingForgotten
<1>2. budget'.failures = 0 /\ mem' = disk'
  BY <1>1, MemoryGrows DEF Flushed
<1>3. OneByOne'
  BY OneByOneStep DEF WakeIInv
<1>4. \A k \in Conn : Answered(k)'
  BY AnsweredStep DEF WakeIInv
<1>5. \A k \in Conn : Len(notif'[k]) <= Capacity
  BY NotifBounded
<1>6. \A k \in Conn : ClientDue(k)' /\ ServerDue(k)'
  BY ClientDueStep, ServerDueStep
<1> QED BY <1>2, <1>3, <1>4, <1>5, <1>6 DEF WakeIInv

\* As long as no flush fails and no receiver is overrun, the server and a client whose
\* connection has come to rest hold the same document, but for what item requests have put
\* and not announced, which the client may lack: every other change is followed by a wake-up
\* of each end that has not told it, and no two ends await each other's answer.
THEOREM NoWakeupLost == NeverFails => (Spec /\ []NoneLagged => []SettledAgree)
<1> SUFFICES ASSUME NeverFails PROVE Spec /\ []NoneLagged => []SettledAgree
  OBVIOUS
<1>1. Init => WakeIInv
  BY WakeInit
<1> QED BY <1>1, WakeStep, WakeIInvSettles, Invariance, PTL DEF Spec
=============================================================================
