---------------------------- MODULE ServerProofs ----------------------------
(***************************************************************************)
(* The server around the synchronisation: theorems about ServerLifecycle,  *)
(* UrlCapture, AccessControl and Presence, for every set of connections,   *)
(* names, keys and labels and whatever clients do.                         *)
(***************************************************************************)
EXTENDS ServerLifecycle, UrlCapture, AccessControl, Presence, FiniteSetTheorems, TLAPS

-----------------------------------------------------------------------------
(***************************************************************************)
(* ServerLifecycle: nothing runs when a stopped serve returns. The lock on *)
(* mutations is held by a request between its two records, a socket's task *)
(* waits for an upgrade only while the request for it is handled, and from *)
(* joining on no connection is left to do either.                          *)
(***************************************************************************)

Where == {"none", "idle", "over", "auth", "body", "work", "revision", "head", "answer",
          "switching"}

(* What a connection task may be: with a request, or without. *)
Conns == [at : Where] \cup [at : Where, route : Routes, item : Items]

Ended == {"returned", "exited"}

ServerIInv ==
    /\ http \in [Sockets -> Conns]
    /\ sock \in [Sockets -> {"none", "awaiting", "serving", "over"}]
    /\ lock = Nobody \/ (lock \in Sockets /\ http[lock].at \in {"revision", "head"})
    /\ \A k \in Sockets : sock[k] = "awaiting" => http[k].at = "switching"
    /\ serve \in Ended \cup {"joining"} => \A k \in Sockets : ~Running(k)
    /\ serve = "joining" => \A k \in Sockets : sock[k] # "none" => k \in joined
    /\ serve \in Ended => \A k \in Sockets : sock[k] \in {"none", "over"}

(* A connection task stays one when it moves. *)
LEMMA ConnMoves ==
    ASSUME NEW c \in Conns, NEW at \in Where
    PROVE  [c EXCEPT !.at = at] \in Conns /\ [c EXCEPT !.at = at].at = at
BY DEF Conns

LEMMA IdleConns == Idle \in Conns /\ Over \in Conns /\ Idle.at = "idle" /\ Over.at = "over"
BY DEF Idle, Over, Conns, Where

(* At the start no connection is there. *)
LEMMA ServerInitIInv == ServerInit => ServerIInv
<1> SUFFICES ASSUME ServerInit PROVE ServerIInv
  OBVIOUS
<1>1. [at |-> "none"] \in Conns
  BY DEF Conns, Where
<1>2. http \in [Sockets -> Conns] /\ \A k \in Sockets : http[k].at = "none"
  BY <1>1 DEF ServerInit
<1> QED BY <1>2 DEF ServerInit, ServerIInv, Ended, Running

(* While a connection is there, serve has not joined it: what one request  *)
(* does, and the lock it then holds or not, leave the rest as it is.       *)
LEMMA OneRequest ==
    ASSUME ServerIInv, NEW k \in Sockets, Running(k), NEW c \in Conns,
           http' = [http EXCEPT ![k] = c],
           UNCHANGED <<serve, joined, sock>>,
           sock[k] = "awaiting" => c.at = "switching",
           \/ lock' = Nobody
           \/ lock' = k /\ c.at \in {"revision", "head"}
           \/ lock' = lock /\ (lock = k => c.at \in {"revision", "head"})
    PROVE  ServerIInv'
<1> USE DEF ServerIInv
<1>1. /\ http' \in [Sockets -> Conns] /\ http'[k] = c
      /\ \A j \in Sockets \ {k} : http'[j] = http[j]
  OBVIOUS
<1>2. lock' = Nobody \/ (lock' \in Sockets /\ http'[lock'].at \in {"revision", "head"})
  BY <1>1
<1>3. \A j \in Sockets : sock'[j] = "awaiting" => http'[j].at = "switching"
  BY <1>1
<1>4. serve' \notin Ended \cup {"joining"}
  OBVIOUS
<1> QED BY <1>1, <1>2, <1>3, <1>4

(* A step of a request that is handled. *)
LEMMA HandleStepIInv ==
    ASSUME ServerIInv, NEW k \in Sockets, HandleStep(k)
    PROVE  ServerIInv'
<1>1. http \in [Sockets -> Conns] /\ http[k] \in Conns
  BY DEF ServerIInv
<1>2. ASSUME NEW at \in Where, To(k, at)
      PROVE  \E c \in Conns : c.at = at /\ http' = [http EXCEPT ![k] = c]
  <2>1. [http[k] EXCEPT !.at = at] \in Conns /\ [http[k] EXCEPT !.at = at].at = at
    BY <1>1, <1>2, ConnMoves
  <2>2. http' = [http EXCEPT ![k] = [http[k] EXCEPT !.at = at]]
    BY <1>1, <1>2 DEF To
  <2> QED BY <2>1, <2>2
<1>3. lock # k \/ http[k].at \in {"revision", "head"} \/ k = Nobody
  BY DEF ServerIInv
<1>4. k # Nobody
  BY ServerAssumption
<1>5. sock[k] # "awaiting" \/ http[k].at = "switching"
  BY DEF ServerIInv
<1>6. CASE Authorized(k)
  <2>1. Running(k) /\ http[k].at = "auth" /\ UNCHANGED <<serve, joined, sock, lock>>
    BY <1>6 DEF Authorized, Running
  <2>2. CASE Respond(k)
    BY <1>3, <1>4, <1>5, <2>1, <2>2, OneRequest, IdleConns DEF Respond
  <2>3. CASE To(k, "body") \/ To(k, "work")
    BY <1>2, <1>3, <1>4, <1>5, <2>1, <2>3, OneRequest DEF Where
  <2> QED BY <1>6, <2>2, <2>3 DEF Authorized
<1>7. CASE BodyRead(k)
  <2>1. Running(k) /\ http[k].at = "body" /\ UNCHANGED <<serve, joined, sock, lock>>
    BY <1>7 DEF BodyRead, Running
  <2>2. CASE Respond(k)
    BY <1>3, <1>4, <1>5, <2>1, <2>2, OneRequest, IdleConns DEF Respond
  <2>3. CASE To(k, "work")
    BY <1>2, <1>3, <1>4, <1>5, <2>1, <2>3, OneRequest DEF Where
  <2> QED BY <1>7, <2>2, <2>3 DEF BodyRead
<1>8. CASE Reads(k)
  <2>1. Running(k) /\ http[k].at = "work" /\ UNCHANGED <<serve, joined, sock, lock>>
    BY <1>8 DEF Reads, Running
  <2> QED BY <1>3, <1>4, <1>5, <1>8, <2>1, OneRequest, IdleConns DEF Respond, Reads
<1>9. CASE TakesLock(k)
  <2>1. Running(k) /\ http[k].at = "work" /\ UNCHANGED <<serve, joined, sock>>
    BY <1>9 DEF TakesLock, Running
  <2>2. CASE Respond(k) /\ UNCHANGED lock
    BY <1>3, <1>4, <1>5, <2>1, <2>2, OneRequest, IdleConns DEF Respond
  <2>3. CASE lock' = k /\ To(k, "revision")
    BY <1>2, <1>5, <2>1, <2>3, OneRequest DEF Where
  <2> QED BY <1>9, <2>2, <2>3 DEF TakesLock
<1>10. CASE PutsRevision(k)
  <2>1. /\ Running(k) /\ http[k].at = "revision" /\ To(k, "head")
        /\ UNCHANGED <<serve, joined, sock, lock>>
    BY <1>10 DEF PutsRevision, Running
  <2> QED BY <1>2, <1>5, <2>1, OneRequest DEF Where
<1>11. CASE SetsHead(k)
  <2>1. /\ Running(k) /\ http[k].at = "head" /\ To(k, "answer") /\ lock' = Nobody
        /\ UNCHANGED <<serve, joined, sock>>
    BY <1>11 DEF SetsHead, Running, To
  <2> QED BY <1>2, <1>5, <2>1, OneRequest DEF Where
<1>12. CASE Answers(k)
  <2>1. Running(k) /\ http[k].at = "answer" /\ UNCHANGED <<serve, joined, sock, lock>>
    BY <1>12 DEF Answers, Running
  <2> QED BY <1>3, <1>4, <1>5, <1>12, <2>1, OneRequest, IdleConns DEF Respond, Answers
<1>13. CASE Upgrades(k)
  <2>1. /\ Running(k) /\ http[k].at = "work" /\ To(k, "switching")
        /\ UNCHANGED <<serve, joined, lock>> /\ sock' = [sock EXCEPT ![k] = "awaiting"]
    BY <1>13 DEF Upgrades, Running
  <2>2. PICK c \in Conns : c.at = "switching" /\ http' = [http EXCEPT ![k] = c]
    BY <1>2, <2>1 DEF Where
  <2>3. /\ http' \in [Sockets -> Conns] /\ http'[k].at = "switching"
        /\ \A j \in Sockets \ {k} : http'[j] = http[j] /\ sock'[j] = sock[j]
    BY <1>1, <2>1, <2>2 DEF ServerIInv
  <2>4. lock # k /\ serve \notin Ended \cup {"joining"}
    BY <1>3, <1>4, <2>1 DEF ServerIInv
  <2> QED BY <2>1, <2>3, <2>4 DEF ServerIInv
<1>14. CASE Upgraded(k)
  <2>1. /\ Running(k) /\ http[k].at = "switching" /\ http' = [http EXCEPT ![k] = Over]
        /\ UNCHANGED <<serve, joined, lock>> /\ sock' = [sock EXCEPT ![k] = "serving"]
    BY <1>14 DEF Upgraded, Running
  <2>2. http' \in [Sockets -> Conns]
    BY <1>1, <2>1, IdleConns
  <2>3. \A j \in Sockets \ {k} : http'[j] = http[j] /\ sock'[j] = sock[j]
    BY <1>1, <2>1 DEF ServerIInv
  <2>4. lock # k /\ serve \notin Ended \cup {"joining"}
    BY <1>3, <1>4, <2>1 DEF ServerIInv
  <2> QED BY <2>1, <2>2, <2>3, <2>4 DEF ServerIInv
<1> QED
  BY <1>6, <1>7, <1>8, <1>9, <1>10, <1>11, <1>12, <1>13, <1>14 DEF HandleStep

(* A request begins on a connection that has none; a failed store ends it. *)
LEMMA RequestEndsIInv ==
    ASSUME ServerIInv, NEW k \in Sockets, RequestArrives(k) \/ StoreFails(k)
    PROVE  ServerIInv'
<1>1. k # Nobody /\ (sock[k] = "awaiting" => http[k].at = "switching")
  BY ServerAssumption DEF ServerIInv
<1>2. CASE RequestArrives(k)
  <2>1. PICK route \in Routes, item \in Items :
          http' = [http EXCEPT ![k] = [at |-> "auth", route |-> route, item |-> item]]
    BY <1>2 DEF RequestArrives
  <2>2. [at |-> "auth", route |-> route, item |-> item] \in Conns
    BY DEF Conns, Where
  <2>3. Running(k) /\ http[k].at = "idle" /\ UNCHANGED <<serve, joined, sock, lock>>
    BY <1>2, IdleConns DEF RequestArrives, Running
  <2>4. lock # k
    BY <1>1, <2>3 DEF ServerIInv
  <2> QED BY <1>1, <2>1, <2>2, <2>3, <2>4, OneRequest
<1>3. CASE StoreFails(k)
  <2>1. /\ Running(k) /\ http[k].at \in {"revision", "head"} /\ Respond(k) /\ lock' = Nobody
        /\ UNCHANGED <<serve, joined, sock>>
    BY <1>3 DEF StoreFails, Running
  <2> QED BY <1>1, <2>1, OneRequest, IdleConns DEF Respond
<1> QED BY <1>2, <1>3

(* Dropping connections drops what they held and the upgrades waiting for  *)
(* them.                                                                   *)
LEMMA DroppedIInv ==
    ASSUME ServerIInv, NEW K \in SUBSET Sockets, Dropped(K), UNCHANGED <<serve, joined>>
    PROVE  ServerIInv'
<1> USE DEF ServerIInv
<1>1. /\ http' \in [Sockets -> Conns]
      /\ sock' \in [Sockets -> {"none", "awaiting", "serving", "over"}]
      /\ \A j \in Sockets : (j \in K => http'[j] = Over) /\ (j \notin K => http'[j] = http[j])
      /\ \A j \in Sockets : sock'[j] = sock[j] \/ (sock[j] = "awaiting" /\ sock'[j] = "over")
      /\ \A j \in K : sock'[j] # "awaiting"
  BY IdleConns DEF Dropped
<1>2. lock' = Nobody \/ (lock' = lock /\ lock \notin K)
  BY DEF Dropped
<1>3. \A j \in Sockets : Running(j)' => Running(j)
  BY <1>1, IdleConns DEF Running
<1>4. lock' = Nobody \/ (lock' \in Sockets /\ http'[lock'].at \in {"revision", "head"})
  BY <1>1, <1>2
<1>5. \A j \in Sockets : sock'[j] = "awaiting" => http'[j].at = "switching"
  BY <1>1
<1> QED BY <1>1, <1>3, <1>4, <1>5

(* A socket's task ends. *)
LEMMA SocketEndsIInv ==
    ASSUME ServerIInv, NEW k \in Sockets, sock[k] = "serving",
           sock' = [sock EXCEPT ![k] = "over"], UNCHANGED <<serve, joined, http, lock>>
    PROVE  ServerIInv'
<1>1. \A j \in Sockets : sock'[j] = IF j = k THEN "over" ELSE sock[j]
  BY DEF ServerIInv
<1> QED BY <1>1 DEF ServerIInv, Running

(* Clients go, and tasks see the shutdown. *)
LEMMA EndStepIInv ==
    ASSUME ServerIInv, NEW k \in Sockets, ClientGoes(k) \/ EndStep(k)
    PROVE  ServerIInv'
<1>1. \/ Dropped({k}) /\ UNCHANGED <<serve, joined>>
      \/ /\ sock[k] = "serving" /\ sock' = [sock EXCEPT ![k] = "over"]
         /\ UNCHANGED <<serve, joined, http, lock>>
  BY DEF ClientGoes, EndStep, Cancelled, SocketCancelled
<1> QED BY <1>1, DroppedIInv, SocketEndsIInv

(* The steps of serve and main. *)
LEMMA ServeStepIInv ==
    ASSUME ServerIInv, (\E k \in Sockets : Accepts(k)) \/ AcceptFails \/ CtrlC \/ MainStep
    PROVE  ServerIInv'
<1> USE DEF ServerIInv
<1>1. ASSUME NEW k \in Sockets, Accepts(k) PROVE ServerIInv'
  <2>1. /\ http' \in [Sockets -> Conns] /\ serve = "accepting" /\ http[k].at = "none"
        /\ \A j \in Sockets : http'[j] = IF j = k THEN Idle ELSE http[j]
        /\ UNCHANGED <<serve, sock, joined, lock>>
    BY <1>1, IdleConns DEF Accepts
  <2>2. lock # k \/ lock = Nobody
    BY <2>1
  <2>3. sock[k] # "awaiting"
    BY <2>1
  <2>4. lock' = Nobody \/ (lock' \in Sockets /\ http'[lock'].at \in {"revision", "head"})
    BY <2>1, <2>2
  <2>5. \A j \in Sockets : sock'[j] = "awaiting" => http'[j].at = "switching"
    BY <2>1, <2>3
  <2> QED BY <2>1, <2>4, <2>5 DEF Ended
<1>2. CASE AcceptFails
  BY <1>2 DEF AcceptFails, Running, Ended
<1>3. CASE CtrlC
  BY <1>3 DEF CtrlC, Running
<1>4. CASE Shutdown
  BY <1>4 DEF Shutdown, Running, Ended
<1>5. CASE TakesSockets
  BY <1>5 DEF TakesSockets, Running, Ended
<1>6. CASE Returns
  <2>1. /\ serve = "joining" /\ serve' = "returned" /\ UNCHANGED <<http, sock, joined, lock>>
        /\ \A k \in Sockets : sock[k] \in {"none", "over"}
    BY <1>6 DEF Returns
  <2> QED BY <2>1 DEF Running, Ended
<1>7. CASE Exits
  <2>1. /\ http' \in [Sockets -> Conns]
        /\ \A j \in Sockets : http'[j] = IF Running(j) THEN Over ELSE http[j]
        /\ sock' \in [Sockets -> {"none", "awaiting", "serving", "over"}]
        /\ \A j \in Sockets : sock'[j] \in {"none", "over"}
        /\ lock' = Nobody /\ serve' = "exited"
    BY <1>7, IdleConns DEF Exits
  <2>2. \A j \in Sockets : ~Running(j)'
    BY <2>1, IdleConns DEF Running
  <2> QED BY <2>1, <2>2 DEF Ended
<1> QED BY <1>1, <1>2, <1>3, <1>4, <1>5, <1>6, <1>7 DEF MainStep

(* The invariant is inductive. *)
LEMMA ServerStepIInv == ServerIInv /\ [ServerNext]_serverVars => ServerIInv'
<1> SUFFICES ASSUME ServerIInv, [ServerNext]_serverVars PROVE ServerIInv'
  OBVIOUS
<1>1. CASE UNCHANGED serverVars
  BY <1>1 DEF serverVars, ServerIInv, Running
<1>2. CASE \E k \in Sockets : \/ RequestArrives(k) \/ HandleStep(k) \/ StoreFails(k)
                              \/ ClientGoes(k) \/ EndStep(k)
  BY <1>2, RequestEndsIInv, HandleStepIInv, EndStepIInv
<1>3. CASE (\E k \in Sockets : Accepts(k)) \/ AcceptFails \/ CtrlC \/ MainStep
  BY <1>3, ServeStepIInv
<1> QED BY <1>1, <1>2, <1>3 DEF ServerNext

(* When a serve that was asked to stop has returned no task runs and       *)
(* nothing is locked, whatever requests were dropped on the way.           *)
THEOREM NothingRunsAfterServe == ServerSpec => []NothingRunsAfter
<1>1. ServerIInv => NothingRunsAfter
  <2> SUFFICES ASSUME ServerIInv, serve = "returned"
               PROVE  /\ lock = Nobody
                      /\ \A k \in Sockets : ~Running(k) /\ sock[k] \in {"none", "over"}
    BY DEF NothingRunsAfter
  <2>1. \A k \in Sockets : ~Running(k) /\ sock[k] \in {"none", "over"}
    BY DEF ServerIInv, Ended
  <2> QED BY <2>1 DEF ServerIInv, Running
<1> QED BY ServerInitIInv, ServerStepIInv, <1>1, PTL DEF ServerSpec

-----------------------------------------------------------------------------
(***************************************************************************)
(* UrlCapture: a capture keeps its limits and contacts public addresses    *)
(* only. What was contacted is public because what a request may contact   *)
(* was pinned before it, at this hop, and every pinned address is public.  *)
(***************************************************************************)

Fetches == [at : {"resolve", "request", "body"}, url : Urls, hops : 0 .. MaxRedirects,
            pinned : SUBSET Addresses, got : 0 .. MaxBody]

CaptureIInv ==
    /\ fetch = NoFetch \/ fetch \in Fetches
    /\ fetch.at = "request" => fetch.pinned \subseteq Public
    /\ contacted \subseteq Public

LEMMA NoFetchIdle == NoFetch.at = "idle"
BY DEF NoFetch

(* A capture is under way where its step says. *)
LEMMA FetchUnderWay ==
    ASSUME CaptureIInv, fetch.at # "idle"
    PROVE  fetch \in Fetches
BY NoFetchIdle DEF CaptureIInv

(* What ends a capture leaves nothing to go wrong. *)
LEMMA CaptureEnded ==
    ASSUME NEW why, CaptureEnds(why), contacted' \subseteq Public
    PROVE  CaptureIInv'
BY NoFetchIdle DEF CaptureEnds, CaptureIInv

LEMMA CaptureStep == CaptureIInv /\ [CaptureNext]_captureVars => CaptureIInv'
<1> SUFFICES ASSUME CaptureIInv, [CaptureNext]_captureVars PROVE CaptureIInv'
  OBVIOUS
<1>1. CASE UNCHANGED captureVars
  BY <1>1 DEF captureVars, CaptureIInv
<1>2. ASSUME NEW url \in Urls, Capture(url) PROVE CaptureIInv'
  <2>1. contacted' \subseteq Public
    BY <1>2 DEF Capture, CaptureIInv
  <2>2. CASE ValidUrl(url)
    <3>1. fetch' = [at |-> "resolve", url |-> url, hops |-> 0, pinned |-> {}, got |-> 0]
      BY <1>2, <2>2 DEF Capture
    <3>2. fetch' \in Fetches /\ fetch'.at = "resolve"
      BY <3>1, CaptureAssumption DEF Fetches
    <3> QED BY <2>1, <3>2 DEF CaptureIInv
  <2> QED BY <1>2, <2>1, <2>2, CaptureEnded DEF Capture
<1>3. CASE Resolve
  <2>1. fetch \in Fetches /\ contacted' \subseteq Public
    BY <1>3, FetchUnderWay DEF Resolve, CaptureIInv
  <2>2. PICK found \in Resolutions(fetch.url.host) :
          IF found # {} /\ found \subseteq Public
          THEN fetch' = [fetch EXCEPT !.at = "request", !.pinned = found]
          ELSE CaptureEnds("refused")
    BY <1>3 DEF Resolve
  <2>3. CASE found # {} /\ found \subseteq Public
    <3>1. fetch' = [fetch EXCEPT !.at = "request", !.pinned = found]
      BY <2>2, <2>3
    <3>2. found \in SUBSET Addresses
      BY <2>3, CaptureAssumption
    <3>3. fetch' \in Fetches /\ fetch'.pinned = found
      BY <2>1, <3>1, <3>2 DEF Fetches
    <3> QED BY <2>1, <2>3, <3>3 DEF CaptureIInv
  <2> QED BY <2>1, <2>2, <2>3, CaptureEnded
<1>4. CASE FetchRequest
  <2>1. fetch \in Fetches /\ fetch.pinned \subseteq Public /\ contacted' \subseteq Public
    BY <1>4, FetchUnderWay DEF FetchRequest, CaptureIInv
  <2>2. CASE fetch' = [fetch EXCEPT !.at = "body"]
    BY <2>1, <2>2 DEF CaptureIInv, Fetches
  <2>3. ASSUME NEW to \in Urls, fetch.hops < MaxRedirects,
               fetch' = [fetch EXCEPT !.at = "resolve", !.url = to, !.hops = @ + 1,
                                      !.pinned = {}]
        PROVE  CaptureIInv'
    <3>1. fetch.hops + 1 \in 0 .. MaxRedirects
      BY <2>1, <2>3, CaptureAssumption DEF Fetches
    <3>2. fetch' = [at |-> "resolve", url |-> to, hops |-> fetch.hops + 1, pinned |-> {},
                    got |-> fetch.got]
      BY <2>1, <2>3 DEF Fetches
    <3>3. fetch' \in Fetches /\ fetch'.at = "resolve"
      BY <2>1, <3>1, <3>2 DEF Fetches
    <3> QED BY <2>1, <3>3 DEF CaptureIInv
  <2>4. CASE \E why : CaptureEnds(why)
    BY <2>1, <2>4, CaptureEnded
  <2>5. \/ \E to \in Urls :
             IF fetch.hops < MaxRedirects /\ ValidUrl(to)
             THEN fetch' = [fetch EXCEPT !.at = "resolve", !.url = to, !.hops = @ + 1,
                                         !.pinned = {}]
             ELSE CaptureEnds("redirect")
        \/ fetch' = [fetch EXCEPT !.at = "body"]
        \/ CaptureEnds("status")
    BY <1>4 DEF FetchRequest
  <2> QED BY <2>2, <2>3, <2>4, <2>5
<1>5. CASE ReadChunk
  <2>1. fetch \in Fetches /\ contacted' \subseteq Public /\ fetch.at = "body"
    BY <1>5, FetchUnderWay DEF ReadChunk, CaptureIInv
  <2>2. PICK n \in Chunks : IF fetch.got + n > MaxBody THEN CaptureEnds("too large")
                            ELSE fetch' = [fetch EXCEPT !.got = @ + n]
    BY <1>5 DEF ReadChunk
  <2>3. CASE ~(fetch.got + n > MaxBody)
    <3>1. fetch.got + n \in 0 .. MaxBody
      BY <2>1, <2>3, CaptureAssumption DEF Fetches
    <3>2. fetch' = [fetch EXCEPT !.got = fetch.got + n]
      BY <2>2, <2>3
    <3>3. fetch' \in Fetches /\ fetch'.at = "body"
      BY <2>1, <3>1, <3>2 DEF Fetches
    <3> QED BY <2>1, <3>3 DEF CaptureIInv
  <2> QED BY <2>1, <2>2, <2>3, CaptureEnded
<1>6. CASE Extract
  BY <1>6, CaptureEnded DEF Extract, CaptureIInv
<1> QED BY <1>1, <1>2, <1>3, <1>4, <1>5, <1>6 DEF CaptureNext

LEMMA CaptureInvariant == CaptureSpec => []CaptureIInv
<1>1. CaptureInit => CaptureIInv
  BY NoFetchIdle DEF CaptureInit, CaptureIInv
<1> QED BY <1>1, CaptureStep, PTL DEF CaptureSpec

(* A capture follows no more redirects and keeps no more bytes than the    *)
(* limits, and is of a URL it validated.                                   *)
THEOREM CaptureLimits == CaptureSpec => []CaptureTypeOK
<1>1. CaptureIInv => CaptureTypeOK
  BY CaptureAssumption DEF CaptureIInv, CaptureTypeOK, Fetches
<1> QED BY <1>1, CaptureInvariant, PTL

(* Whatever names resolve to and servers redirect to, only public          *)
(* addresses are contacted.                                                *)
THEOREM CaptureStaysPublic == CaptureSpec => []OnlyPublicContacted
<1>1. CaptureIInv => OnlyPublicContacted
  BY DEF CaptureIInv, OnlyPublicContacted
<1> QED BY <1>1, CaptureInvariant, PTL

-----------------------------------------------------------------------------
(***************************************************************************)
(* AccessControl: what clients were told about API keys stays true, and a  *)
(* valid token is refused only for the reasons given, with rotations,      *)
(* faults and restarts.                                                    *)
(*                                                                         *)
(* Keys: memory and file may differ after a save that failed, so the       *)
(* invariant is about both; a new key is none of those that were removed   *)
(* because its id is new. Tokens: the key of a request's token is in the   *)
(* published set, then in the set the request fetched, then in the cache,  *)
(* unless something that happened meanwhile excuses its refusal.           *)
(***************************************************************************)

Made(set) == \A k \in set : k.id \in 1 .. rest.made

Rests == [requests : Nat, rotations : Nat, faults : Nat, restarts : Nat, made : Nat]

KeysIInv ==
    /\ rest \in Rests
    /\ answered = [created |-> answered.created, removed |-> answered.removed,
                   asked |-> answered.asked]
    /\ Made(keys) /\ Made(keyFile) /\ Made(answered.created) /\ Made(answered.removed)
    /\ KeysDurable

(* At the start there are no keys, and nobody was told of any. *)
LEMMA KeysInitIInv == AccessInit => KeysIInv
BY AccessAssumption DEF AccessInit, KeysIInv, Made, KeysDurable, Rests

(* A step that makes no key and leaves keys, file and answers.             *)
LEMMA KeysUntouched ==
    ASSUME KeysIInv, UNCHANGED <<keys, keyFile, answered>>, rest' \in Rests, rest'.made = rest.made
    PROVE  KeysIInv'
BY DEF KeysIInv, Made, KeysDurable

(* A key that is made has a new id; it was answered only if it was saved.  *)
LEMMA KeyMade == ASSUME KeysIInv, NEW r \in Requests, CreateKey(r) PROVE KeysIInv'
<1> DEFINE key == [id |-> rest.made + 1, owner |-> Subject[req[r].token],
                   permissions |-> req[r].grants]
<1>1. /\ rest \in Rests /\ keys' = keys \cup {key} /\ rest'.made = rest.made + 1
      /\ rest' \in Rests /\ key.id = rest.made + 1
  <2>1. rest \in Rests /\ rest.made + 1 \in Nat
    BY DEF KeysIInv, Rests
  <2>2. CASE rest' = [rest EXCEPT !.made = @ + 1]
    BY <2>1, <2>2 DEF CreateKey, Rests
  <2>3. CASE rest.faults > 0 /\ rest' = [rest EXCEPT !.made = @ + 1, !.faults = @ - 1]
    <3>1. rest.faults - 1 \in Nat
      BY <2>1, <2>3 DEF Rests
    <3> QED BY <2>1, <2>3, <3>1 DEF CreateKey, Rests
  <2> QED BY <2>2, <2>3 DEF CreateKey
<1>2. \A set : Made(set) => \A k \in set : k.id \in 1 .. rest'.made /\ k # key
  BY <1>1 DEF Made, Rests
<1>3. key.id \in 1 .. rest'.made
  BY <1>1 DEF Rests
<1> HIDE DEF key
<1>4. CASE /\ keyFile' = keys \cup {key}
           /\ answered' = [answered EXCEPT !.created = @ \cup {key}]
  <2>1. /\ answered'.created = answered.created \cup {key}
        /\ answered'.removed = answered.removed /\ answered'.asked = answered.asked
        /\ answered' = [created |-> answered'.created, removed |-> answered'.removed,
                        asked |-> answered'.asked]
    BY <1>4 DEF KeysIInv
  <2>2. Made(keys)' /\ Made(keyFile)' /\ Made(answered.created)' /\ Made(answered.removed)'
    BY <1>1, <1>2, <1>3, <1>4, <2>1 DEF KeysIInv, Made
  <2>3. KeysDurable'
    BY <1>1, <1>2, <1>4, <2>1 DEF KeysIInv, KeysDurable
  <2> QED BY <1>1, <2>1, <2>2, <2>3 DEF KeysIInv
<1>5. CASE UNCHANGED <<keyFile, answered>>
  <2>1. Made(keys)' /\ Made(keyFile)' /\ Made(answered.created)' /\ Made(answered.removed)'
    BY <1>1, <1>2, <1>3, <1>5 DEF KeysIInv, Made
  <2>2. KeysDurable'
    BY <1>1, <1>2, <1>5 DEF KeysIInv, KeysDurable
  <2> QED BY <1>1, <1>5, <2>1, <2>2 DEF KeysIInv
<1> QED BY <1>4, <1>5 DEF CreateKey, key

(* A removal that could not be saved was asked for, and not answered.      *)
LEMMA KeyRemoved == ASSUME KeysIInv, NEW r \in Requests, RemoveKey(r) PROVE KeysIInv'
<1>1. PICK gone \in SUBSET keys :
        /\ keys' = keys \ gone
        /\ IF gone = {} THEN UNCHANGED <<keyFile, answered, rest>>
           ELSE \/ /\ Saves(keys \ gone)
                   /\ answered' = [answered EXCEPT !.removed = @ \cup gone,
                                                   !.asked = @ \cup gone]
                \/ /\ SaveFails
                   /\ answered' = [answered EXCEPT !.asked = @ \cup gone]
  BY DEF RemoveKey
<1>2. rest' \in Rests /\ rest'.made = rest.made
  BY <1>1 DEF Saves, SaveFails, KeysIInv, Rests
<1>3. CASE gone = {}
  BY <1>1, <1>2, <1>3, KeysUntouched
<1>4. CASE /\ keyFile' = keys \ gone
           /\ answered' = [answered EXCEPT !.removed = @ \cup gone, !.asked = @ \cup gone]
  <2>1. /\ answered'.created = answered.created
        /\ answered'.removed = answered.removed \cup gone
        /\ answered'.asked = answered.asked \cup gone
        /\ answered' = [created |-> answered'.created, removed |-> answered'.removed,
                        asked |-> answered'.asked]
    BY <1>4 DEF KeysIInv
  <2>2. Made(keys)' /\ Made(keyFile)' /\ Made(answered.created)' /\ Made(answered.removed)'
    BY <1>1, <1>2, <1>4, <2>1 DEF KeysIInv, Made
  <2>3. KeysDurable'
    BY <1>1, <1>4, <2>1 DEF KeysIInv, KeysDurable
  <2> QED BY <1>2, <2>1, <2>2, <2>3 DEF KeysIInv
<1>5. CASE UNCHANGED keyFile /\ answered' = [answered EXCEPT !.asked = @ \cup gone]
  <2>1. /\ answered'.created = answered.created /\ answered'.removed = answered.removed
        /\ answered'.asked = answered.asked \cup gone
        /\ answered' = [created |-> answered'.created, removed |-> answered'.removed,
                        asked |-> answered'.asked]
    BY <1>5 DEF KeysIInv
  <2>2. Made(keys)' /\ Made(keyFile)' /\ Made(answered.created)' /\ Made(answered.removed)'
    BY <1>1, <1>2, <1>5, <2>1 DEF KeysIInv, Made
  <2>3. KeysDurable'
    BY <1>1, <1>5, <2>1 DEF KeysIInv, KeysDurable
  <2> QED BY <1>2, <2>1, <2>2, <2>3 DEF KeysIInv
<1> QED BY <1>1, <1>3, <1>4, <1>5 DEF Saves, SaveFails

(* The invariant is inductive; a restart takes the file. *)
LEMMA KeysStep == KeysIInv /\ [AccessNext]_accessVars => KeysIInv'
<1> SUFFICES ASSUME KeysIInv, [AccessNext]_accessVars PROVE KeysIInv'
  OBVIOUS
<1>1. CASE UNCHANGED accessVars
  BY <1>1, KeysUntouched DEF accessVars, KeysIInv
<1>2. ASSUME NEW r \in Requests, RequestStep(r) PROVE KeysIInv'
  <2>1. CASE Arrive(r) \/ FetchKeys(r)
    <3>1. UNCHANGED <<keys, keyFile, answered>> /\ rest'.made = rest.made /\ rest' \in Rests
      BY <2>1 DEF Arrive, FetchKeys, KeysIInv, Rests
    <3> QED BY <3>1, KeysUntouched
  <2>2. CASE VerifyCached(r) \/ InstallKeys(r) \/ VerifyAgain(r) \/ Refused(r)
    <3>1. UNCHANGED <<keys, keyFile, answered, rest>>
      BY <2>2 DEF VerifyCached, InstallKeys, VerifyAgain, Refused
    <3> QED BY <3>1, KeysUntouched DEF KeysIInv
  <2> QED BY <1>2, <2>1, <2>2, KeyMade, KeyRemoved DEF RequestStep
<1>3. ASSUME NEW set \in SUBSET SigningKeys, Rotate(set) PROVE KeysIInv'
  <2>1. UNCHANGED <<keys, keyFile, answered>> /\ rest'.made = rest.made /\ rest' \in Rests
    BY <1>3 DEF Rotate, KeysIInv, Rests
  <2> QED BY <2>1, KeysUntouched
<1>4. CASE AccessRestart
  <2>1. /\ keys' = keyFile /\ UNCHANGED <<keyFile, answered>> /\ rest'.made = rest.made
        /\ rest' \in Rests
    BY <1>4 DEF AccessRestart, KeysIInv, Rests
  <2> QED BY <2>1 DEF KeysIInv, Made, KeysDurable
<1> QED BY <1>1, <1>2, <1>3, <1>4 DEF AccessNext

(* A key answered as created survives restarts until its removal is asked  *)
(* for; one answered as removed never works again.                         *)
THEOREM KeysStayDurable == AccessSpec => []KeysDurable
<1>1. KeysIInv => KeysDurable
  BY DEF KeysIInv
<1> QED BY KeysInitIInv, KeysStep, <1>1, PTL DEF AccessSpec
-----------------------------------------------------------------------------
(* Tokens *)

RequestShape == [at : Stage \ {"idle"}, token : Tokens, need : Permissions,
                 todo : SUBSET Permissions, id : Nat, grants : SUBSET Permissions,
                 fetched : SUBSET SigningKeys, excused : BOOLEAN]

Sound(q) ==
    LET signer == SignedWith[q.token]
    IN  \/ q.excused
        \/ /\ signer \in published
           /\ q.at = "install" => signer \in q.fetched
           /\ q.at = "again" => signer \in jwks
           /\ q.at = "refused" => q.need \notin Granted[q.token]

TokenIInv ==
    /\ published \subseteq SigningKeys /\ jwks \subseteq SigningKeys
    /\ rest \in Rests
    /\ req \in [Requests -> {NoRequest} \cup RequestShape]
    /\ \A r \in Requests : req[r] # NoRequest => Sound(req[r])

(* No request is under way at the start. *)
LEMMA TokenInitIInv == AccessInit => TokenIInv
BY AccessAssumption DEF AccessInit, TokenIInv, Rests

(* One request moves, and neither the provider nor the cache changes. *)
LEMMA OneMoves ==
    ASSUME TokenIInv, NEW r \in Requests, NEW q \in {NoRequest} \cup RequestShape,
           req' = [req EXCEPT ![r] = q], rest' \in Rests, UNCHANGED <<published, jwks>>,
           q # NoRequest => Sound(q)
    PROVE  TokenIInv'
BY DEF TokenIInv, Sound

(* A request past its arrival is a full record. *)
LEMMA RequestUnderWay ==
    ASSUME TokenIInv, NEW r \in Requests, req[r].at # "idle"
    PROVE  req[r] \in RequestShape /\ Sound(req[r])
BY DEF TokenIInv, NoRequest, RequestShape

(* A permission was found: the request goes on with the next, or acts. *)
LEMMA CheckedSound ==
    ASSUME TokenIInv, NEW r \in Requests, req[r].at # "idle", NEW next \in Checked(r)
    PROVE  next \in RequestShape /\ Sound(next)
<1> DEFINE q == req[r]
<1>1. q \in RequestShape /\ Sound(q)
  BY RequestUnderWay
<1>2. CASE q.todo = {}
  <2>1. next = [q EXCEPT !.at = "act"]
    BY <1>2 DEF Checked
  <2> QED BY <1>1, <2>1 DEF RequestShape, Sound, Stage
<1>3. CASE q.todo # {}
  <2>1. PICK p \in q.todo : next = [q EXCEPT !.at = "decode", !.need = p, !.todo = @ \ {p}]
    BY <1>3 DEF Checked
  <2>2. p \in Permissions /\ q.todo \ {p} \in SUBSET Permissions
    BY <1>1 DEF RequestShape
  <2>3. next \in RequestShape
    BY <1>1, <2>1, <2>2 DEF RequestShape, Stage
  <2>4. next.at = "decode" /\ next.token = q.token /\ next.excused = q.excused
    BY <1>1, <2>1 DEF RequestShape
  <2> QED BY <1>1, <2>3, <2>4 DEF Sound
<1> QED BY <1>2, <1>3

(* The steps of a request; the cache may be replaced under another one,    *)
(* which excuses that one.                                                 *)
LEMMA TokenRequestStep == ASSUME TokenIInv, NEW r \in Requests, RequestStep(r) PROVE TokenIInv'
<1>0. /\ req \in [Requests -> {NoRequest} \cup RequestShape] /\ rest \in Rests
      /\ published \subseteq SigningKeys /\ jwks \subseteq SigningKeys
  BY DEF TokenIInv
<1>1. CASE Arrive(r)
  <2>1. PICK t \in Tokens, todo \in SUBSET Permissions, id \in 0 .. rest.made :
          req' = [req EXCEPT ![r] =
               [at |-> "decode", token |-> t, need |-> Read, todo |-> todo, id |-> id,
                grants |-> todo, fetched |-> {}, excused |-> SignedWith[t] \notin published]]
    BY <1>1 DEF Arrive
  <2> DEFINE q == [at |-> "decode", token |-> t, need |-> Read, todo |-> todo, id |-> id,
                grants |-> todo, fetched |-> {}, excused |-> SignedWith[t] \notin published]
  <2>2. q \in RequestShape
    <3>1. id \in Nat
      BY <1>0, <2>1 DEF Rests
    <3>2. Read \in Permissions
      BY Zenon DEF Permissions
    <3>3. (SignedWith[t] \notin published) \in BOOLEAN
      BY Zenon
    <3>4. "decode" \in Stage \ {"idle"}
      BY DEF Stage
    <3> QED BY <3>1, <3>2, <3>3, <3>4 DEF RequestShape
  <2>3. Sound(q)
    BY DEF Sound
  <2>4. rest' \in Rests /\ UNCHANGED <<published, jwks>>
    BY <1>0, <1>1 DEF Arrive, Rests
  <2> QED BY <2>1, <2>2, <2>3, <2>4, OneMoves
<1>2. CASE VerifyCached(r)
  <2>1. req[r].at = "decode" /\ UNCHANGED <<published, jwks, rest>>
    BY <1>2 DEF VerifyCached
  <2>2. PICK next \in IF Decodes(r, jwks) THEN Checked(r) ELSE {[req[r] EXCEPT !.at = "fetch"]} :
          req' = [req EXCEPT ![r] = next]
    BY <1>2 DEF VerifyCached
  <2>3. CASE next \in Checked(r)
    BY <1>0, <2>1, <2>2, <2>3, CheckedSound, OneMoves
  <2>4. CASE next = [req[r] EXCEPT !.at = "fetch"]
    <3>1. next \in RequestShape /\ Sound(next)
      BY <2>1, <2>4, RequestUnderWay DEF RequestShape, Sound, Stage
    <3> QED BY <1>0, <2>1, <2>2, <3>1, OneMoves
  <2> QED BY <2>2, <2>3, <2>4
<1>3. CASE FetchKeys(r)
  <2>1. req[r] \in RequestShape /\ Sound(req[r]) /\ UNCHANGED <<published, jwks>>
    BY <1>3, RequestUnderWay DEF FetchKeys
  <2>2. CASE req' = [req EXCEPT ![r].at = "install", ![r].fetched = published] /\ UNCHANGED rest
    <3> DEFINE q == [req[r] EXCEPT !.at = "install", !.fetched = published]
    <3>1. q \in RequestShape /\ Sound(q)
      BY <1>0, <2>1 DEF RequestShape, Sound, Stage
    <3>2. req' = [req EXCEPT ![r] = q]
      BY <1>0, <2>1, <2>2 DEF RequestShape
    <3> QED BY <1>0, <2>1, <2>2, <3>1, <3>2, OneMoves
  <2>3. CASE /\ rest.faults > 0
             /\ req' = [req EXCEPT ![r].at = "refused", ![r].excused = TRUE]
             /\ rest' = [rest EXCEPT !.faults = @ - 1]
    <3> DEFINE q == [req[r] EXCEPT !.at = "refused", !.excused = TRUE]
    <3>1. q \in RequestShape /\ Sound(q)
      BY <2>1 DEF RequestShape, Sound, Stage
    <3>2. req' = [req EXCEPT ![r] = q]
      BY <1>0, <2>1, <2>3 DEF RequestShape
    <3>3. rest' \in Rests
      BY <1>0, <2>3 DEF Rests
    <3> QED BY <1>0, <2>1, <3>1, <3>2, <3>3, OneMoves
  <2> QED BY <1>3, <2>2, <2>3 DEF FetchKeys
<1>4. CASE InstallKeys(r)
  <2>1. req[r] \in RequestShape /\ Sound(req[r]) /\ req[r].at = "install"
    BY <1>4, RequestUnderWay DEF InstallKeys
  <2>2. jwks' = req[r].fetched /\ UNCHANGED <<published, rest>>
    BY <1>4 DEF InstallKeys
  <2>3. ASSUME NEW s \in Requests
        PROVE  /\ req'[s] \in {NoRequest} \cup RequestShape
               /\ req'[s] # NoRequest => Sound(req[s])'
    <3>1. CASE s = r
      <4>1. req'[s] = [req[r] EXCEPT !.at = "again"]
        BY <1>4, <3>1 DEF InstallKeys
      <4> QED BY <2>1, <2>2, <4>1 DEF RequestShape, Sound, Stage
    <3>2. CASE s # r /\ req[s].at = "again"
      <4>1. req'[s] = [req[s] EXCEPT !.excused = TRUE]
        BY <1>4, <3>2 DEF InstallKeys
      <4>2. req[s] \in RequestShape
        BY <3>2, RequestUnderWay
      <4> QED BY <4>1, <4>2 DEF RequestShape, Sound
    <3>3. CASE s # r /\ req[s].at # "again"
      <4>1. req'[s] = req[s]
        BY <1>4, <3>3 DEF InstallKeys
      <4> QED BY <1>0, <2>2, <3>3, <4>1 DEF TokenIInv, Sound
    <3> QED BY <3>1, <3>2, <3>3
  <2>4. req' \in [Requests -> {NoRequest} \cup RequestShape]
    BY <1>4, <2>3 DEF InstallKeys
  <2>5. jwks' \subseteq SigningKeys
    BY <2>1, <2>2 DEF RequestShape
  <2> QED BY <1>0, <2>2, <2>3, <2>4, <2>5 DEF TokenIInv
<1>5. CASE VerifyAgain(r)
  <2>1. req[r].at = "again" /\ UNCHANGED <<published, jwks, rest>>
    BY <1>5 DEF VerifyAgain
  <2>2. PICK next \in IF Decodes(r, jwks) THEN Checked(r)
                      ELSE {[req[r] EXCEPT !.at = "refused"]} :
          req' = [req EXCEPT ![r] = next]
    BY <1>5 DEF VerifyAgain
  <2>3. CASE Decodes(r, jwks)
    <3>1. next \in RequestShape /\ Sound(next)
      BY <2>1, <2>2, <2>3, CheckedSound
    <3> QED BY <1>0, <2>1, <2>2, <3>1, OneMoves
  <2>4. CASE ~Decodes(r, jwks)
    <3>1. next = [req[r] EXCEPT !.at = "refused"]
      BY <2>2, <2>4
    <3>2. req[r] \in RequestShape /\ Sound(req[r])
      BY <2>1, RequestUnderWay
    <3>3. next \in RequestShape
      BY <3>1, <3>2 DEF RequestShape, Stage
    <3>4. Sound(next)
      BY <2>1, <2>4, <3>1, <3>2 DEF RequestShape, Sound, Decodes
    <3> QED BY <1>0, <2>1, <2>2, <3>3, <3>4, OneMoves
  <2> QED BY <2>3, <2>4
<1>6. CASE CreateKey(r) \/ RemoveKey(r) \/ Refused(r)
  <2>1. req' = [req EXCEPT ![r] = NoRequest] /\ UNCHANGED <<published, jwks>>
    BY <1>6 DEF CreateKey, RemoveKey, Refused
  <2>2. rest' \in Rests
    <3>1. \/ rest' = rest
          \/ rest' = [rest EXCEPT !.made = @ + 1]
          \/ rest.faults > 0 /\ rest' = [rest EXCEPT !.made = @ + 1, !.faults = @ - 1]
          \/ rest.faults > 0 /\ rest' = [rest EXCEPT !.faults = @ - 1]
      BY <1>6 DEF CreateKey, RemoveKey, Refused, Saves, SaveFails
    <3>2. CASE rest.faults > 0 /\ rest' = [rest EXCEPT !.made = @ + 1, !.faults = @ - 1]
      <4>1. rest.faults - 1 \in Nat /\ rest.made + 1 \in Nat
        BY <1>0, <3>2 DEF Rests
      <4> QED BY <1>0, <3>2, <4>1 DEF Rests
    <3>3. CASE rest.faults > 0 /\ rest' = [rest EXCEPT !.faults = @ - 1]
      BY <1>0, <3>3 DEF Rests
    <3>4. CASE rest' = [rest EXCEPT !.made = @ + 1]
      BY <1>0, <3>4 DEF Rests
    <3> QED BY <1>0, <3>1, <3>2, <3>3, <3>4
  <2> QED BY <2>1, <2>2, OneMoves
<1> QED BY <1>1, <1>2, <1>3, <1>4, <1>5, <1>6 DEF RequestStep

(* The invariant is inductive: a rotation excuses the requests whose key   *)
(* it withdraws, and a restart leaves none under way.                      *)
LEMMA TokenStep == TokenIInv /\ [AccessNext]_accessVars => TokenIInv'
<1> SUFFICES ASSUME TokenIInv, [AccessNext]_accessVars PROVE TokenIInv'
  OBVIOUS
<1>1. CASE UNCHANGED accessVars
  BY <1>1 DEF accessVars, TokenIInv, Sound
<1>2. ASSUME NEW set \in SUBSET SigningKeys, Rotate(set) PROVE TokenIInv'
  <2>1. published' = set /\ UNCHANGED jwks /\ rest' \in Rests
    BY <1>2 DEF Rotate, TokenIInv, Rests
  <2>2. ASSUME NEW r \in Requests
        PROVE  /\ req'[r] \in {NoRequest} \cup RequestShape
               /\ req'[r] # NoRequest => Sound(req[r])'
    <3>1. CASE req[r].at # "idle" /\ SignedWith[req[r].token] \notin set
      <4>1. req'[r] = [req[r] EXCEPT !.excused = TRUE]
        BY <1>2, <3>1 DEF Rotate
      <4>2. req[r] \in RequestShape
        BY <3>1, RequestUnderWay
      <4> QED BY <4>1, <4>2 DEF RequestShape, Sound
    <3>2. CASE req[r].at = "idle" \/ SignedWith[req[r].token] \in set
      <4>1. req'[r] = req[r]
        BY <1>2, <3>2 DEF Rotate
      <4>2. req[r] # NoRequest => req[r].at # "idle"
        BY DEF TokenIInv, RequestShape
      <4> QED BY <2>1, <3>2, <4>1, <4>2 DEF TokenIInv, Sound
    <3> QED BY <3>1, <3>2
  <2>3. req' \in [Requests -> {NoRequest} \cup RequestShape]
    BY <1>2, <2>2 DEF Rotate
  <2> QED BY <2>1, <2>2, <2>3 DEF TokenIInv
<1>3. CASE AccessRestart
  <2>1. rest' \in Rests
    BY <1>3 DEF AccessRestart, TokenIInv, Rests
  <2> QED BY <1>3, <2>1 DEF AccessRestart, TokenIInv
<1> QED BY <1>1, <1>2, <1>3, TokenRequestStep DEF AccessNext

(* A token that carries the permission, signed with a key that is          *)
(* published while the request runs, is refused only if the provider could *)
(* not be asked or another request replaced the cached keys meanwhile.     *)
THEOREM ValidTokensAccepted == AccessSpec => []ValidTokenAccepted
<1>1. TokenIInv => ValidTokenAccepted
  BY RequestUnderWay DEF ValidTokenAccepted, Sound
<1> QED BY TokenInitIInv, TokenStep, <1>1, PTL DEF AccessSpec

-----------------------------------------------------------------------------
(***************************************************************************)
(* Presence: the roster counts the connections of each label. The          *)
(* invariant is of the server's tasks: a label is counted until the task   *)
(* that added it ends, which may be long after its link closed and the     *)
(* client came back by another.                                            *)
(***************************************************************************)

Present == {"added", "greeted", "loop"}
TaskStages == {"none", "accepted", "ended"} \cup Present
LinkStates == {"unused", "closed"} \cup Alive

(* The tasks that have put a label on the roster and not taken it off. *)
Holding(l) == {k \in Links : Label[k[1]] = l /\ task[k] \in Present}

RosterIInv ==
    /\ task \in [Links -> TaskStages] /\ roster \in [Labels -> Nat]
    /\ link \in [Links -> LinkStates]
    /\ \A k \in Links : link[k] \in {"unused", "dialing"} => task[k] = "none"
    /\ \A l \in Labels : IsFiniteSet(Holding(l)) /\ roster[l] = Cardinality(Holding(l))

LEMMA LinkLabel == ASSUME NEW k \in Links PROVE Label[k[1]] \in Labels
BY DEF Links, Labels

(* Nobody is connected at the start. *)
LEMMA RosterInitIInv == PresenceInit => RosterIInv
<1> SUFFICES ASSUME PresenceInit PROVE RosterIInv
  OBVIOUS
<1>1. \A l \in Labels : Holding(l) = {}
  BY DEF PresenceInit, Holding, Present
<1> QED BY <1>1, FS_EmptySet DEF PresenceInit, RosterIInv, TaskStages, LinkStates

(* A task that is on the roster before and after a step, or neither.       *)
LEMMA NobodyMoves ==
    ASSUME RosterIInv, UNCHANGED roster, task' \in [Links -> TaskStages],
           \A k \in Links : task'[k] \in Present <=> task[k] \in Present
    PROVE  \A l \in Labels : /\ IsFiniteSet(Holding(l)')
                             /\ roster'[l] = Cardinality(Holding(l)')
<1>1. \A l \in Labels : Holding(l)' = Holding(l)
  BY DEF Holding
<1> QED BY <1>1 DEF RosterIInv

(* A task comes onto the roster: its label counts one more. *)
LEMMA OneComes ==
    ASSUME RosterIInv, NEW k \in Links, task[k] \notin Present, NEW to \in Present,
           task' = [task EXCEPT ![k] = to], roster' = [roster EXCEPT ![Label[k[1]]] = @ + 1]
    PROVE  /\ roster' \in [Labels -> Nat]
           /\ \A l \in Labels : /\ IsFiniteSet(Holding(l)')
                                /\ roster'[l] = Cardinality(Holding(l)')
<1>1. Label[k[1]] \in Labels /\ task \in [Links -> TaskStages] /\ roster \in [Labels -> Nat]
  BY LinkLabel DEF RosterIInv
<1>2. ASSUME NEW l \in Labels
      PROVE  IsFiniteSet(Holding(l)') /\ roster'[l] = Cardinality(Holding(l)')
  <2>1. IsFiniteSet(Holding(l)) /\ roster[l] = Cardinality(Holding(l))
    BY DEF RosterIInv
  <2>2. CASE l = Label[k[1]]
    <3>1. Holding(l)' = Holding(l) \cup {k} /\ k \notin Holding(l)
      BY <1>1, <2>2 DEF Holding
    <3>2. roster'[l] = roster[l] + 1
      BY <1>1, <2>2
    <3>3. IsFiniteSet(Holding(l) \cup {k}) /\ Cardinality(Holding(l) \cup {k}) = Cardinality(Holding(l)) + 1
      BY <2>1, <3>1, FS_AddElement
    <3> QED BY <2>1, <3>1, <3>2, <3>3
  <2>3. CASE l # Label[k[1]]
    <3>1. Holding(l)' = Holding(l)
      BY <1>1, <2>3 DEF Holding
    <3> QED BY <1>1, <2>1, <2>3, <3>1
  <2> QED BY <2>2, <2>3
<1> QED BY <1>1, <1>2

(* A task goes: its label counts one less, and was counted. *)
LEMMA OneGoes ==
    ASSUME RosterIInv, NEW k \in Links, task[k] \in Present, NEW to \in TaskStages \ Present,
           task' = [task EXCEPT ![k] = to], roster' = [roster EXCEPT ![Label[k[1]]] = @ - 1]
    PROVE  /\ roster' \in [Labels -> Nat]
           /\ \A l \in Labels : /\ IsFiniteSet(Holding(l)')
                                /\ roster'[l] = Cardinality(Holding(l)')
<1>1. Label[k[1]] \in Labels /\ task \in [Links -> TaskStages] /\ roster \in [Labels -> Nat]
  BY LinkLabel DEF RosterIInv
<1>2. ASSUME NEW l \in Labels
      PROVE  /\ IsFiniteSet(Holding(l)') /\ roster'[l] = Cardinality(Holding(l)')
             /\ roster'[l] \in Nat
  <2>1. IsFiniteSet(Holding(l)) /\ roster[l] = Cardinality(Holding(l))
    BY DEF RosterIInv
  <2>2. CASE l = Label[k[1]]
    <3>1. Holding(l)' = Holding(l) \ {k} /\ k \in Holding(l)
      BY <1>1, <2>2 DEF Holding
    <3>2. roster'[l] = roster[l] - 1
      BY <1>1, <2>2
    <3>3. IsFiniteSet(Holding(l) \ {k}) /\ Cardinality(Holding(l) \ {k}) = Cardinality(Holding(l)) - 1
      BY <2>1, <3>1, FS_RemoveElement
    <3>4. Cardinality(Holding(l) \ {k}) \in Nat
      BY <3>3, FS_CardinalityType
    <3> QED BY <2>1, <3>1, <3>2, <3>3, <3>4
  <2>3. CASE l # Label[k[1]]
    <3>1. Holding(l)' = Holding(l)
      BY <1>1, <2>3 DEF Holding
    <3> QED BY <1>1, <2>1, <2>3, <3>1
  <2> QED BY <2>2, <2>3
<1>3. roster' \in [Labels -> Nat]
  BY <1>1, <1>2
<1> QED BY <1>2, <1>3

LEMMA RosterTaskStep == ASSUME RosterIInv, NEW k \in Links, TaskStep(k) PROVE RosterIInv'
<1>0. /\ task \in [Links -> TaskStages] /\ roster \in [Labels -> Nat]
      /\ link \in [Links -> LinkStates]
      /\ \A m \in Links : link[m] \in {"unused", "dialing"} => task[m] = "none"
  BY DEF RosterIInv
<1>1. CASE AddClient(k)
  <2>1. /\ task[k] \notin Present /\ "added" \in Present /\ link' = link
        /\ task' = [task EXCEPT ![k] = "added"]
        /\ roster' = [roster EXCEPT ![Label[k[1]]] = @ + 1] /\ task[k] # "none"
    BY <1>1 DEF AddClient, Present
  <2> QED BY <1>0, <2>1, OneComes DEF RosterIInv, TaskStages
<1>2. CASE RemoveClient(k)
  <2>1. /\ task[k] \in Present /\ "ended" \in TaskStages \ Present /\ link' = link
        /\ task' = [task EXCEPT ![k] = "ended"] /\ task[k] # "none"
        /\ roster' = [roster EXCEPT ![Label[k[1]]] = @ - 1]
    BY <1>2 DEF RemoveClient, Present, TaskStages
  <2> QED BY <1>0, <2>1, OneGoes DEF RosterIInv, TaskStages
<1>3. CASE ServerHello(k) \/ Subscribe(k) \/ TakeNotification(k) \/ HelloNeverCame(k)
  <2>1. /\ link' = link /\ roster' = roster
        /\ \/ task' = task
           \/ \E to \in Present : /\ task[k] \in Present
                                  /\ task' = [task EXCEPT ![k] = to]
           \/ task[k] = "accepted" /\ task' = [task EXCEPT ![k] = "ended"]
    BY <1>3 DEF ServerHello, Subscribe, TakeNotification, HelloNeverCame, SendList, Listening,
       Present
  <2>2. /\ task' \in [Links -> TaskStages]
        /\ \A m \in Links : task'[m] \in Present <=> task[m] \in Present
        /\ \A m \in Links : task[m] = "none" => task'[m] = "none"
    BY <1>0, <2>1 DEF TaskStages, Present
  <2> QED BY <1>0, <2>1, <2>2, NobodyMoves DEF RosterIInv
<1> QED BY <1>1, <1>2, <1>3 DEF TaskStep

(* The other steps move no task that is on the roster.  A connection gets  *)
(* its task when it is made, and is made once.                             *)
LEMMA RosterStep == RosterIInv /\ [PresenceNext]_presenceVars => RosterIInv'
<1> SUFFICES ASSUME RosterIInv, [PresenceNext]_presenceVars PROVE RosterIInv'
  OBVIOUS
<1>0. /\ task \in [Links -> TaskStages] /\ roster \in [Labels -> Nat]
      /\ link \in [Links -> LinkStates]
      /\ \A m \in Links : link[m] \in {"unused", "dialing"} => task[m] = "none"
  BY DEF RosterIInv
<1>1. ASSUME NEW c \in Clients, Dial(c) PROVE RosterIInv'
  <2>1. PICK i \in Next1(c) : link' = [link EXCEPT ![<<c, i>>] = "dialing"]
    BY <1>1 DEF Dial
  <2>2. <<c, i>> \in Links /\ UNCHANGED <<task, roster>>
    BY <1>1 DEF Dial, Next1, Links
  <2>3. /\ link' \in [Links -> LinkStates]
        /\ \A m \in Links : link'[m] \in {"unused", "dialing"} => task'[m] = "none"
    <3>1. i \in 1 .. Attempts[c] /\ link[<<c, i>>] = "unused"
      BY DEF Next1
    <3> QED BY <1>0, <2>1, <2>2, <3>1 DEF LinkStates, Alive
  <2> QED BY <1>0, <2>2, <2>3, NobodyMoves DEF RosterIInv
<1>7. ASSUME NEW k \in Links, PeerAnswers(k) PROVE RosterIInv'
  <2>1. /\ task[k] = "none" /\ roster' = roster
        /\ link' = [link EXCEPT ![k] = "open"] /\ task' = [task EXCEPT ![k] = "accepted"]
    BY <1>0, <1>7 DEF PeerAnswers
  <2>2. /\ task' \in [Links -> TaskStages]
        /\ link' \in [Links -> LinkStates]
        /\ \A m \in Links : task'[m] \in Present <=> task[m] \in Present
        /\ \A m \in Links : link'[m] \in {"unused", "dialing"} => task'[m] = "none"
    BY <1>0, <2>1 DEF TaskStages, Present, LinkStates, Alive
  <2> QED BY <1>0, <2>1, <2>2, NobodyMoves DEF RosterIInv
<1>2. ASSUME UNCHANGED <<task, roster>>,
             link' = link \/ \E k \in Links, at \in {"greeted", "sending", "closed"} :
                                link' = [link EXCEPT ![k] = at]
      PROVE  RosterIInv'
  <2>1. /\ link' \in [Links -> LinkStates]
        /\ \A m \in Links : link'[m] \in {"unused", "dialing"} => task'[m] = "none"
    BY <1>0, <1>2 DEF LinkStates, Alive
  <2> QED BY <1>0, <1>2, <2>1, NobodyMoves DEF RosterIInv
<1>3. CASE UNCHANGED presenceVars
  BY <1>2, <1>3 DEF presenceVars
<1>4. ASSUME NEW k \in Links, LoseConnection(k) \/ Blocks(k) \/ Unblocks(k) PROVE RosterIInv'
  BY <1>2, <1>4 DEF LoseConnection, Close1, Blocks, Unblocks
<1>5. ASSUME NEW c \in Clients, SessionStep(c) PROVE RosterIInv'
  <2>1. ASSUME NEW i \in 1 .. Attempts[c],
               ReadHello(<<c, i>>) \/ ReadPresence(<<c, i>>) \/ StopConnected(<<c, i>>)
        PROVE  RosterIInv'
    <3>1. <<c, i>> \in Links
      BY DEF Links
    <3> QED BY <1>2, <2>1, <3>1 DEF ReadHello, ReadPresence, StopConnected, Close1
  <2>2. CASE Retry(c) \/ StopIdle(c)
    BY <1>2, <2>2 DEF Retry, StopIdle
  <2> QED BY <1>1, <1>5, <2>1, <2>2 DEF SessionStep
<1>6. CASE (\E c \in Clients : RequestShutdown(c)) \/ DocumentChanged
  BY <1>2, <1>6 DEF RequestShutdown, DocumentChanged
<1> QED BY <1>3, <1>4, <1>5, <1>6, <1>7, RosterTaskStep DEF PresenceNext

(* A label is on the roster exactly while a task that added it has not     *)
(* removed it, also while an old connection of the client is still there.  *)
THEOREM RosterAlwaysCounts == PresenceSpec => []RosterCounts
<1>1. RosterIInv => RosterCounts
  BY DEF RosterIInv, RosterCounts, Holding, Present
<1> QED BY RosterInitIInv, RosterStep, <1>1, PTL DEF PresenceSpec


LEMMA ServerTyped == ServerSpec => []ServerTypeOK
<1> DEFINE Stages == serve \in Ended \cup {"failed", "accepting", "draining", "joining"} /\ joined \subseteq Sockets
<1>1. ServerInit => Stages
  BY DEF ServerInit
<1>2. Stages /\ [ServerNext]_serverVars => Stages'
  <2> SUFFICES ASSUME Stages, [ServerNext]_serverVars PROVE Stages'
    OBVIOUS
  <2>1. CASE UNCHANGED <<serve, joined>>
    BY <2>1
  <2>2. CASE AcceptFails \/ MainStep
    BY <2>2 DEF AcceptFails, MainStep, Shutdown, TakesSockets, Returns, Exits, Ended
  <2>3. ASSUME NEW k \in Sockets,
               \/ RequestArrives(k) \/ HandleStep(k) \/ StoreFails(k)
               \/ ClientGoes(k) \/ EndStep(k) \/ Accepts(k)
        PROVE  UNCHANGED <<serve, joined>>
    BY <2>3 DEF RequestArrives, HandleStep, Authorized, BodyRead, Reads, TakesLock, PutsRevision,
       SetsHead, Answers, Upgrades, Upgraded, StoreFails, ClientGoes, EndStep, Cancelled,
       SocketCancelled, Accepts
  <2> HIDE DEF Stages
  <2> QED BY <2>1, <2>2, <2>3 DEF ServerNext, CtrlC, serverVars
<1>3. ServerIInv /\ Stages => ServerTypeOK
  <2> SUFFICES ASSUME ServerIInv, Stages PROVE ServerTypeOK
    OBVIOUS
  <2>1. \A c \in Conns : c.at \in Where
    BY DEF Conns
  <2>2. \A k \in Sockets : http[k].at \in Where
    BY <2>1 DEF ServerIInv
  <2> QED BY <2>2 DEF ServerIInv, ServerTypeOK, Where, Ended
<1> HIDE DEF Stages
<1> QED BY ServerInitIInv, ServerStepIInv, <1>1, <1>2, <1>3, PTL DEF ServerSpec

(* Keys in memory and in the file are of accounts and permissions there    *)
(* are, and no two of a set share an id.                                   *)
KeySet(set) == set \subseteq ApiKey /\ \A k, l \in set : k.id = l.id => k = l

LEMMA KeySetsStep ==
    ASSUME KeysIInv, TokenIInv, KeySet(keys), KeySet(keyFile), [AccessNext]_accessVars
    PROVE  KeySet(keys)' /\ KeySet(keyFile)'
<1>1. ASSUME UNCHANGED <<keys, keyFile>> PROVE KeySet(keys)' /\ KeySet(keyFile)'
  BY <1>1 DEF KeySet
<1>2. ASSUME NEW r \in Requests, CreateKey(r) PROVE KeySet(keys)' /\ KeySet(keyFile)'
  <2>1. PICK key : /\ key = [id |-> rest.made + 1, owner |-> Subject[req[r].token],
                             permissions |-> req[r].grants]
                   /\ keys' = keys \cup {key} /\ keyFile' \in {keyFile, keys \cup {key}}
    BY <1>2 DEF CreateKey
  <2>2. /\ req[r].token \in Tokens /\ req[r].grants \in SUBSET Permissions
        /\ rest.made \in Nat /\ rest.made < MaxKeys
    BY <1>2, RequestUnderWay DEF CreateKey, RequestShape, KeysIInv, Rests
  <2>3. key \in ApiKey /\ key.id = rest.made + 1
    BY <2>1, <2>2, AccessAssumption DEF ApiKey
  <2>4. \A k \in keys : k.id # key.id
    BY <2>2, <2>3 DEF KeysIInv, Made
  <2> HIDE DEF KeysIInv, TokenIInv
  <2>5. KeySet(keys \cup {key})
    BY <2>3, <2>4 DEF KeySet
  <2> QED BY <2>1, <2>5
<1>3. ASSUME NEW r \in Requests, RemoveKey(r) PROVE KeySet(keys)' /\ KeySet(keyFile)'
  <2>1. PICK gone \in SUBSET keys : keys' = keys \ gone /\ keyFile' \in {keyFile, keys \ gone}
    <3>1. /\ keys' \in {keys \ gone : gone \in SUBSET keys}
          /\ keyFile' = keyFile \/ keyFile' = keys'
      BY <1>3 DEF RemoveKey, Saves, SaveFails
    <3> QED BY <3>1
  <2>2. KeySet(keys \ gone)
    BY DEF KeySet
  <2> QED BY <2>1, <2>2
<1>4. CASE AccessRestart
  BY <1>4 DEF AccessRestart
<1>5. ASSUME NEW r \in Requests,
             \/ Arrive(r) \/ VerifyCached(r) \/ FetchKeys(r) \/ InstallKeys(r)
             \/ VerifyAgain(r) \/ Refused(r)
      PROVE  UNCHANGED <<keys, keyFile>>
  BY <1>5 DEF Arrive, VerifyCached, FetchKeys, InstallKeys, VerifyAgain, Refused
<1> QED
  BY <1>1, <1>2, <1>3, <1>4, <1>5 DEF AccessNext, RequestStep, Rotate, accessVars

LEMMA AccessTyped == AccessSpec => []AccessTypeOK
<1>1. AccessInit => KeySet(keys) /\ KeySet(keyFile)
  BY DEF AccessInit, KeySet
<1>2. KeysIInv /\ TokenIInv /\ KeySet(keys) /\ KeySet(keyFile) /\ [AccessNext]_accessVars
          => KeySet(keys)' /\ KeySet(keyFile)'
  BY KeySetsStep
<1>3. TokenIInv /\ KeySet(keys) /\ KeySet(keyFile) => AccessTypeOK
  <2> SUFFICES ASSUME TokenIInv, KeySet(keys), KeySet(keyFile) PROVE AccessTypeOK
    OBVIOUS
  <2>1. \A r \in Requests : req[r].at \in Stage
    BY DEF TokenIInv, RequestShape, NoRequest, Stage
  <2> QED BY <2>1 DEF TokenIInv, KeySet, AccessTypeOK
<1> QED BY KeysInitIInv, KeysStep, TokenInitIInv, TokenStep, <1>1, <1>2, <1>3, PTL DEF AccessSpec

-----------------------------------------------------------------------------
(* Presence: a task's notifications fit its room, and what a client is     *)
(* told is a list of labels.                                               *)

Notices == {"presence", "doc"}
Rosters == SUBSET Labels

PresenceTypes ==
    /\ mail \in [Links -> Seq(Notices)]
    /\ \A k \in Links : Len(mail[k]) <= Room
    /\ wire \in [Links -> Seq(Rosters)]
    /\ status \in [Clients -> {"connecting", "connected", "offline", "stopped"}]
    /\ peers \in [Clients -> Rosters]
    /\ stop \in [Clients -> BOOLEAN]

LEMMA NotifyTypes ==
    ASSUME mail \in [Links -> Seq(Notices)], \A k \in Links : Len(mail[k]) <= Room,
           NEW what \in Notices, NEW tasks, Notify(what, tasks)
    PROVE  mail' \in [Links -> Seq(Notices)] /\ \A k \in Links : Len(mail'[k]) <= Room
<1>1. Room \in Nat \ {0}
  BY PresenceAssumption
<1>2. ASSUME NEW q \in Seq(Notices), Len(q) <= Room
      PROVE  LET next == IF Len(q) < Room THEN Append(q, what) ELSE Append(Tail(q), what)
             IN  next \in Seq(Notices) /\ Len(next) <= Room
  <2>1. Append(q, what) \in Seq(Notices) /\ Len(Append(q, what)) = Len(q) + 1 /\ Len(q) \in Nat
    OBVIOUS
  <2>2. CASE Len(q) < Room
    BY <1>1, <2>1, <2>2
  <2>3. CASE ~(Len(q) < Room)
    <3>1. q # <<>>
      BY <1>1, <2>1, <2>3
    <3>2. Tail(q) \in Seq(Notices) /\ Len(Tail(q)) = Len(q) - 1
      BY <3>1
    <3>3. Append(Tail(q), what) \in Seq(Notices) /\ Len(Append(Tail(q), what)) = Len(q)
      BY <2>1, <3>2
    <3> QED BY <1>2, <2>3, <3>3
  <2> QED BY <2>2, <2>3
<1>3. <<>> \in Seq(Notices) /\ Len(<<>>) <= Room
  BY <1>1
<1>4. mail' = [k \in Links |->
                  IF k \notin tasks THEN <<>>
                  ELSE IF Len(mail[k]) < Room THEN Append(mail[k], what)
                  ELSE Append(Tail(mail[k]), what)]
  BY DEF Notify
<1>5. ASSUME NEW k \in Links PROVE mail'[k] \in Seq(Notices) /\ Len(mail'[k]) <= Room
  BY <1>2, <1>3, <1>4
<1> QED BY <1>4, <1>5

LEMMA SendTypes ==
    ASSUME wire \in [Links -> Seq(Rosters)], NEW k \in Links, NEW to, SendList(k, to)
    PROVE  wire' \in [Links -> Seq(Rosters)]
<1>1. ClientIds \in Rosters
  BY DEF ClientIds, Rosters
<1>2. Append(wire[k], ClientIds) \in Seq(Rosters)
  BY <1>1
<1> QED BY <1>2 DEF SendList

LEMMA PresenceTypesStep ==
    ASSUME PresenceTypes, [PresenceNext]_presenceVars PROVE PresenceTypes'
<1> DEFINE MailOK == mail \in [Links -> Seq(Notices)] /\ \A k \in Links : Len(mail[k]) <= Room
           WireOK == wire \in [Links -> Seq(Rosters)]
           RestOK == /\ status \in [Clients -> {"connecting", "connected", "offline", "stopped"}]
                     /\ peers \in [Clients -> Rosters] /\ stop \in [Clients -> BOOLEAN]
<1>0. MailOK /\ WireOK /\ RestOK
  BY DEF PresenceTypes
<1>1. MailOK' /\ WireOK' /\ RestOK' => PresenceTypes'
  BY DEF PresenceTypes
<1>2. ASSUME NEW k \in Links, TaskStep(k) PROVE PresenceTypes'
  <2>1. UNCHANGED <<status, peers, stop>>
    BY <1>2 DEF TaskStep, AddClient, ServerHello, Subscribe, TakeNotification, RemoveClient,
       HelloNeverCame
  <2>2. MailOK'
    <3>1. CASE UNCHANGED mail
      BY <1>0, <3>1
    <3>2. ASSUME NEW tasks, Notify("presence", tasks) PROVE MailOK'
      BY <1>0, <3>2, NotifyTypes DEF Notices
    <3>3. CASE TakeNotification(k)
      <4>1. mail[k] # <<>> /\ mail' = [mail EXCEPT ![k] = Tail(@)]
        BY <3>3 DEF TakeNotification
      <4>2. Tail(mail[k]) \in Seq(Notices) /\ Len(Tail(mail[k])) <= Room
        <5>1. mail[k] \in Seq(Notices) /\ Len(mail[k]) <= Room /\ Room \in Nat
          BY <1>0, PresenceAssumption
        <5>2. Tail(mail[k]) \in Seq(Notices) /\ Len(Tail(mail[k])) = Len(mail[k]) - 1
              /\ Len(mail[k]) \in Nat
          BY <4>1, <5>1
        <5> QED BY <5>1, <5>2
      <4> QED BY <1>0, <4>1, <4>2
    <3> HIDE DEF MailOK
    <3> QED
      BY <1>2, <3>1, <3>2, <3>3 DEF TaskStep, AddClient, ServerHello, Subscribe, RemoveClient,
         HelloNeverCame
  <2>3. WireOK'
    <3>1. UNCHANGED wire \/ \E to : SendList(k, to)
      BY <1>2 DEF TaskStep, AddClient, ServerHello, Subscribe, TakeNotification, RemoveClient,
         HelloNeverCame
    <3> QED BY <1>0, <3>1, SendTypes
  <2> QED BY <1>0, <1>1, <2>1, <2>2, <2>3
<1>3. ASSUME NEW k \in Links, UNCHANGED <<mail, stop>>,
             \/ UNCHANGED wire \/ wire' = [wire EXCEPT ![k] = <<>>]
             \/ wire[k] # <<>> /\ wire' = [wire EXCEPT ![k] = Tail(@)],
             \/ UNCHANGED peers \/ peers' = [peers EXCEPT ![k[1]] = {}]
             \/ wire[k] # <<>> /\ peers' = [peers EXCEPT ![k[1]] = Head(wire[k])],
             UNCHANGED status \/ \E s \in {"connected", "offline", "stopped"} :
                                    status' = [status EXCEPT ![k[1]] = s]
      PROVE  PresenceTypes'
  <2>1. wire[k] \in Seq(Rosters)
    BY <1>0
  <2>2. wire[k] # <<>> => Head(wire[k]) \in Rosters /\ Tail(wire[k]) \in Seq(Rosters)
    BY <2>1
  <2>3. <<>> \in Seq(Rosters) /\ {} \in Rosters
    BY DEF Rosters
  <2>4. WireOK'
    BY <1>0, <1>3, <2>2, <2>3
  <2>5. peers' \in [Clients -> Rosters]
    BY <1>0, <1>3, <2>2, <2>3
  <2>6. status' \in [Clients -> {"connecting", "connected", "offline", "stopped"}]
    BY <1>0, <1>3
  <2> QED BY <1>0, <1>1, <1>3, <2>4, <2>5, <2>6
<1>8. ASSUME NEW k \in Links, PeerAnswers(k) \/ Blocks(k) \/ Unblocks(k) PROVE PresenceTypes'
  BY <1>0, <1>1, <1>8 DEF PeerAnswers, Blocks, Unblocks
<1>4. ASSUME NEW k \in Links, LoseConnection(k) PROVE PresenceTypes'
  <2>1. UNCHANGED <<mail, stop>> /\ wire' = [wire EXCEPT ![k] = <<>>]
        /\ peers' = [peers EXCEPT ![k[1]] = {}] /\ status' = [status EXCEPT ![k[1]] = "offline"]
    BY <1>4 DEF LoseConnection, Close1
  <2> QED BY <1>3, <2>1
<1>5. ASSUME NEW c \in Clients, SessionStep(c) \/ RequestShutdown(c) PROVE PresenceTypes'
  <2>1. ASSUME NEW i \in 1 .. Attempts[c],
               ReadHello(<<c, i>>) \/ ReadPresence(<<c, i>>) \/ StopConnected(<<c, i>>)
        PROVE  PresenceTypes'
    <3>1. <<c, i>> \in Links
      BY DEF Links
    <3> QED BY <1>3, <2>1, <3>1 DEF ReadHello, ReadPresence, StopConnected, Close1
  <2>2. CASE Dial(c) \/ Retry(c) \/ StopIdle(c) \/ RequestShutdown(c)
    <3>1. /\ UNCHANGED <<mail, wire, peers>>
          /\ UNCHANGED status \/ status' = [status EXCEPT ![c] = "connecting"]
             \/ status' = [status EXCEPT ![c] = "stopped"]
          /\ UNCHANGED stop \/ stop' = [stop EXCEPT ![c] = TRUE]
      BY <2>2 DEF Dial, Retry, StopIdle, RequestShutdown
    <3>2. RestOK'
      BY <1>0, <3>1
    <3> QED BY <1>0, <1>1, <3>1, <3>2
  <2> QED BY <1>5, <2>1, <2>2 DEF SessionStep
<1>6. CASE DocumentChanged
  <2>1. MailOK'
    BY <1>0, <1>6, NotifyTypes DEF DocumentChanged, Notices
  <2> QED BY <1>0, <1>1, <1>6, <2>1 DEF DocumentChanged
<1>7. CASE UNCHANGED presenceVars
  BY <1>0, <1>1, <1>7 DEF presenceVars
<1> QED BY <1>2, <1>4, <1>5, <1>6, <1>7, <1>8 DEF PresenceNext

LEMMA PresenceTyped == PresenceSpec => []PresenceTypeOK
<1>1. PresenceInit => PresenceTypes
  <2> SUFFICES ASSUME PresenceInit PROVE PresenceTypes
    OBVIOUS
  <2>1. <<>> \in Seq(Notices) /\ <<>> \in Seq(Rosters) /\ Len(<<>>) <= Room /\ {} \in Rosters
    BY PresenceAssumption DEF Rosters
  <2> QED BY <2>1 DEF PresenceInit, PresenceTypes
<1>2. PresenceTypes /\ [PresenceNext]_presenceVars => PresenceTypes'
  BY PresenceTypesStep
<1>3. RosterIInv /\ PresenceTypes => PresenceTypeOK
  BY DEF RosterIInv, PresenceTypes, PresenceTypeOK, TaskStages, Present, Notices, Rosters,
         LinkStates
<1> QED BY RosterInitIInv, RosterStep, <1>1, <1>2, <1>3, PTL DEF PresenceSpec
=============================================================================
