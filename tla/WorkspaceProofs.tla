-------------------------- MODULE WorkspaceProofs ---------------------------
(***************************************************************************)
(* What a workspace holds: theorems about its configuration (PluginRun and *)
(* WorkspaceConfig), for every set of hosts, grants, plugins and editors   *)
(* and any number of calls and revisions, and about the files its notes    *)
(* are written to and read from (Projection and ContentFiles), for every   *)
(* set of notes, titles, paths and directories and every order of edits,   *)
(* merges and faults.                                                      *)
(***************************************************************************)
EXTENDS PluginRun, WorkspaceConfig, Projection, ContentFiles, Induction

-----------------------------------------------------------------------------
(***************************************************************************)
(* PluginRun: a plugin stays within its grants. PluginWithinGrants speaks  *)
(* of what was saved; it holds because the capabilities of a run are       *)
(* granted, the queue holds what they allow, and what is saved and what is *)
(* left to save make up the queue.                                         *)
(***************************************************************************)

(* What a run may be. *)
Runs == [at : {"closed", "running", "applying", "offering", "over", "ended"},
         caps : SUBSET Capabilities, calls : Nat, queued : Seq(Operations),
         todo : Seq(Operations), choices : BOOLEAN]

(* What an update of one field of a run leaves. *)
LEMMA RunFields ==
    ASSUME NEW r \in Runs
    PROVE  /\ \A n \in Nat : [r EXCEPT !.calls = n] \in Runs
           /\ \A q \in Seq(Operations) : [r EXCEPT !.queued = q] \in Runs
           /\ \A c \in SUBSET Capabilities : [r EXCEPT !.caps = c] \in Runs
BY DEF Runs

LEMMA RunCounts ==
    ASSUME NEW r \in Runs, NEW counted, counted = [r EXCEPT !.calls = r.calls + 1]
    PROVE  /\ counted \in Runs /\ counted.at = r.at /\ counted.caps = r.caps
           /\ counted.queued = r.queued /\ counted.todo = r.todo
           /\ counted.choices = r.choices
<1>1. r.calls + 1 \in Nat
  BY DEF Runs
<1>2. [r EXCEPT !.calls = r.calls + 1] \in Runs
  BY <1>1, RunFields
<1>3. \A n : LET s == [r EXCEPT !.calls = n] IN
                /\ s.at = r.at /\ s.caps = r.caps /\ s.queued = r.queued
                /\ s.todo = r.todo /\ s.choices = r.choices
  BY DEF Runs
<1> QED BY <1>2, <1>3

(* Where a run is, and what it has saved of its queue. *)
Progress ==
    /\ plug.at \in {"closed", "running"} =>
          saved = <<>> /\ plug.todo = <<>> /\ plug.choices = FALSE
    /\ plug.at = "applying" =>
          /\ Len(saved) + Len(plug.todo) = Len(plug.queued)
          /\ \A n \in 1 .. Len(plug.todo) : plug.todo[n] = plug.queued[Len(saved) + n]
    /\ plug.at = "offering" => Len(saved) = Len(plug.queued) /\ plug.choices

PluginIInv ==
    /\ PluginTypeOK
    /\ plug.caps \subseteq grants
    /\ \A n \in 1 .. Len(plug.queued) : Needs(plug.queued[n]) \in plug.caps
    /\ plug.choices => "create-note" \in plug.caps
    /\ Progress
    /\ PluginWithinGrants

(* A run starts closed, with nothing asked for, saved or seen. *)
LEMMA PluginInitIInv == PluginInit => PluginIInv
BY PluginAssumption
   DEF PluginInit, PluginIInv, PluginTypeOK, PluginWithinGrants, Progress, FreshRun, Capabilities,
       Operations

(* While a run only counts a call, or ends, what holds of it goes on.      *)
LEMMA PluginGoesOn ==
    ASSUME PluginIInv, plug.at = "running",
           plug' \in Runs, plug'.at \in {"running", "over"},
           plug'.caps = plug.caps, plug'.queued = plug.queued,
           plug'.todo = plug.todo, plug'.choices = plug.choices,
           UNCHANGED <<grants, saved>>,
           pluginSaw' \in [contacted : SUBSET PluginHosts, secret : BOOLEAN],
           pluginSaw'.contacted # {} => "network" \in grants,
           pluginSaw'.contacted \subseteq PublicHosts
    PROVE  PluginIInv'
<1> USE DEF PluginIInv, PluginTypeOK
<1>2. PluginTypeOK'
  BY DEF Runs
<1>3. saved = <<>> /\ plug.todo = <<>> /\ plug.choices = FALSE
  BY DEF Progress
<1>4. Progress' /\ PluginWithinGrants'
  BY <1>3 DEF Progress, PluginWithinGrants
<1> QED BY <1>2, <1>4

(* A run begins with granted capabilities. *)
LEMMA PluginBegins ==
    ASSUME PluginIInv, NEW declared \in SUBSET Capabilities, PluginStarts(declared)
    PROVE  PluginIInv'
<1> USE DEF PluginIInv, PluginTypeOK
<1>1. CASE MayRun(declared) /\ plug' = FreshRun("running", declared)
  <2>1. /\ plug'.at = "running" /\ plug'.caps = declared /\ plug'.calls = 0
        /\ plug'.queued = <<>> /\ plug'.todo = <<>> /\ plug'.choices = FALSE
    BY <1>1 DEF FreshRun
  <2>2. PluginTypeOK'
    <3>1. plug' \in Runs
      <4>1. <<>> \in Seq(Operations)
        OBVIOUS
      <4> HIDE DEF PluginIInv, PluginTypeOK
      <4> QED BY <1>1, <4>1 DEF Runs, FreshRun
    <3> QED BY <3>1 DEF PluginStarts, Runs
  <2>3. saved' = <<>>
    BY DEF PluginStarts, Progress
  <2>4. Progress' /\ PluginWithinGrants'
    BY <2>1, <2>3 DEF Progress, PluginWithinGrants, PluginStarts
  <2> QED BY <1>1, <2>1, <2>2, <2>4 DEF MayRun, PluginStarts
<1>2. CASE plug' = [plug EXCEPT !.at = "over"]
  <2>1. /\ plug'.at = "over" /\ plug'.caps = plug.caps /\ plug'.queued = plug.queued
        /\ plug'.choices = plug.choices
    BY <1>2
  <2>2. PluginTypeOK'
    BY <1>2 DEF PluginStarts
  <2>3. Progress' /\ PluginWithinGrants'
    BY <2>1 DEF Progress, PluginWithinGrants, PluginStarts
  <2> QED BY <2>1, <2>2, <2>3 DEF PluginStarts
<1> QED BY <1>1, <1>2 DEF PluginStarts

(* An operation is queued under its capability, or not at all. *)
LEMMA PluginQueues ==
    ASSUME PluginIInv, NEW kind \in Operations, Queue(kind)
    PROVE  PluginIInv'
<1> USE DEF PluginIInv, PluginTypeOK
<1>1. plug.at = "running" /\ UNCHANGED <<grants, pluginSaw, saved>>
  BY DEF Queue, Calls
<1>2. CASE Needs(kind) \in plug.caps
  <2>1. plug' = [plug EXCEPT !.calls = @ + 1, !.queued = Append(@, kind)]
    BY <1>2 DEF Queue
  <2>2. /\ plug'.at = "running" /\ plug'.caps = plug.caps
        /\ plug'.queued = Append(plug.queued, kind)
        /\ plug'.todo = plug.todo /\ plug'.choices = plug.choices
    BY <1>1, <2>1
  <2>3. PluginTypeOK'
    <3>1. plug \in Runs /\ Append(plug.queued, kind) \in Seq(Operations)
      BY DEF Runs
    <3>2. [plug EXCEPT !.calls = plug.calls + 1] \in Runs
      BY <3>1, RunCounts
    <3>3. plug' \in Runs
      <4> HIDE DEF PluginIInv, PluginTypeOK
      <4> QED BY <2>1, <3>1, <3>2, RunFields
    <3> QED BY <1>1, <3>3 DEF Runs
  <2>4. saved = <<>> /\ plug.todo = <<>> /\ plug.choices = FALSE
    BY <1>1 DEF Progress
  <2>5. \A n \in 1 .. Len(plug'.queued) : Needs(plug'.queued[n]) \in plug'.caps
    BY <1>2, <2>2
  <2>6. Progress' /\ PluginWithinGrants'
    BY <1>1, <2>2, <2>4 DEF Progress, PluginWithinGrants
  <2> QED BY <1>1, <2>2, <2>3, <2>4, <2>5, <2>6 DEF Needs
<1>3. CASE Needs(kind) \notin plug.caps
  <2>1. plug' = [plug EXCEPT !.calls = @ + 1, !.queued = @]
    BY <1>3 DEF Queue
  <2>2. /\ plug' \in Runs /\ plug'.at = "running"
        /\ plug'.caps = plug.caps /\ plug'.queued = plug.queued
        /\ plug'.todo = plug.todo /\ plug'.choices = plug.choices
    <3>1. plug \in Runs
      BY DEF Runs
    <3>2. plug' = [plug EXCEPT !.calls = plug.calls + 1]
      <4>1. [plug EXCEPT !.calls = plug.calls + 1].queued = plug.queued
        BY <3>1, RunCounts
      <4>2. [plug EXCEPT !.calls = plug.calls + 1] \in Runs
        BY <3>1, RunCounts
      <4>3. \A s \in Runs : [s EXCEPT !.queued = s.queued] = s
        BY DEF Runs
      <4>4. plug' = [[plug EXCEPT !.calls = plug.calls + 1] EXCEPT !.queued = plug.queued]
        BY <2>1
      <4> HIDE DEF PluginIInv, PluginTypeOK
      <4> QED BY <4>1, <4>2, <4>3, <4>4
    <3> HIDE DEF PluginIInv, PluginTypeOK
    <3> QED BY <1>1, <3>1, <3>2, RunCounts
  <2> QED BY <1>1, <2>2, PluginGoesOn DEF PluginWithinGrants
<1> QED BY <1>2, <1>3

(* A call to a server contacts checked addresses, under the capability for it. *)
LEMMA PluginCalls ==
    ASSUME PluginIInv, NEW request, NEW found \in SUBSET PluginHosts, HttpCall(request, found)
    PROVE  PluginIInv'
<1> USE DEF PluginIInv, PluginTypeOK
<1>1. /\ plug.at = "running" /\ UNCHANGED <<grants, saved>>
      /\ plug' = [plug EXCEPT !.calls = @ + 1]
  BY DEF HttpCall, Calls, GoesOn
<1>2. /\ plug' \in Runs /\ plug'.at = "running"
      /\ plug'.caps = plug.caps /\ plug'.queued = plug.queued
      /\ plug'.todo = plug.todo /\ plug'.choices = plug.choices
  <2>1. plug \in Runs
    BY DEF Runs
  <2> HIDE DEF PluginIInv, PluginTypeOK
  <2> QED BY <1>1, <2>1, RunCounts
<1>3. /\ pluginSaw' \in [contacted : SUBSET PluginHosts, secret : BOOLEAN]
      /\ pluginSaw'.contacted # {} => "network" \in grants
      /\ pluginSaw'.contacted \subseteq PublicHosts
  <2>1. CASE "network" \in plug.caps /\ Acceptable(request, found)
    <3>1. PICK a \in found : pluginSaw' = [pluginSaw EXCEPT !.contacted = @ \cup {a}]
      BY <2>1 DEF HttpCall
    <3> QED BY <2>1, <3>1 DEF Acceptable, PluginWithinGrants
  <2>2. CASE ~("network" \in plug.caps /\ Acceptable(request, found))
    BY <2>2 DEF HttpCall, PluginWithinGrants
  <2> QED BY <2>1, <2>2
<1> QED BY <1>1, <1>2, <1>3, PluginGoesOn

(* Reading a secret contacts nobody. *)
LEMMA PluginReads == ASSUME PluginIInv, ReadSecret PROVE PluginIInv'
<1> USE DEF PluginIInv, PluginTypeOK
<1>1. /\ plug.at = "running" /\ UNCHANGED <<grants, saved>>
      /\ plug' = [plug EXCEPT !.calls = @ + 1]
  BY DEF ReadSecret, Calls, GoesOn
<1>2. /\ plug' \in Runs /\ plug'.at = "running"
      /\ plug'.caps = plug.caps /\ plug'.queued = plug.queued
      /\ plug'.todo = plug.todo /\ plug'.choices = plug.choices
  <2>1. plug \in Runs
    BY DEF Runs
  <2> HIDE DEF PluginIInv, PluginTypeOK
  <2> QED BY <1>1, <2>1, RunCounts
<1>3. /\ pluginSaw' \in [contacted : SUBSET PluginHosts, secret : BOOLEAN]
      /\ pluginSaw'.contacted = pluginSaw.contacted
  BY DEF ReadSecret
<1> QED BY <1>1, <1>2, <1>3, PluginGoesOn DEF PluginWithinGrants

(* A run that fails ends, and saves nothing of its queue. *)
LEMMA PluginGivesUp == ASSUME PluginIInv, PluginFails PROVE PluginIInv'
<1> USE DEF PluginIInv, PluginTypeOK
<1>1. plug.at = "running" /\ plug' \in Runs /\ plug'.at = "over"
  BY DEF PluginFails, Runs
<1>2. /\ plug'.caps = plug.caps /\ plug'.queued = plug.queued
      /\ plug'.todo = plug.todo /\ plug'.choices = plug.choices
  BY DEF PluginFails
<1> QED BY <1>1, <1>2, PluginGoesOn DEF PluginFails, PluginWithinGrants

(* A result leaves the whole queue to be saved, and offers choices under   *)
(* the capability to create notes.                                         *)
LEMMA PluginGivesResult ==
    ASSUME PluginIInv, NEW returned, NEW choices \in BOOLEAN, PluginReturns(returned, choices)
    PROVE  PluginIInv'
<1> USE DEF PluginIInv, PluginTypeOK
<1>1. plug.at = "running" /\ UNCHANGED <<grants, pluginSaw, saved>>
  BY DEF PluginReturns
<1>2. CASE choices /\ "create-note" \notin plug.caps
  <2>1. /\ plug' \in Runs /\ plug'.at = "over"
        /\ plug'.caps = plug.caps /\ plug'.queued = plug.queued
        /\ plug'.todo = plug.todo /\ plug'.choices = plug.choices
    BY <1>2 DEF PluginReturns, Runs
  <2> QED BY <1>1, <2>1, PluginGoesOn DEF PluginWithinGrants
<1>3. CASE ~(choices /\ "create-note" \notin plug.caps)
  <2>1. plug' = [plug EXCEPT !.at = "applying", !.todo = plug.queued, !.choices = choices]
    BY <1>3 DEF PluginReturns
  <2>2. /\ plug'.at = "applying" /\ plug'.caps = plug.caps /\ plug'.queued = plug.queued
        /\ plug'.todo = plug.queued /\ plug'.choices = choices
    BY <2>1
  <2>3. PluginTypeOK'
    BY <1>1, <2>1
  <2>4. saved = <<>> /\ saved' = <<>>
    BY <1>1 DEF Progress
  <2>5. Progress' /\ PluginWithinGrants'
    BY <1>1, <2>2, <2>4 DEF Progress, PluginWithinGrants
  <2> QED BY <1>1, <1>3, <2>2, <2>3, <2>5
<1> QED BY <1>2, <1>3

(* What is applied next is the next of the queue. *)
LEMMA PluginApplies == ASSUME PluginIInv, ApplyNext PROVE PluginIInv'
<1> USE DEF PluginIInv, PluginTypeOK
<1>1. /\ plug.at = "applying" /\ plug.todo # <<>> /\ UNCHANGED <<grants, pluginSaw>>
  BY DEF ApplyNext
<1>2. CASE saved' = Append(saved, Head(plug.todo)) /\ plug' = [plug EXCEPT !.todo = Tail(@)]
  <2>1. /\ plug'.at = "applying" /\ plug'.caps = plug.caps /\ plug'.queued = plug.queued
        /\ plug'.todo = Tail(plug.todo) /\ plug'.choices = plug.choices
    BY <1>1, <1>2
  <2>2. /\ Len(saved) + Len(plug.todo) = Len(plug.queued)
        /\ \A n \in 1 .. Len(plug.todo) : plug.todo[n] = plug.queued[Len(saved) + n]
    BY <1>1 DEF Progress
  <2>3. /\ Len(plug.todo) \in Nat \ {0} /\ Head(plug.todo) = plug.todo[1]
        /\ Head(plug.todo) \in Operations /\ Tail(plug.todo) \in Seq(Operations)
    BY <1>1
  <2>4. PluginTypeOK'
    <3>1. plug' \in Runs
      BY <1>2, <2>3 DEF Runs
    <3>2. saved' \in Seq(Operations)
      BY <1>2, <2>3
    <3> QED BY <1>1, <3>1, <3>2 DEF Runs
  <2>5. /\ Len(saved') = Len(saved) + 1 /\ Len(plug'.todo) = Len(plug.todo) - 1
        /\ \A n \in 1 .. Len(plug'.todo) : plug'.todo[n] = plug.todo[n + 1]
    BY <1>1, <1>2, <2>1, <2>3
  <2>6. /\ \A n \in 1 .. Len(saved) : saved'[n] = saved[n]
        /\ saved'[Len(saved) + 1] = plug.queued[Len(saved) + 1]
    <3>1. saved \in Seq(Operations) /\ saved' = Append(saved, Head(plug.todo))
      BY <1>2
    <3>2. Head(plug.todo) = plug.queued[Len(saved) + 1]
      BY <2>2, <2>3
    <3> HIDE DEF PluginIInv, PluginTypeOK
    <3> QED BY <2>3, <3>1, <3>2
  <2>7. Progress'
    <3>1. Len(saved') + Len(plug'.todo) = Len(plug'.queued)
      BY <2>1, <2>2, <2>3, <2>5
    <3>2. ASSUME NEW n \in 1 .. Len(plug'.todo)
          PROVE  plug'.todo[n] = plug'.queued[Len(saved') + n]
      <4>1. n + 1 \in 1 .. Len(plug.todo) /\ Len(saved') + n = Len(saved) + (n + 1)
        BY <2>3, <2>5
      <4> QED BY <2>1, <2>2, <2>5, <4>1
    <3> QED BY <2>1, <3>1, <3>2 DEF Progress
  <2>8. ASSUME NEW n \in 1 .. Len(saved')
        PROVE  /\ Needs(saved'[n]) \in grants' /\ n <= Len(plug'.queued)
               /\ saved'[n] = plug'.queued[n]
    <3>1. n <= Len(plug.queued) /\ Len(saved) < Len(plug.queued)
      BY <2>2, <2>3, <2>5
    <3>2. saved'[n] = plug.queued[n]
      BY <2>5, <2>6, <3>1 DEF PluginWithinGrants
    <3>3. Needs(plug.queued[n]) \in plug.caps
      BY <3>1
    <3> QED BY <1>1, <2>1, <3>1, <3>2, <3>3
  <2>9. PluginWithinGrants'
    <3>1. Len(saved') <= Len(plug'.queued)
      BY <2>1, <2>2, <2>3, <2>5
    <3>2. /\ pluginSaw'.contacted # {} => "network" \in grants'
          /\ pluginSaw'.contacted \subseteq PublicHosts
      BY <1>1 DEF PluginWithinGrants
    <3>3. Len(saved') <= Len(plug'.queued) + (IF plug'.choices THEN 1 ELSE 0)
      BY <2>1, <2>4, <3>1
    <3> QED BY <2>8, <3>2, <3>3 DEF PluginWithinGrants
  <2> QED BY <1>1, <2>1, <2>4, <2>7, <2>9
<1>3. CASE plug' = [plug EXCEPT !.at = "ended"] /\ UNCHANGED saved
  <2>1. /\ plug'.at = "ended" /\ plug'.caps = plug.caps /\ plug'.queued = plug.queued
        /\ plug'.choices = plug.choices
    BY <1>3
  <2>2. PluginTypeOK'
    BY <1>1, <1>3
  <2> QED BY <1>1, <1>3, <2>1, <2>2 DEF Progress, PluginWithinGrants
<1> QED BY <1>2, <1>3 DEF ApplyNext

(* Choices are offered once the queue is saved. *)
LEMMA PluginOffers == ASSUME PluginIInv, ShowChoices PROVE PluginIInv'
<1> USE DEF PluginIInv, PluginTypeOK
<1>1. /\ plug.at = "applying" /\ plug.todo = <<>> /\ UNCHANGED <<grants, pluginSaw, saved>>
      /\ plug' = [plug EXCEPT !.at = IF plug.choices THEN "offering" ELSE "over"]
  BY DEF ShowChoices
<1>2. /\ plug'.at = (IF plug.choices THEN "offering" ELSE "over")
      /\ plug'.caps = plug.caps /\ plug'.queued = plug.queued /\ plug'.choices = plug.choices
  BY <1>1
<1>3. PluginTypeOK'
  BY <1>1
<1>4. Len(saved') = Len(plug'.queued)
  BY <1>1, <1>2 DEF Progress
<1>5. Progress' /\ PluginWithinGrants'
  BY <1>1, <1>2, <1>4 DEF Progress, PluginWithinGrants
<1> QED BY <1>1, <1>2, <1>3, <1>5

(* A choice creates one note more. *)
LEMMA PluginChooses == ASSUME PluginIInv, Choose PROVE PluginIInv'
<1> USE DEF PluginIInv, PluginTypeOK
<1>1. /\ plug.at = "offering" /\ UNCHANGED <<grants, pluginSaw>>
      /\ Len(saved) = Len(plug.queued) /\ plug.choices
  BY DEF Choose, Progress
<1>2. PICK end \in {"over", "ended"} : plug' = [plug EXCEPT !.at = end]
  BY DEF Choose
<1>3. /\ plug'.at \in {"over", "ended"} /\ plug'.caps = plug.caps
      /\ plug'.queued = plug.queued /\ plug'.choices = plug.choices
  BY <1>2
<1>4. CASE saved' = Append(saved, "create")
  <2>1. PluginTypeOK'
    BY <1>1, <1>2, <1>4, SMTT(30) DEF Operations
  <2>2. ASSUME NEW n \in 1 .. Len(saved')
        PROVE  /\ Needs(saved'[n]) \in grants'
               /\ saved'[n] = IF n <= Len(plug'.queued) THEN plug'.queued[n] ELSE "create"
    <3>1. CASE n \in 1 .. Len(saved)
      BY <1>1, <1>3, <1>4, <3>1 DEF PluginWithinGrants
    <3>2. CASE n = Len(saved) + 1
      <4>1. saved'[n] = "create" /\ ~(n <= Len(plug'.queued))
        BY <1>1, <1>3, <1>4, <3>2
      <4> QED BY <1>1, <4>1 DEF Needs
    <3> QED BY <1>4, <3>1, <3>2
  <2>3. Len(saved') <= Len(plug'.queued) + (IF plug'.choices THEN 1 ELSE 0)
    BY <1>1, <1>3, <1>4
  <2>4. Progress' /\ PluginWithinGrants'
    BY <1>1, <1>3, <2>2, <2>3 DEF Progress, PluginWithinGrants
  <2> QED BY <1>1, <1>3, <2>1, <2>4
<1>5. CASE UNCHANGED saved
  <2>1. PluginTypeOK'
    BY <1>1, <1>2, <1>5
  <2> QED BY <1>1, <1>3, <1>5, <2>1 DEF Progress, PluginWithinGrants
<1> QED BY <1>4, <1>5 DEF Choose

(* The invariant is inductive. *)
LEMMA PluginStep == PluginIInv /\ [PluginNext]_pluginVars => PluginIInv'
<1> SUFFICES ASSUME PluginIInv, [PluginNext]_pluginVars PROVE PluginIInv'
  OBVIOUS
<1>1. CASE UNCHANGED pluginVars
  BY <1>1 DEF pluginVars, PluginIInv, PluginTypeOK, PluginWithinGrants, Progress
<1>2. CASE \E declared \in SUBSET Capabilities : PluginStarts(declared)
  BY <1>2, PluginBegins
<1>3. CASE ReadSecret
  BY <1>3, PluginReads
<1>4. CASE \E kind \in Operations : Queue(kind)
  BY <1>4, PluginQueues
<1>5. CASE \E request \in [https : BOOLEAN, credentials : BOOLEAN, plain : BOOLEAN],
              found \in SUBSET PluginHosts : HttpCall(request, found)
  BY <1>5, PluginCalls
<1>6. CASE \E returned \in {<<>>} \cup {<<k>> : k \in Operations}, choices \in BOOLEAN :
              PluginReturns(returned, choices)
  BY <1>6, PluginGivesResult
<1>7. CASE PluginFails
  BY <1>7, PluginGivesUp
<1>8. CASE ApplyNext
  BY <1>8, PluginApplies
<1>9. CASE ShowChoices
  BY <1>9, PluginOffers
<1>10. CASE Choose
  BY <1>10, PluginChooses
<1> QED
  BY <1>1, <1>2, <1>3, <1>4, <1>5, <1>6, <1>7, <1>8, <1>9, <1>10 DEF PluginNext

(* A plugin changes only what it asked the host for under a granted        *)
(* capability, in that order, and reaches public addresses only.           *)
THEOREM PluginStaysWithinGrants == PluginSpec => []PluginWithinGrants
<1>1. PluginIInv => PluginWithinGrants
  BY DEF PluginIInv
<1> QED BY PluginInitIInv, PluginStep, <1>1, PTL DEF PluginSpec

-----------------------------------------------------------------------------
(***************************************************************************)
(* WorkspaceConfig: a client without plugins shows its newest              *)
(* configuration, and what a load writes settles while clocks agree. No    *)
(* two revisions have the same stamp and author, so a set of them has one  *)
(* winner, and a revision later than all others is it.                     *)
(***************************************************************************)

Sites == Editors \cup {Server}
ToolStates == [at : {"closed", "starting", "open", "stale"}, plugins : SUBSET Plugins,
               shown : SUBSET ConfigContents]

-----------------------------------------------------------------------------
(* The winner of a set of revisions *)

Ranked(S) == \A p, q \in S : p.stamp = q.stamp /\ p.by = q.by => p = q
Wins(w, S) == w \in S /\ \A q \in S \ {w} : Later(w, q)

LEMMA EditorsOrdered == Editors \subseteq Nat /\ Server \notin Editors
BY ConfigAssumption DEF Server

LEMMA LaterOrders ==
    ASSUME NEW p \in ConfigRevisions, NEW q \in ConfigRevisions, NEW r \in ConfigRevisions
    PROVE  /\ ~(Later(p, q) /\ Later(q, p))
           /\ Later(p, q) /\ Later(q, r) => Later(p, r)
           /\ (p.stamp = q.stamp /\ p.by = q.by) \/ Later(p, q) \/ Later(q, p)
<1>1. \A x \in ConfigRevisions : x.stamp \in Int /\ x.by \in Nat
  BY EditorsOrdered DEF ConfigRevisions
<1> QED BY <1>1 DEF Later

LEMMA WinnerIs ==
    ASSUME NEW S, S \subseteq ConfigRevisions, NEW w, Wins(w, S)
    PROVE  Winner(S) = w
<1>1. \A v : Wins(v, S) => v = w
  BY LaterOrders DEF Wins
<1>2. Winner(S) = CHOOSE v \in S : \A q \in S \ {v} : Later(v, q)
  BY DEF Winner
<1> QED BY <1>1, <1>2 DEF Wins

(* Of two sets put together, the winner of one is the winner. *)
LEMMA WinnerOfUnion ==
    ASSUME NEW S, NEW T, S \subseteq ConfigRevisions, T \subseteq ConfigRevisions,
           Ranked(S \cup T), NEW v, Wins(v, S), NEW w, Wins(w, T)
    PROVE  Wins(v, S \cup T) \/ Wins(w, S \cup T)
<1>0. /\ v \in S /\ \A q \in S \ {v} : Later(v, q)
      /\ w \in T /\ \A q \in T \ {w} : Later(w, q)
  BY DEF Wins
<1>1. v = w \/ Later(v, w) \/ Later(w, v)
  BY <1>0, LaterOrders DEF Ranked
<1>2. CASE v = w
  BY <1>0, <1>2 DEF Wins
<1>3. CASE Later(v, w)
  <2>1. \A q \in T \ {w} : Later(v, q)
    BY <1>0, <1>3, LaterOrders
  <2> QED BY <1>0, <1>3, <2>1 DEF Wins
<1>4. CASE Later(w, v)
  <2>1. \A q \in S \ {v} : Later(w, q)
    BY <1>0, <1>4, LaterOrders
  <2> QED BY <1>0, <1>4, <2>1 DEF Wins
<1> QED BY <1>1, <1>2, <1>3, <1>4

-----------------------------------------------------------------------------
(* What holds of the revisions of all clients and of what is shown *)

ConfigShapes ==
    /\ held \in [Sites -> SUBSET ConfigRevisions]
    /\ installed \in [Editors -> SUBSET Plugins]
    /\ tool \in [Editors -> ToolStates]
    /\ unsettled \in [Editors -> SUBSET ConfigRevisions]
    /\ wall \in Int

(* A revision is older than what its author would write now. *)
Older == \A k \in Sites : \A p \in held[k] : p.stamp < wall - Lag[p.by]

(* Revisions are told apart by stamp and author, a client's most recent    *)
(* one is in what it holds, and each can be loaded without plugins.        *)
Distinct == \A k, l \in Sites : \A p \in held[k], q \in held[l] :
                p.stamp = q.stamp /\ p.by = q.by => p = q
Headed == \A k \in Sites : held[k] # {} => \E w \in held[k] : Wins(w, held[k])
Loadable == \A k \in Sites : \A p \in held[k] : Valid(p.content)

HeldIInv == ConfigShapes /\ Older /\ Distinct /\ Headed /\ Loadable

LEMMA WinnerThere ==
    ASSUME HeldIInv, NEW k \in Sites, held[k] # {}
    PROVE  Wins(Winner(held[k]), held[k]) /\ Winner(held[k]) \in held[k]
<1>1. PICK w \in held[k] : Wins(w, held[k])
  BY DEF HeldIInv, Headed
<1>2. held[k] \subseteq ConfigRevisions
  BY DEF HeldIInv, ConfigShapes
<1> QED BY <1>1, <1>2, WinnerIs

(* All clients' clocks are behind by the same. *)
ClocksAgree == \A c, d \in Editors : Lag[c] = Lag[d]

(* A revision that is written now is new, and the winner afterwards is it  *)
(* or the winner before; it is it when the clocks agree.                   *)
LEMMA ConfigWritten ==
    ASSUME HeldIInv, NEW c \in Editors, NEW content \in ConfigContents, Valid(content),
           NEW auto \in BOOLEAN, PutConfig(c, content, auto)
    PROVE  /\ held' \in [Sites -> SUBSET ConfigRevisions] /\ wall' \in Int
           /\ Older' /\ Distinct' /\ Headed' /\ Loadable'
           /\ \A k \in Sites \ {c} : held'[k] = held[k]
           /\ held'[c] # {}
           /\ \/ Winner(held'[c]).content = content
              \/ held[c] # {} /\ Winner(held'[c]) = Winner(held[c])
           /\ ClocksAgree => Winner(held'[c]).content = content
<1>0. /\ held \in [Sites -> SUBSET ConfigRevisions] /\ wall \in Int /\ Lag \in [Editors -> Nat]
      /\ c \in Sites
  BY ConfigAssumption DEF HeldIInv, ConfigShapes, Sites
<1>1. PICK r : r = Revision(c, content, auto)
  OBVIOUS
<1>2. r \in ConfigRevisions /\ r.stamp = wall - Lag[c] /\ r.by = c /\ r.content = content
  BY <1>0, <1>1 DEF Revision, Stamp, ConfigRevisions
<1>3. held' = [held EXCEPT ![c] = @ \cup {r}] /\ wall' = wall + 1
  BY <1>1 DEF PutConfig
<1>4. /\ held'[c] = held[c] \cup {r} /\ \A k \in Sites \ {c} : held'[k] = held[k]
      /\ held' \in [Sites -> SUBSET ConfigRevisions] /\ wall' \in Int
  BY <1>0, <1>2, <1>3
<1>5. \A k \in Sites : \A p \in held[k] :
         /\ p \in ConfigRevisions /\ p.stamp \in Int /\ p.by \in Editors /\ Lag[p.by] \in Nat
         /\ p.stamp < wall - Lag[p.by] /\ (p.by = c => p.stamp < r.stamp)
         /\ (ClocksAgree => p.stamp < r.stamp)
  BY <1>0, <1>2 DEF HeldIInv, Older, ClocksAgree, ConfigRevisions
<1>6. Older'
  BY <1>0, <1>2, <1>3, <1>4, <1>5 DEF Older
<1>7. \A k \in Sites : \A p \in held'[k] : p = r \/ p \in held[k]
  BY <1>4
<1>8. \A k \in Sites : \A p \in held[k] : ~(p.stamp = r.stamp /\ p.by = r.by)
  BY <1>2, <1>5
<1>9. Distinct'
  BY <1>7, <1>8 DEF HeldIInv, Distinct
<1>10. Loadable'
  BY <1>2, <1>7 DEF HeldIInv, Loadable
<1>11. Wins(r, {r}) /\ {r} \subseteq ConfigRevisions
  BY <1>2 DEF Wins
<1>12. Ranked(held[c] \cup {r})
  BY <1>4, <1>9, <1>0 DEF Distinct, Ranked
<1>13. /\ \E w \in held'[c] : Wins(w, held'[c])
       /\ \/ Winner(held'[c]) = r
          \/ held[c] # {} /\ Winner(held'[c]) = Winner(held[c])
  <2>0. held'[c] \subseteq ConfigRevisions
    BY <1>0, <1>4
  <2>1. CASE held[c] = {}
    BY <1>4, <1>11, <2>0, <2>1, WinnerIs
  <2>2. CASE held[c] # {}
    <3>1. Wins(Winner(held[c]), held[c])
      BY <1>0, <2>2, WinnerThere
    <3>2. Wins(Winner(held[c]), held'[c]) \/ Wins(r, held'[c])
      BY <1>0, <1>4, <1>11, <1>12, <3>1, WinnerOfUnion
    <3> QED BY <1>4, <2>0, <2>2, <3>1, <3>2, WinnerIs DEF Wins
  <2> QED BY <2>1, <2>2
<1>14. Headed'
  BY <1>4, <1>13 DEF HeldIInv, Headed
<1>15. ASSUME ClocksAgree PROVE Winner(held'[c]) = r
  <2>1. Wins(r, held'[c])
    BY <1>2, <1>4, <1>5, <1>15, <1>0 DEF Wins, Later
  <2> QED BY <1>0, <1>4, <2>1, WinnerIs
<1> QED BY <1>2, <1>4, <1>6, <1>9, <1>10, <1>13, <1>14, <1>15
(* What a client receives, or the server: no revision is new. *)
LEMMA ConfigMerged ==
    ASSUME HeldIInv, NEW k \in Sites, NEW l \in Sites,
           held' = [held EXCEPT ![k] = @ \cup held[l]], wall' = wall
    PROVE  held' \in [Sites -> SUBSET ConfigRevisions] /\ Older' /\ Distinct' /\ Headed' /\ Loadable'
<1>0. held \in [Sites -> SUBSET ConfigRevisions]
  BY DEF HeldIInv, ConfigShapes
<1>1. /\ held'[k] = held[k] \cup held[l] /\ \A m \in Sites \ {k} : held'[m] = held[m]
      /\ held' \in [Sites -> SUBSET ConfigRevisions]
  BY <1>0
<1>2. \A m \in Sites : \A p \in held'[m] : p \in held[m] \/ p \in held[l]
  BY <1>1
<1>3. Older' /\ Loadable'
  BY <1>2 DEF HeldIInv, Older, Loadable
<1>4. Distinct'
  BY <1>2 DEF HeldIInv, Distinct
<1>5. ASSUME held'[k] # {} PROVE \E w \in held'[k] : Wins(w, held'[k])
  <2>1. CASE held[k] = {} \/ held[l] = {}
    <3>1. held'[k] = held[k] \/ held'[k] = held[l]
      BY <1>1, <2>1
    <3> QED BY <1>5, <3>1 DEF HeldIInv, Headed
  <2>2. CASE held[k] # {} /\ held[l] # {}
    <3>1. Wins(Winner(held[k]), held[k]) /\ Wins(Winner(held[l]), held[l])
      BY <2>2, WinnerThere
    <3>2. Ranked(held[k] \cup held[l])
      BY DEF HeldIInv, Distinct, Ranked
    <3>3. Wins(Winner(held[k]), held'[k]) \/ Wins(Winner(held[l]), held'[k])
      BY <1>0, <1>1, <3>1, <3>2, WinnerOfUnion
    <3> QED BY <3>3 DEF Wins
  <2> QED BY <2>1, <2>2
<1>6. Headed'
  BY <1>1, <1>5 DEF HeldIInv, Headed
<1> QED BY <1>1, <1>3, <1>4, <1>6

(* What is shown is a configuration, and what is written of it is a valid  *)
(* one that has views.                                                     *)
LEMMA ShownContents ==
    ASSUME HeldIInv, NEW k \in Sites, NEW plugins \in SUBSET Plugins
    PROVE  /\ Behavior(held[k], plugins) \in ConfigContents
           /\ Persisted(Behavior(held[k], plugins), plugins) \in ConfigContents
           /\ Valid(Persisted(Behavior(held[k], plugins), plugins))
           /\ Persisted(Behavior(held[k], plugins), plugins).views
           /\ Persisted(Behavior(held[k], {}), {}).actions = Behavior(held[k], {}).actions
<1>1. PICK actions : Behavior(held[k], plugins) = [views |-> TRUE, twice |-> FALSE,
                                                   actions |-> actions]
                     /\ actions = plugins \cup IF held[k] = {} THEN {CaptureAction}
                                               ELSE Winner(held[k]).content.actions
  BY DEF Behavior
<1>2. actions \in SUBSET (Plugins \cup {CaptureAction})
  <2>1. CASE held[k] = {}
    BY <1>1, <2>1
  <2>2. CASE held[k] # {}
    <3>1. Winner(held[k]) \in ConfigRevisions
      BY <2>2, WinnerThere DEF HeldIInv, ConfigShapes
    <3>2. Winner(held[k]).content.actions \in SUBSET (Plugins \cup {CaptureAction})
      BY <3>1 DEF ConfigRevisions, ConfigContents
    <3> QED BY <1>1, <2>2, <3>2
  <2> QED BY <2>1, <2>2
<1>3. Persisted(Behavior(held[k], {}), {}).actions = Behavior(held[k], {}).actions
  BY DEF Persisted, Behavior
<1>4. Behavior(held[k], plugins) \in ConfigContents
  BY <1>1, <1>2 DEF ConfigContents
<1>5. PICK b \in ConfigContents : b = Behavior(held[k], plugins) /\ b.views /\ ~b.twice
  BY <1>1, <1>4
<1>6. /\ Persisted(b, plugins) \in ConfigContents
      /\ Persisted(b, plugins).views /\ ~Persisted(b, plugins).twice
  BY <1>5 DEF Persisted, ConfigContents
<1> QED BY <1>3, <1>5, <1>6 DEF Valid

(* A load changes the revisions, or not.                                   *)
LEMMA BehaveEffect ==
    ASSUME HeldIInv, NEW c \in Editors, Behave(c)
    PROVE  /\ held' \in [Sites -> SUBSET ConfigRevisions] /\ wall' \in Int
           /\ Older' /\ Distinct' /\ Headed' /\ Loadable'
           /\ \A d \in Editors \ {c} : held'[d] = held[d] /\ tool'[d] = tool[d]
                                       /\ unsettled'[d] = unsettled[d]
           /\ tool' \in [Editors -> ToolStates] /\ tool'[c].plugins = tool[c].plugins
           /\ tool'[c].shown = {Behavior(held[c], tool[c].plugins)}
           /\ \/ /\ held' = held /\ unsettled'[c] = {} /\ rewrites' = rewrites
              \/ /\ MustPersist(held[c])
                 /\ PutConfig(c, Persisted(Behavior(held[c], tool[c].plugins),
                                           tool[c].plugins), TRUE)
                 /\ unsettled'[c] = held'[c]
                 /\ rewrites' = (rewrites \/ (held[c] # {} /\ unsettled[c] = held[c]))
<1>0. /\ tool \in [Editors -> ToolStates] /\ unsettled \in [Editors -> SUBSET ConfigRevisions]
      /\ held \in [Sites -> SUBSET ConfigRevisions] /\ wall \in Int /\ c \in Sites
  BY DEF HeldIInv, ConfigShapes, Sites
<1>1. tool[c] \in ToolStates /\ tool[c].plugins \in SUBSET Plugins
  BY <1>0 DEF ToolStates
<1> DEFINE plugins == tool[c].plugins
           content == Behavior(held[c], plugins)
<1>2. /\ content \in ConfigContents /\ Persisted(content, plugins) \in ConfigContents
      /\ Valid(Persisted(content, plugins))
  BY <1>0, <1>1, ShownContents
<1>3. tool' = [tool EXCEPT ![c].at = "open", ![c].shown = {content}]
  BY DEF Behave
<1> HIDE DEF content
<1>4. /\ tool' \in [Editors -> ToolStates] /\ tool'[c].plugins = tool[c].plugins
      /\ tool'[c].shown = {content} /\ \A d \in Editors \ {c} : tool'[d] = tool[d]
  BY <1>0, <1>1, <1>2, <1>3 DEF ToolStates
<1>5. CASE ~MustPersist(held[c])
  <2>1. UNCHANGED <<held, wall, rewrites>> /\ unsettled' = [unsettled EXCEPT ![c] = {}]
    BY <1>5 DEF Behave
  <2> QED BY <1>0, <1>4, <2>1 DEF content, HeldIInv, Older, Distinct, Headed, Loadable
<1>6. CASE MustPersist(held[c])
  <2>1. /\ PutConfig(c, Persisted(content, plugins), TRUE)
        /\ unsettled' = [unsettled EXCEPT ![c] = held'[c]]
        /\ rewrites' = (rewrites \/ (held[c] # {} /\ unsettled[c] = held[c]))
    BY <1>6 DEF Behave, content
  <2>2. /\ held' \in [Sites -> SUBSET ConfigRevisions] /\ wall' \in Int
        /\ Older' /\ Distinct' /\ Headed' /\ Loadable'
        /\ \A k \in Sites \ {c} : held'[k] = held[k]
    BY <1>2, <2>1, ConfigWritten
  <2>3. /\ unsettled'[c] = held'[c]
        /\ \A d \in Editors \ {c} : unsettled'[d] = unsettled[d] /\ held'[d] = held[d]
    BY <1>0, <2>1, <2>2 DEF Sites
  <2> QED BY <1>4, <1>6, <2>1, <2>2, <2>3 DEF content
<1> QED BY <1>5, <1>6

-----------------------------------------------------------------------------
(* Clients without plugins follow *)

Follows(c) ==
    tool[c].at = "open" /\ tool[c].plugins = {} => tool[c].shown = {Behavior(held[c], {})}

ConfigIInv ==
    /\ HeldIInv
    /\ \A c \in Editors : Follows(c)
    /\ \A c \in Editors : unsettled[c] \subseteq held[c]

(* What was added in order to load is not lost by writing it. *)
LEMMA BehaveFollows ==
    ASSUME HeldIInv, NEW c \in Editors, Behave(c)
    PROVE  Follows(c)'
<1>0. c \in Sites /\ tool[c].plugins \in SUBSET Plugins
  BY DEF HeldIInv, ConfigShapes, Sites, ToolStates
<1>1. CASE tool[c].plugins # {}
  <2>1. tool'[c].plugins # {}
    BY <1>1, BehaveEffect
  <2> QED BY <2>1 DEF Follows
<1>2. CASE tool[c].plugins = {}
  <2>1. /\ tool'[c].shown = {Behavior(held[c], {})}
        /\ \/ held' = held
           \/ PutConfig(c, Persisted(Behavior(held[c], {}), {}), TRUE)
    <3>1. \A S : S = {} => /\ Behavior(held[c], S) = Behavior(held[c], {})
                           /\ Persisted(Behavior(held[c], S), S) = Persisted(Behavior(held[c], {}), {})
      OBVIOUS
    <3> QED BY <1>2, <3>1, BehaveEffect
  <2>2. CASE held' = held
    BY <2>1, <2>2 DEF Follows
  <2>3. CASE PutConfig(c, Persisted(Behavior(held[c], {}), {}), TRUE)
    <3>1. /\ Persisted(Behavior(held[c], {}), {}) \in ConfigContents
          /\ Valid(Persisted(Behavior(held[c], {}), {}))
          /\ Persisted(Behavior(held[c], {}), {}).actions = Behavior(held[c], {}).actions
      BY <1>0, ShownContents
    <3>2. /\ held'[c] # {}
          /\ \/ Winner(held'[c]).content = Persisted(Behavior(held[c], {}), {})
             \/ held[c] # {} /\ Winner(held'[c]) = Winner(held[c])
      BY <2>3, <3>1, ConfigWritten
    <3>3. Winner(held'[c]).content.actions = Behavior(held[c], {}).actions
      BY <3>1, <3>2 DEF Behavior
    <3>4. Behavior(held'[c], {}) = Behavior(held[c], {})
      BY <3>2, <3>3 DEF Behavior
    <3> QED BY <2>1, <3>4 DEF Follows
  <2> QED BY <2>1, <2>2, <2>3
<1> QED BY <1>1, <1>2

(* The steps of the application and of replication. *)
LEMMA BehaveStep ==
    ASSUME ConfigIInv, NEW c \in Editors, Behave(c), UNCHANGED installed
    PROVE  ConfigIInv'
<1>1. Follows(c)'
  BY BehaveFollows DEF ConfigIInv
<1>2. /\ held' \in [Sites -> SUBSET ConfigRevisions] /\ wall' \in Int
      /\ Older' /\ Distinct' /\ Headed' /\ Loadable'
      /\ \A d \in Editors \ {c} : held'[d] = held[d] /\ tool'[d] = tool[d]
                                  /\ unsettled'[d] = unsettled[d]
      /\ tool' \in [Editors -> ToolStates]
      /\ unsettled'[c] = {} \/ unsettled'[c] = held'[c]
  BY BehaveEffect DEF ConfigIInv
<1>3. \A d \in Editors : Follows(d)' /\ unsettled'[d] \subseteq held'[d]
  BY <1>1, <1>2 DEF ConfigIInv, Follows
<1>4. unsettled' \in [Editors -> SUBSET ConfigRevisions]
  <2>1. \E set : unsettled' = [unsettled EXCEPT ![c] = set]
    BY DEF Behave
  <2>2. unsettled'[c] \in SUBSET ConfigRevisions
    BY <1>2 DEF Sites
  <2> QED BY <2>1, <2>2 DEF ConfigIInv, HeldIInv, ConfigShapes
<1> QED BY <1>2, <1>3, <1>4 DEF ConfigIInv, HeldIInv, ConfigShapes

(* A step that leaves the revisions and what is open. *)
LEMMA ToolMoves ==
    ASSUME ConfigIInv, UNCHANGED <<held, wall>>, installed' \in [Editors -> SUBSET Plugins],
           tool' \in [Editors -> ToolStates], UNCHANGED unsettled,
           \A c \in Editors : tool'[c].at = "open" => tool'[c] = tool[c] \/ tool'[c].plugins # {}
    PROVE  ConfigIInv'
<1>1. \A c \in Editors : Follows(c)'
  BY DEF ConfigIInv, Follows
<1> QED BY <1>1 DEF ConfigIInv, HeldIInv, ConfigShapes, Older, Distinct, Headed, Loadable

LEMMA LoadFails ==
    ASSUME ConfigIInv, NEW c \in Editors, ~Loads(held[c], tool[c].plugins)
    PROVE  tool[c].plugins # {}
<1>1. c \in Sites
  BY DEF Sites
<1>2. held[c] # {} => Valid(Winner(held[c]).content)
  BY <1>1, WinnerThere DEF ConfigIInv, HeldIInv, Loadable
<1> QED BY <1>2 DEF Loads
(* Replication is not part of a step of the application, and the other way *)
(* round: a client that receives is refreshed afterwards.                  *)
LEMMA MergeStep ==
    ASSUME ConfigIInv, NEW c \in Editors, SendConfigs(c) \/ ReceiveConfigs(c)
    PROVE  ConfigIInv'
<1>0. /\ c \in Sites /\ Server \in Sites /\ c # Server /\ Server \notin Editors
      /\ Editors \subseteq Sites
      /\ tool \in [Editors -> ToolStates] /\ held \in [Sites -> SUBSET ConfigRevisions]
  BY EditorsOrdered DEF Sites, ConfigIInv, HeldIInv, ConfigShapes
<1>1. UNCHANGED <<installed, wall, unsettled>>
  BY DEF SendConfigs, ReceiveConfigs
<1>2. CASE SendConfigs(c)
  <2>1. held' = [held EXCEPT ![Server] = @ \cup held[c]] /\ tool' = tool
    BY <1>2 DEF SendConfigs
  <2>2. held' \in [Sites -> SUBSET ConfigRevisions] /\ Older' /\ Distinct' /\ Headed' /\ Loadable'
    BY <1>0, <1>1, <2>1, ConfigMerged DEF ConfigIInv
  <2>3. \A d \in Editors : held'[d] = held[d]
    BY <1>0, <2>1
  <2>4. \A d \in Editors : Follows(d)' /\ unsettled'[d] \subseteq held'[d]
    BY <1>1, <2>1, <2>3 DEF ConfigIInv, Follows
  <2> QED BY <1>1, <2>1, <2>2, <2>4 DEF ConfigIInv, HeldIInv, ConfigShapes
<1>3. CASE ReceiveConfigs(c)
  <2>1. /\ held' = [held EXCEPT ![c] = @ \cup held[Server]]
        /\ tool' = [tool EXCEPT ![c].at = IF @ = "open" THEN "stale" ELSE @]
    BY <1>3 DEF ReceiveConfigs
  <2>2. held' \in [Sites -> SUBSET ConfigRevisions] /\ Older' /\ Distinct' /\ Headed' /\ Loadable'
    BY <1>0, <1>1, <2>1, ConfigMerged DEF ConfigIInv
  <2>3. /\ \A d \in Editors \ {c} : held'[d] = held[d] /\ tool'[d] = tool[d]
        /\ held[c] \subseteq held'[c]
    BY <1>0, <2>1
  <2>4. tool' \in [Editors -> ToolStates] /\ tool'[c].at # "open"
    <3>1. tool[c] \in ToolStates
      BY <1>0
    <3>2. PICK at \in {"closed", "starting", "stale"} : tool' = [tool EXCEPT ![c].at = at]
      BY <2>1, <3>1 DEF ToolStates
    <3> QED BY <1>0, <3>1, <3>2 DEF ToolStates
  <2>5. \A d \in Editors : Follows(d)' /\ unsettled'[d] \subseteq held'[d]
    BY <1>1, <2>3, <2>4 DEF ConfigIInv, Follows
  <2> QED BY <1>1, <2>2, <2>4, <2>5 DEF ConfigIInv, HeldIInv, ConfigShapes
<1> QED BY <1>2, <1>3

(* What a person saves is checked first, and closes the program or starts  *)
(* it anew.                                                                *)
LEMMA EditStep == ASSUME ConfigIInv, NEW c \in Editors, EditConfig(c) PROVE ConfigIInv'
<1>0. /\ tool \in [Editors -> ToolStates] /\ unsettled \in [Editors -> SUBSET ConfigRevisions]
      /\ tool[c] \in ToolStates /\ Closed \in ToolStates /\ Editors \subseteq Sites
  BY DEF ConfigIInv, HeldIInv, ConfigShapes, Closed, ToolStates, Sites
<1>1. PICK content \in Drafts : SaveConfig(c, content)
  BY DEF EditConfig
<1>2. /\ unsettled' = [unsettled EXCEPT ![c] = {}] /\ installed' = installed
      /\ content \in ConfigContents
  BY ConfigAssumption DEF EditConfig
<1>3. /\ tool' \in [Editors -> ToolStates] /\ tool'[c].at # "open"
      /\ \A d \in Editors \ {c} : tool'[d] = tool[d]
  <2>1. CASE tool' = [tool EXCEPT ![c].at = "starting"]
    BY <1>0, <2>1 DEF ToolStates
  <2>2. CASE tool' = [tool EXCEPT ![c] = Closed]
    BY <1>0, <2>2 DEF Closed
  <2> QED BY <1>1, <2>1, <2>2 DEF SaveConfig
<1>4. /\ held' \in [Sites -> SUBSET ConfigRevisions] /\ wall' \in Int
      /\ Older' /\ Distinct' /\ Headed' /\ Loadable'
      /\ \A k \in Sites \ {c} : held'[k] = held[k]
  <2>1. CASE Valid(content) /\ PutConfig(c, content, FALSE)
    BY <1>2, <2>1, ConfigWritten DEF ConfigIInv
  <2>2. CASE UNCHANGED <<held, wall>>
    BY <2>2 DEF ConfigIInv, HeldIInv, ConfigShapes, Older, Distinct, Headed, Loadable
  <2> QED BY <1>1, <2>1, <2>2 DEF SaveConfig
<1>5. \A d \in Editors : Follows(d)' /\ unsettled'[d] \subseteq held'[d]
  BY <1>0, <1>2, <1>3, <1>4 DEF ConfigIInv, Follows
<1> QED BY <1>0, <1>2, <1>3, <1>4, <1>5 DEF ConfigIInv, HeldIInv, ConfigShapes

LEMMA ConfigInitIInv == ConfigInit => ConfigIInv
<1> SUFFICES ASSUME ConfigInit PROVE ConfigIInv
  OBVIOUS
<1>1. Closed \in ToolStates /\ Closed.at # "open"
  BY DEF Closed, ToolStates
<1>2. \A k \in Sites : held[k] = {}
  BY DEF ConfigInit, Sites
<1>3. ConfigShapes
  BY <1>1 DEF ConfigInit, ConfigShapes, Sites
<1>4. Older /\ Distinct /\ Headed /\ Loadable
  BY <1>2 DEF Older, Distinct, Headed, Loadable
<1>5. \A c \in Editors : Follows(c) /\ unsettled[c] = {}
  BY <1>1 DEF ConfigInit, Follows
<1> QED BY <1>3, <1>4, <1>5 DEF ConfigIInv, HeldIInv

LEMMA ConfigStep == ConfigIInv /\ [ConfigNext]_configVars => ConfigIInv'
<1> SUFFICES ASSUME ConfigIInv, [ConfigNext]_configVars PROVE ConfigIInv'
  OBVIOUS
<1>0. /\ tool \in [Editors -> ToolStates] /\ installed \in [Editors -> SUBSET Plugins]
      /\ Closed \in ToolStates
  BY DEF ConfigIInv, HeldIInv, ConfigShapes, Closed, ToolStates
<1>1. CASE UNCHANGED configVars
  BY <1>0, <1>1, ToolMoves DEF configVars
<1>2. ASSUME NEW c \in Editors, StartTool(c) \/ NoticeWrite(c) \/ QuitTool(c) PROVE ConfigIInv'
  <2>1. \E t \in ToolStates : t.at # "open" /\ tool' = [tool EXCEPT ![c] = t]
    <3>1. CASE StartTool(c)
      <4>1. [Closed EXCEPT !.at = "starting", !.plugins = installed[c]] \in ToolStates
        BY <1>0 DEF Closed, ToolStates
      <4>2. [Closed EXCEPT !.at = "starting", !.plugins = installed[c]].at = "starting"
        BY DEF Closed
      <4> QED BY <3>1, <4>1, <4>2 DEF StartTool
    <3>2. CASE NoticeWrite(c)
      <4>1. [tool[c] EXCEPT !.at = "stale"] \in ToolStates
        BY <1>0 DEF ToolStates
      <4>2. [tool[c] EXCEPT !.at = "stale"].at = "stale"
        BY <1>0 DEF ToolStates
      <4> QED BY <1>0, <3>2, <4>1, <4>2 DEF NoticeWrite
    <3>3. CASE QuitTool(c)
      BY <1>0, <3>3 DEF QuitTool, Closed
    <3> QED BY <1>2, <3>1, <3>2, <3>3
  <2>2. UNCHANGED <<held, wall, installed, unsettled>>
    BY <1>2 DEF StartTool, NoticeWrite, QuitTool
  <2> QED BY <1>0, <2>1, <2>2, ToolMoves
<1>3. ASSUME NEW c \in Editors, FirstLoad(c) \/ RefreshTool(c) PROVE ConfigIInv'
  <2>1. CASE Behave(c)
    BY <1>3, <2>1, BehaveStep DEF FirstLoad, RefreshTool
  <2>2. CASE ~Behave(c)
    <3>1. /\ ~Loads(held[c], tool[c].plugins) /\ UNCHANGED <<held, wall, installed, unsettled>>
          /\ tool' = [tool EXCEPT ![c] = Closed] \/ tool' = [tool EXCEPT ![c].at = "open"]
      BY <1>3, <2>2 DEF FirstLoad, RefreshTool
    <3>2. tool[c].plugins # {}
      BY <3>1, LoadFails
    <3>3. /\ tool' \in [Editors -> ToolStates]
          /\ \A d \in Editors \ {c} : tool'[d] = tool[d]
          /\ tool'[c].at = "open" => tool'[c].plugins = tool[c].plugins
      BY <1>0, <3>1 DEF Closed, ToolStates
    <3> QED BY <1>0, <3>1, <3>2, <3>3, ToolMoves
  <2> QED BY <2>1, <2>2
<1>4. ASSUME NEW c \in Editors, NEW plugin \in Plugins, PluginCommand(c, plugin)
      PROVE  ConfigIInv'
  <2>1. /\ installed' \in [Editors -> SUBSET Plugins] /\ UNCHANGED <<held, tool, wall, unsettled>>
    BY <1>0, <1>4 DEF PluginCommand
  <2> QED BY <1>0, <2>1, ToolMoves
<1> QED BY <1>1, <1>2, <1>3, <1>4, EditStep, MergeStep DEF ConfigNext

(* The application of a client without plugins shows its newest            *)
(* configuration once it has refreshed, whatever the clocks of the others. *)
THEOREM PlainClientsAlwaysFollow == ConfigSpec => []PlainClientsFollow
<1>1. ConfigIInv => PlainClientsFollow
  BY DEF ConfigIInv, Follows, PlainClientsFollow
<1> QED BY ConfigInitIInv, ConfigStep, <1>1, PTL DEF ConfigSpec

-----------------------------------------------------------------------------
(* Loads come to an end *)

(* A client that holds what a load left holds a winner that has views. *)
SettleIInv ==
    /\ ~rewrites
    /\ \A c \in Editors :
          unsettled[c] # {} /\ unsettled[c] = held[c] => Winner(held[c]).content.views

LEMMA SettleStep ==
    ClocksAgree => (ConfigIInv /\ SettleIInv /\ [ConfigNext]_configVars => SettleIInv')
<1> SUFFICES ASSUME ClocksAgree, ConfigIInv, SettleIInv, [ConfigNext]_configVars
             PROVE  SettleIInv'
  OBVIOUS
<1>0. /\ unsettled \in [Editors -> SUBSET ConfigRevisions] /\ Editors \subseteq Sites
      /\ held \in [Sites -> SUBSET ConfigRevisions] /\ Server \notin Editors
  BY EditorsOrdered DEF ConfigIInv, HeldIInv, ConfigShapes, Sites
<1>1. ASSUME UNCHANGED <<unsettled, rewrites>>,
             \A d \in Editors : held'[d] = held[d] \/ ~(held'[d] \subseteq unsettled[d])
      PROVE  SettleIInv'
  BY <1>1 DEF SettleIInv
<1>2. ASSUME NEW c \in Editors, rewrites' = rewrites, unsettled'[c] = {},
             \A d \in Editors \ {c} : unsettled'[d] = unsettled[d] /\ held'[d] = held[d]
      PROVE  SettleIInv'
  BY <1>2 DEF SettleIInv
<1>3. ASSUME NEW c \in Editors, Behave(c) PROVE SettleIInv'
  <2>1. CASE rewrites' = rewrites /\ unsettled'[c] = {}
    BY <1>2, <1>3, <2>1, BehaveEffect DEF ConfigIInv
  <2>2. CASE /\ MustPersist(held[c])
             /\ PutConfig(c, Persisted(Behavior(held[c], tool[c].plugins),
                                       tool[c].plugins), TRUE)
             /\ unsettled'[c] = held'[c]
             /\ rewrites' = (rewrites \/ (held[c] # {} /\ unsettled[c] = held[c]))
    <3>1. ~(held[c] # {} /\ unsettled[c] = held[c])
      BY <2>2 DEF SettleIInv, MustPersist
    <3>2. /\ Persisted(Behavior(held[c], tool[c].plugins), tool[c].plugins) \in ConfigContents
          /\ Valid(Persisted(Behavior(held[c], tool[c].plugins), tool[c].plugins))
          /\ Persisted(Behavior(held[c], tool[c].plugins), tool[c].plugins).views
      BY <1>0, ShownContents DEF ConfigIInv, HeldIInv, ConfigShapes, ToolStates
    <3>3. Winner(held'[c]).content.views
      BY <2>2, <3>2, ConfigWritten DEF ConfigIInv
    <3>4. \A d \in Editors \ {c} : unsettled'[d] = unsettled[d] /\ held'[d] = held[d]
      BY <1>3, BehaveEffect DEF ConfigIInv
    <3> QED BY <2>2, <3>1, <3>3, <3>4 DEF SettleIInv
  <2> QED BY <1>3, <2>1, <2>2, BehaveEffect DEF ConfigIInv
<1>4. ASSUME NEW c \in Editors, ReceiveConfigs(c) PROVE SettleIInv'
  <2>1. /\ held' = [held EXCEPT ![c] = @ \cup held[Server]] /\ ~(held[Server] \subseteq held[c])
        /\ UNCHANGED <<unsettled, rewrites>>
    BY <1>4 DEF ReceiveConfigs
  <2>2. unsettled[c] \subseteq held[c]
    BY DEF ConfigIInv
  <2> QED BY <1>0, <1>1, <2>1, <2>2
<1>5. ASSUME NEW c \in Editors, SendConfigs(c) PROVE SettleIInv'
  BY <1>0, <1>1, <1>5 DEF SendConfigs
<1>6. ASSUME NEW c \in Editors, EditConfig(c) PROVE SettleIInv'
  <2>1. \A d \in Editors \ {c} : held'[d] = held[d]
    BY <1>0, <1>6 DEF EditConfig, SaveConfig, PutConfig
  <2> QED BY <1>0, <1>2, <1>6, <2>1 DEF EditConfig
<1>7. ASSUME NEW c \in Editors,
             \/ StartTool(c) \/ NoticeWrite(c) \/ QuitTool(c)
             \/ (FirstLoad(c) \/ RefreshTool(c)) /\ ~Behave(c)
             \/ \E plugin \in Plugins : PluginCommand(c, plugin)
      PROVE  SettleIInv'
  <2>1. UNCHANGED <<unsettled, rewrites, held>>
    BY <1>7 DEF StartTool, NoticeWrite, QuitTool, FirstLoad, RefreshTool, PluginCommand
  <2> QED BY <1>1, <2>1
<1>8. CASE UNCHANGED configVars
  BY <1>1, <1>8 DEF configVars
<1> QED BY <1>3, <1>4, <1>5, <1>6, <1>7, <1>8 DEF ConfigNext

(* A load that completes a configuration writes one the next load takes as *)
(* it is, as long as the clocks of the clients agree: what a client whose  *)
(* clock is behind writes does not win, and it loads and writes again.     *)
THEOREM LoadsAlwaysSettle == ClocksAgree => (ConfigSpec => []LoadsSettle)
<1> SUFFICES ASSUME ClocksAgree PROVE ConfigSpec => []LoadsSettle
  OBVIOUS
<1>1. ConfigInit => SettleIInv
  BY DEF ConfigInit, SettleIInv
<1>2. ConfigIInv /\ SettleIInv /\ [ConfigNext]_configVars => SettleIInv'
  BY SettleStep
<1>3. SettleIInv => LoadsSettle
  BY DEF SettleIInv, LoadsSettle
<1> QED BY ConfigInitIInv, ConfigStep, <1>1, <1>2, <1>3, PTL DEF ConfigSpec

-----------------------------------------------------------------------------
(***************************************************************************)
(* WorkspaceConfig: of the plugins, those that run code never leave their  *)
(* client. A load writes what it shows without them, and what it shows     *)
(* beside the plugins is what an earlier revision named. So what a         *)
(* configuration names is an effect or what a person wrote.                *)
(***************************************************************************)

WrittenByPerson == UNION {draft.actions : draft \in Drafts}
Named(content) == content.actions \cap Plugins
Replicable(content) == Named(content) \subseteq EffectPlugins \cup WrittenByPerson
PlainlyNamed == \A k \in Sites : \A p \in held[k] : Replicable(p.content)

LEMMA LoadedReplicable ==
    ASSUME NEW c \in Editors, HeldIInv, PlainlyNamed, NEW plugins \in SUBSET Plugins
    PROVE  Replicable(Persisted(Behavior(held[c], plugins), plugins))
<1>1. PICK actions : /\ Behavior(held[c], plugins)
                            = [views |-> TRUE, twice |-> FALSE, actions |-> actions]
                     /\ actions = plugins \cup IF held[c] = {} THEN {CaptureAction}
                                               ELSE Winner(held[c]).content.actions
  BY DEF Behavior
<1>2. Persisted(Behavior(held[c], plugins), plugins).actions
        = actions \ (plugins \cap SteelPlugins)
  BY <1>1 DEF Persisted
<1>3. c \in Sites
  BY DEF Sites
<1>4. CASE held[c] = {}
  <2>1. actions = plugins \cup {CaptureAction}
    BY <1>1, <1>4
  <2> QED BY <1>2, <2>1, ConfigAssumption DEF Replicable, Named, Plugins
<1>5. CASE held[c] # {}
  <2>1. actions = plugins \cup Winner(held[c]).content.actions
    BY <1>1, <1>5
  <2>2. Replicable(Winner(held[c]).content)
    BY <1>3, <1>5, WinnerThere DEF PlainlyNamed
  <2> QED BY <1>2, <2>1, <2>2 DEF Replicable, Named, Plugins
<1> QED BY <1>4, <1>5

LEMMA PutReplicable ==
    ASSUME ConfigShapes, PlainlyNamed, NEW c \in Editors, NEW content, Replicable(content),
           NEW auto, PutConfig(c, content, auto)
    PROVE  PlainlyNamed'
<1>1. held' = [held EXCEPT ![c] = @ \cup {Revision(c, content, auto)}]
  BY DEF PutConfig
<1>2. Revision(c, content, auto).content = content
  BY DEF Revision
<1>3. \A k \in Sites : \A p \in held'[k] : p \in held[k] \/ p = Revision(c, content, auto)
  BY <1>1 DEF ConfigShapes
<1>4. \A k \in Sites : \A p \in held'[k] : Replicable(p.content)
  BY <1>2, <1>3 DEF PlainlyNamed
<1> QED BY <1>4 DEF PlainlyNamed, Replicable, Named

LEMMA NamedStep == ConfigIInv /\ PlainlyNamed /\ [ConfigNext]_configVars => PlainlyNamed'
<1> SUFFICES ASSUME ConfigIInv, PlainlyNamed, [ConfigNext]_configVars PROVE PlainlyNamed'
  OBVIOUS
<1>0. /\ HeldIInv /\ ConfigShapes /\ held \in [Sites -> SUBSET ConfigRevisions]
      /\ tool \in [Editors -> ToolStates] /\ Editors \subseteq Sites /\ Server \in Sites
  BY DEF ConfigIInv, HeldIInv, ConfigShapes, Sites
<1>1. ASSUME UNCHANGED held PROVE PlainlyNamed'
  BY <1>1 DEF PlainlyNamed, Replicable, Named
<1>2. ASSUME NEW c \in Editors, Behave(c) PROVE PlainlyNamed'
  <2>1. CASE PutConfig(c, Persisted(Behavior(held[c], tool[c].plugins), tool[c].plugins), TRUE)
    <3>1. tool[c].plugins \in SUBSET Plugins
      BY <1>0 DEF ToolStates
    <3> QED BY <1>0, <2>1, <3>1, LoadedReplicable, PutReplicable
  <2> QED BY <1>0, <1>1, <1>2, <2>1, BehaveEffect
<1>3. ASSUME NEW c \in Editors, EditConfig(c) PROVE PlainlyNamed'
  <2>1. PICK content \in Drafts : SaveConfig(c, content)
    BY <1>3 DEF EditConfig
  <2>2. Replicable(content)
    BY DEF Replicable, Named, WrittenByPerson
  <2> QED BY <1>0, <1>1, <2>1, <2>2, PutReplicable DEF SaveConfig
<1>4. ASSUME NEW c \in Editors, SendConfigs(c) \/ ReceiveConfigs(c) PROVE PlainlyNamed'
  <2>1. \A k \in Sites : \A p \in held'[k] : \E l \in Sites : p \in held[l]
    BY <1>0, <1>4 DEF SendConfigs, ReceiveConfigs
  <2> QED BY <2>1 DEF PlainlyNamed, Replicable, Named
<1>5. ASSUME NEW c \in Editors,
             \/ StartTool(c) \/ NoticeWrite(c) \/ QuitTool(c)
             \/ (FirstLoad(c) \/ RefreshTool(c)) /\ ~Behave(c)
             \/ \E plugin \in Plugins : PluginCommand(c, plugin)
      PROVE  PlainlyNamed'
  <2>1. UNCHANGED held
    BY <1>5 DEF StartTool, NoticeWrite, QuitTool, FirstLoad, RefreshTool, PluginCommand
  <2> QED BY <1>1, <2>1
<1>6. CASE UNCHANGED configVars
  BY <1>1, <1>6 DEF configVars
<1> QED BY <1>2, <1>3, <1>4, <1>5, <1>6 DEF ConfigNext

(* A plugin that runs code is never named by what a program writes: every  *)
(* plugin a replicated configuration names is one that only describes      *)
(* effects, or a person wrote its name (steel_runtime.rs,                  *)
(* persisted_behavior).                                                    *)
THEOREM CodeNeverReplicated == ConfigSpec => []PlainlyNamed
<1>1. ConfigInit => PlainlyNamed
  BY DEF ConfigInit, PlainlyNamed, Sites
<1> QED BY <1>1, ConfigInitIInv, ConfigStep, NamedStep, PTL DEF ConfigSpec

(* The plugins of a client stay local as long as all of them run code and  *)
(* nobody writes the name of one into a configuration. A run shows how one *)
(* that only describes an effect is written.                               *)
THEOREM CodePluginsStayLocal ==
    ASSUME EffectPlugins = {}, \A draft \in Drafts : draft.actions \cap SteelPlugins = {}
    PROVE  ConfigSpec => []PluginsStayLocal
<1>1. WrittenByPerson \cap Plugins = {}
  BY DEF WrittenByPerson, Plugins
<1>2. PlainlyNamed => PluginsStayLocal
  BY <1>1 DEF PlainlyNamed, PluginsStayLocal, Replicable, Named, Sites
<1> QED BY <1>2, CodeNeverReplicated, PTL

-----------------------------------------------------------------------------
(***************************************************************************)
(* WorkspaceConfig: built-in configurations give way to those of persons.  *)
(* A program makes one while it holds none. If it then waits for one that  *)
(* was published, every one that a program made is older than every one    *)
(* that a person saved.                                                    *)
(***************************************************************************)

(* Once a person has saved a configuration, a client that holds none       *)
(* comes to hold what it receives from the server, and nothing else.       *)
Published == \E k \in Sites : \E p \in held[k] : ~p.auto
WaitsForPublished ==
    \A c \in Editors : Published /\ held[c] = {} => held'[c] \subseteq held[Server]

AllHaveViews == \A k \in Sites : \A p \in held[k] : p.content.views
PersonsLast ==
    \A k, l \in Sites : \A p \in held[k], q \in held[l] :
        p.auto /\ ~q.auto => p.stamp < q.stamp
DefaultsIInv == AllHaveViews /\ PersonsLast

LEMMA PutLast ==
    ASSUME ClocksAgree, HeldIInv, DefaultsIInv, NEW c \in Editors, NEW content, content.views,
           NEW auto \in BOOLEAN, PutConfig(c, content, auto), auto => ~Published
    PROVE  DefaultsIInv'
<1>0. /\ held \in [Sites -> SUBSET ConfigRevisions] /\ wall \in Int /\ Lag \in [Editors -> Nat]
  BY ConfigAssumption DEF HeldIInv, ConfigShapes
<1>1. PICK r : r = Revision(c, content, auto)
  OBVIOUS
<1>2. r.stamp = wall - Lag[c] /\ r.content = content /\ r.auto = auto
  BY <1>1 DEF Revision, Stamp
<1>3. \A k \in Sites : \A p \in held'[k] : p \in held[k] \/ p = r
  BY <1>0, <1>1 DEF PutConfig
<1>4. \A k \in Sites : \A p \in held[k] : p.stamp < r.stamp
  <2> SUFFICES ASSUME NEW k \in Sites, NEW p \in held[k] PROVE p.stamp < r.stamp
    OBVIOUS
  <2>1. p \in ConfigRevisions
    BY <1>0
  <2>2. p.by \in Editors
    BY <2>1 DEF ConfigRevisions
  <2>3. p.stamp < wall - Lag[p.by]
    BY DEF HeldIInv, Older
  <2> QED BY <1>2, <2>2, <2>3 DEF ClocksAgree
<1>5. AllHaveViews'
  BY <1>2, <1>3 DEF DefaultsIInv, AllHaveViews
<1>6. ASSUME NEW k \in Sites, NEW l \in Sites, NEW p \in held'[k], NEW q \in held'[l],
             p.auto, ~q.auto
      PROVE  p.stamp < q.stamp
  <2>1. CASE q \in held[l]
    <3>1. ~auto
      BY <2>1, <1>6 DEF Published
    <3>2. p \in held[k]
      BY <1>2, <1>3, <1>6, <3>1
    <3> QED BY <1>6, <2>1, <3>2 DEF DefaultsIInv, PersonsLast
  <2>2. CASE q = r
    <3>1. p \in held[k]
      BY <1>3, <1>6, <2>2
    <3> QED BY <1>4, <2>2, <3>1
  <2> QED BY <1>3, <2>1, <2>2
<1>7. PersonsLast'
  BY <1>6 DEF PersonsLast
<1> QED BY <1>5, <1>7 DEF DefaultsIInv

LEMMA DefaultsStep ==
    ASSUME ClocksAgree, \A draft \in Drafts : draft.views,
           ConfigIInv, DefaultsIInv, [ConfigNext]_configVars, [WaitsForPublished]_configVars
    PROVE  DefaultsIInv'
<1>0. /\ HeldIInv /\ held \in [Sites -> SUBSET ConfigRevisions] /\ wall \in Int
      /\ Lag \in [Editors -> Nat] /\ tool \in [Editors -> ToolStates]
      /\ Editors \subseteq Sites /\ Server \in Sites
  BY ConfigAssumption DEF ConfigIInv, HeldIInv, ConfigShapes, Sites
<1>1. ASSUME \A k \in Sites : \A p \in held'[k] : \E l \in Sites : p \in held[l]
      PROVE  DefaultsIInv'
  BY <1>1 DEF DefaultsIInv, AllHaveViews, PersonsLast
<1>2. ASSUME NEW c \in Editors, Behave(c) PROVE DefaultsIInv'
  <2> DEFINE content == Persisted(Behavior(held[c], tool[c].plugins), tool[c].plugins)
  <2>1. CASE held' = held
    BY <1>1, <2>1
  <2>2. CASE MustPersist(held[c]) /\ PutConfig(c, content, TRUE)
    <3>1. held[c] = {}
      <4> SUFFICES ASSUME held[c] # {} PROVE FALSE
        OBVIOUS
      <4>1. Winner(held[c]) \in held[c]
        BY <1>0, WinnerThere
      <4> QED BY <1>0, <2>2, <4>1 DEF MustPersist, DefaultsIInv, AllHaveViews
    <3>2. Revision(c, content, TRUE) \in held'[c] /\ Revision(c, content, TRUE).stamp = wall - Lag[c]
      BY <1>0, <2>2 DEF PutConfig, Revision, Stamp
    <3>3. Revision(c, content, TRUE) \notin held[Server]
      <4> SUFFICES ASSUME Revision(c, content, TRUE) \in held[Server] PROVE FALSE
        OBVIOUS
      <4>1. Revision(c, content, TRUE).by = c
        BY DEF Revision
      <4>2. wall - Lag[c] < wall - Lag[c]
        BY <1>0, <3>2, <4>1 DEF HeldIInv, Older
      <4> QED BY <1>0, <4>2
    <3>4. ~Published
      <4>1. held' # held
        BY <3>1, <3>2
      <4>2. WaitsForPublished
        BY <4>1 DEF configVars
      <4> QED BY <3>1, <3>2, <3>3, <4>2 DEF WaitsForPublished
    <3>5. content.views
      BY <1>0, ShownContents DEF ToolStates, ConfigIInv, HeldIInv, ConfigShapes
    <3> HIDE DEF content
    <3> QED BY <1>0, <2>2, <3>4, <3>5, PutLast
  <2> QED BY <1>0, <1>2, <2>1, <2>2, BehaveEffect
<1>3. ASSUME NEW c \in Editors, EditConfig(c) PROVE DefaultsIInv'
  <2>1. PICK content \in Drafts : SaveConfig(c, content)
    BY <1>3 DEF EditConfig
  <2> QED BY <1>0, <1>1, <2>1, PutLast DEF SaveConfig
<1>4. ASSUME NEW c \in Editors, SendConfigs(c) \/ ReceiveConfigs(c) PROVE DefaultsIInv'
  BY <1>0, <1>1, <1>4 DEF SendConfigs, ReceiveConfigs
<1>5. ASSUME NEW c \in Editors,
             \/ StartTool(c) \/ NoticeWrite(c) \/ QuitTool(c)
             \/ (FirstLoad(c) \/ RefreshTool(c)) /\ ~Behave(c)
             \/ \E plugin \in Plugins : PluginCommand(c, plugin)
      PROVE  DefaultsIInv'
  <2>1. UNCHANGED held
    BY <1>5 DEF StartTool, NoticeWrite, QuitTool, FirstLoad, RefreshTool, PluginCommand
  <2> QED BY <1>1, <2>1
<1>6. CASE UNCHANGED configVars
  BY <1>1, <1>6 DEF configVars
<1> QED BY <1>2, <1>3, <1>4, <1>5, <1>6 DEF ConfigNext

(* A built-in configuration is never chosen over one a person saved, as    *)
(* long as the clients' clocks agree, persons write configurations with    *)
(* views, and a client that holds none waits for one that was published.   *)
(* A run shows what happens when the last fails: the code's client does    *)
(* not wait before its first load (behavior.rs:75, session.rs:258-311).    *)
THEOREM DefaultsGiveWay ==
    ASSUME ClocksAgree, \A draft \in Drafts : draft.views
    PROVE  ConfigSpec /\ [][WaitsForPublished]_configVars => []DefaultsOnlyUntilPublished
<1>1. ConfigInit => DefaultsIInv
  BY DEF ConfigInit, DefaultsIInv, AllHaveViews, PersonsLast, Sites
<1>2. ConfigIInv /\ DefaultsIInv /\ [ConfigNext]_configVars /\ [WaitsForPublished]_configVars
        => DefaultsIInv'
  BY DefaultsStep
<1>3. ConfigIInv /\ DefaultsIInv => DefaultsOnlyUntilPublished
  <2> SUFFICES ASSUME ConfigIInv, DefaultsIInv, NEW c \in Editors, NEW p \in held[c], ~p.auto
               PROVE  ~Winner(held[c]).auto
    BY DEF DefaultsOnlyUntilPublished
  <2>1. c \in Sites /\ held[c] \subseteq ConfigRevisions
    BY DEF ConfigIInv, HeldIInv, ConfigShapes, Sites
  <2>2. Winner(held[c]) \in held[c] /\ (p = Winner(held[c]) \/ Later(Winner(held[c]), p))
    BY <2>1, WinnerThere DEF Wins, ConfigIInv
  <2> SUFFICES ASSUME Winner(held[c]).auto PROVE FALSE
    OBVIOUS
  <2>3. Winner(held[c]).stamp < p.stamp
    BY <2>1, <2>2 DEF DefaultsIInv, PersonsLast
  <2>4. p.stamp \in Int /\ Winner(held[c]).stamp \in Int
    BY <2>1, <2>2 DEF ConfigRevisions
  <2> QED BY <2>2, <2>3, <2>4 DEF Later
<1> QED BY ConfigInitIInv, ConfigStep, <1>1, <1>2, <1>3, PTL DEF ConfigSpec

-----------------------------------------------------------------------------
(***************************************************************************)
(* Projection: a pass destroys only what the person typed after the pass   *)
(* had read the file. What a pass has read in a file it goes on to replace *)
(* or remove is never the person's.                                        *)
(***************************************************************************)

(* What a pass has read and will replace or remove is never the person's. *)

PassShapes == [at : {"idle", "obsolete", "remove", "desired", "write"},
               want : [Ids -> FileOrNone], mem : [Ids -> FileOrNone],
               todo : SUBSET Ids, id : Ids \cup {0}, seen : Contents]

PassIInv ==
    /\ shown \in [Ids -> FileOrNone] /\ disk \in [Paths -> Contents]
    /\ manifest \in [Ids -> FileOrNone]
    /\ pass \in PassShapes /\ pass.seen # Mine
    /\ pass.at \in {"remove", "write"} => pass.id \in Ids

LEMMA LeastTodo == ASSUME NEW S \in SUBSET Ids, S # {} PROVE Min(S) \in S
<1>1. S \subseteq Nat BY ProjectionAssumption
<1>2. \E n \in S : \A m \in S : n <= m BY <1>1, NatLeast
<1> QED BY <1>2 DEF Min

LEMMA NoPassShape == NoPass \in PassShapes /\ NoPass.seen # Mine /\ NoPass.at = "idle"
BY ProjectionAssumption DEF NoPass, PassShapes, FileOrNone, Absent, Contents

LEMMA FileFacts ==
    /\ File \subseteq FileOrNone /\ Absent \in FileOrNone
    /\ \A f \in FileOrNone : f.text # Mine /\ f.text \in Contents
BY ProjectionAssumption DEF File, FileOrNone, Absent, Contents

(* Updates of a pass that keep its shape. *)
LEMMA TodoUpdate ==
    ASSUME NEW p \in PassShapes, NEW t \in SUBSET Ids
    PROVE  [p EXCEPT !.todo = t] \in PassShapes
BY DEF PassShapes

LEMMA EntryUpdate ==
    ASSUME NEW p \in PassShapes, NEW t \in SUBSET Ids, NEW i \in Ids, NEW e \in FileOrNone
    PROVE  [[p EXCEPT !.todo = t] EXCEPT !.mem[i] = e] \in PassShapes
BY DEF PassShapes

LEMMA TurnUpdate ==
    ASSUME NEW p \in PassShapes, NEW t \in SUBSET Ids, NEW i \in Ids, NEW s \in Contents,
           NEW a \in {"remove", "write"}
    PROVE  [[p EXCEPT !.todo = t] EXCEPT !.at = a, !.id = i, !.seen = s] \in PassShapes
BY DEF PassShapes

LEMMA DoneUpdate ==
    ASSUME NEW p \in PassShapes, NEW i \in Ids, NEW e \in FileOrNone, NEW s \in Contents,
           NEW a \in {"obsolete", "desired"}
    PROVE  [p EXCEPT !.at = a, !.mem[i] = e, !.seen = s] \in PassShapes
BY DEF PassShapes

LEMMA ProjectionStarts == ProjectionInit => PassIInv
<1> SUFFICES ASSUME ProjectionInit PROVE PassIInv OBVIOUS
<1>1. pass \in PassShapes /\ pass.seen # Mine /\ pass.at = "idle"
  BY NoPassShape DEF ProjectionInit
<1>2. /\ shown \in [Ids -> FileOrNone] /\ manifest \in [Ids -> FileOrNone]
      /\ disk \in [Paths -> Contents]
  BY FileFacts DEF ProjectionInit, Contents
<1> QED BY <1>1, <1>2 DEF PassIInv

LEMMA CheckObsoleteKeeps == ASSUME PassIInv, CheckObsolete PROVE PassIInv'
<1> DEFINE i == Min(pass.todo)
           rest == [pass EXCEPT !.todo = @ \ {i}]
<1>0. pass \in PassShapes /\ pass.seen # Mine BY DEF PassIInv
<1>1. pass.todo \in SUBSET Ids /\ pass.todo # {} BY <1>0 DEF CheckObsolete, PassShapes
<1>2. i \in Ids BY <1>1, LeastTodo
<1>3. pass.mem[i] \in FileOrNone BY <1>0, <1>2 DEF PassShapes
<1>4. Absent \in FileOrNone /\ pass.mem[i].text # Mine /\ pass.mem[i].text \in Contents
  BY <1>3, FileFacts
<1>5. pass.at = "obsolete" /\ UNCHANGED <<shown, disk, manifest>> BY DEF CheckObsolete
<1>6. PICK t \in SUBSET Ids : t = pass.todo \ {i} BY <1>1
<1> HIDE DEF i
<1>7. CASE pass' = [[pass EXCEPT !.todo = t] EXCEPT !.mem[i] = Absent]
  <2>1. pass' \in PassShapes BY <1>0, <1>2, <1>4, <1>7, EntryUpdate
  <2>2. pass'.seen = pass.seen /\ pass'.at = pass.at BY <1>0, <1>7 DEF PassShapes
  <2> QED BY <1>0, <1>5, <2>1, <2>2 DEF PassIInv
<1>8. CASE \E s : /\ s = pass.mem[i].text
                  /\ pass' = [[pass EXCEPT !.todo = t] EXCEPT !.at = "remove", !.id = i, !.seen = s]
  <2>1. PICK s \in Contents :
            /\ s = pass.mem[i].text
            /\ pass' = [[pass EXCEPT !.todo = t] EXCEPT !.at = "remove", !.id = i, !.seen = s]
    BY <1>4, <1>8
  <2>2. pass' \in PassShapes BY <1>0, <1>2, <2>1, TurnUpdate
  <2>3. pass'.seen = pass.mem[i].text /\ pass'.at = "remove" /\ pass'.id = i
    BY <1>0, <2>1 DEF PassShapes
  <2> QED BY <1>2, <1>4, <1>5, <2>2, <2>3 DEF PassIInv
<1>9. CASE pass' = [pass EXCEPT !.todo = t]
  <2>1. pass' \in PassShapes BY <1>0, <1>9, TodoUpdate
  <2>2. pass'.seen = pass.seen /\ pass'.at = pass.at BY <1>0, <1>9 DEF PassShapes
  <2> QED BY <1>0, <1>5, <2>1, <2>2 DEF PassIInv
<1> QED BY <1>6, <1>7, <1>8, <1>9 DEF CheckObsolete, Entry, i

LEMMA CheckDesiredKeeps == ASSUME PassIInv, CheckDesired PROVE PassIInv'
<1> DEFINE i == Min(pass.todo)
           file == pass.want[i]
           actual == disk[file.path]
<1>0. pass \in PassShapes /\ pass.seen # Mine BY DEF PassIInv
<1>1. pass.todo \in SUBSET Ids /\ pass.todo # {} BY <1>0 DEF CheckDesired, PassShapes
<1>2. i \in Ids BY <1>1, LeastTodo
<1>3. pass.mem[i] \in FileOrNone /\ file \in FileOrNone BY <1>0, <1>2 DEF PassShapes
<1>4. pass.mem[i].text # Mine /\ pass.mem[i].text \in Contents BY <1>3, FileFacts
<1>5. pass.at = "desired" /\ UNCHANGED <<shown, disk, manifest>> BY DEF CheckDesired
<1>6. PICK t \in SUBSET Ids : t = pass.todo \ {i} BY <1>1
<1>7. CASE pass' = [pass EXCEPT !.todo = t]
  <2>1. pass' \in PassShapes BY <1>0, <1>7, TodoUpdate
  <2>2. pass'.seen = pass.seen /\ pass'.at = pass.at BY <1>0, <1>7 DEF PassShapes
  <2> QED BY <1>0, <1>5, <2>1, <2>2 DEF PassIInv
<1>8. CASE pass' = [[pass EXCEPT !.todo = t] EXCEPT !.mem[i] = file]
  <2> HIDE DEF i, file
  <2>1. pass' \in PassShapes BY <1>0, <1>2, <1>3, <1>8, EntryUpdate
  <2>2. pass'.seen = pass.seen /\ pass'.at = pass.at BY <1>0, <1>8 DEF PassShapes
  <2> QED BY <1>0, <1>5, <2>1, <2>2 DEF PassIInv
<1>9. CASE /\ pass' = [[pass EXCEPT !.todo = t] EXCEPT !.at = "write", !.id = i, !.seen = actual]
           /\ SafeToWrite(i, actual) /\ actual # file.text
  <2>1. actual = NoFile \/ actual = pass.mem[i].text BY <1>9 DEF SafeToWrite, Entry
  <2>2. actual # Mine /\ actual \in Contents
    BY <1>4, <2>1, ProjectionAssumption DEF Contents
  <2> HIDE DEF i, actual, file
  <2>3. pass' \in PassShapes BY <1>0, <1>2, <1>9, <2>2, TurnUpdate
  <2>4. pass'.seen = actual /\ pass'.at = "write" /\ pass'.id = i
    BY <1>0, <1>9 DEF PassShapes
  <2> QED BY <1>2, <1>5, <2>2, <2>3, <2>4 DEF PassIInv
<1>10. \/ pass' = [pass EXCEPT !.todo = @ \ {i}]
       \/ pass' = [[pass EXCEPT !.todo = @ \ {i}] EXCEPT !.mem[i] = file]
       \/ /\ pass' = [[pass EXCEPT !.todo = @ \ {i}]
                         EXCEPT !.at = "write", !.id = i, !.seen = actual]
          /\ SafeToWrite(i, actual) /\ actual # file.text
  BY Zenon DEF CheckDesired
<1>11. [pass EXCEPT !.todo = @ \ {i}] = [pass EXCEPT !.todo = t] BY <1>6
<1> HIDE DEF i, file, actual
<1> QED BY <1>7, <1>8, <1>9, <1>10, <1>11, Zenon

LEMMA RemoveFileKeeps == ASSUME PassIInv, RemoveFile PROVE PassIInv'
<1>0. pass \in PassShapes /\ pass.seen # Mine /\ pass.id \in Ids /\ disk \in [Paths -> Contents]
  BY DEF PassIInv, RemoveFile
<1>1. /\ UNCHANGED <<shown, manifest>>
      /\ disk' = disk \/ \E path : disk' = [disk EXCEPT ![path] = NoFile]
      /\ pass' = NoPass \/ \E k \in Ids : pass' = [pass EXCEPT !.at = "obsolete", !.mem[k] = Absent,
                                                      !.seen = NoFile]
  BY <1>0 DEF RemoveFile, Entry
<1>2. NoFile \in Contents /\ NoFile # Mine BY ProjectionAssumption DEF Contents
<1>3. disk' \in [Paths -> Contents] BY <1>0, <1>1, <1>2
<1>4. CASE pass' = NoPass BY <1>1, <1>3, <1>4, NoPassShape DEF PassIInv
<1>5. ASSUME NEW k \in Ids,
             pass' = [pass EXCEPT !.at = "obsolete", !.mem[k] = Absent, !.seen = NoFile]
      PROVE  PassIInv'
  <2>1. pass' \in PassShapes BY <1>0, <1>2, <1>5, DoneUpdate, FileFacts
  <2>2. pass'.seen = NoFile /\ pass'.at = "obsolete" BY <1>0, <1>5 DEF PassShapes
  <2> QED BY <1>1, <1>2, <1>3, <2>1, <2>2 DEF PassIInv
<1> QED BY <1>1, <1>4, <1>5

LEMMA WriteFileKeeps == ASSUME PassIInv, WriteFile PROVE PassIInv'
<1> DEFINE file == pass.want[pass.id]
<1>0. pass \in PassShapes /\ pass.id \in Ids /\ disk \in [Paths -> Contents]
  BY DEF PassIInv, WriteFile
<1>1. file \in FileOrNone BY <1>0 DEF PassShapes
<1>2. file.text \in Contents /\ NoFile \in Contents /\ NoFile # Mine
  BY <1>1, FileFacts, ProjectionAssumption DEF Contents
<1>3. UNCHANGED <<shown, manifest>> BY DEF WriteFile
<1>4. CASE pass' = NoPass /\ UNCHANGED disk BY <1>3, <1>4, NoPassShape DEF PassIInv
<1>5. CASE /\ disk' = [disk EXCEPT ![file.path] = file.text]
           /\ pass' = [pass EXCEPT !.at = "desired", !.mem[pass.id] = file, !.seen = NoFile]
  <2> HIDE DEF file
  <2>1. disk' \in [Paths -> Contents] BY <1>0, <1>2, <1>5
  <2>2. pass' \in PassShapes BY <1>0, <1>1, <1>2, <1>5, DoneUpdate
  <2>3. pass'.seen = NoFile /\ pass'.at = "desired" BY <1>0, <1>5 DEF PassShapes
  <2> QED BY <1>2, <1>3, <2>1, <2>2, <2>3 DEF PassIInv
<1> QED BY <1>4, <1>5 DEF WriteFile

LEMMA StartsKeep == ASSUME PassIInv, StartPass \/ StartWriting PROVE PassIInv'
<1>0. pass \in PassShapes /\ pass.seen # Mine BY DEF PassIInv
<1>1. CASE StartPass
  <2> DEFINE want == UniqueDesired(shown)
  <2>1. want \in [Ids -> FileOrNone] BY FileFacts DEF PassIInv, UniqueDesired
  <2>2. Obsolete(want, manifest) \in SUBSET Ids BY DEF Obsolete
  <2> HIDE DEF want
  <2>3. PICK t \in SUBSET Ids :
            pass' = [NoPass EXCEPT !.at = "obsolete", !.want = want, !.mem = manifest, !.todo = t]
    BY <1>1, <2>2 DEF StartPass, want
  <2>4. PICK p \in PassShapes : p = NoPass BY NoPassShape
  <2>5. pass' \in PassShapes /\ pass'.seen = p.seen /\ pass'.at = "obsolete"
    BY <2>1, <2>3, <2>4 DEF PassShapes, PassIInv
  <2> QED BY <1>1, <2>4, <2>5, NoPassShape DEF PassIInv, StartPass
<1>2. CASE StartWriting
  <2>1. PICK t \in SUBSET Ids : pass' = [pass EXCEPT !.at = "desired", !.todo = t]
    BY <1>2 DEF StartWriting
  <2>2. pass' \in PassShapes /\ pass'.seen = pass.seen /\ pass'.at = "desired"
    BY <1>0, <2>1 DEF PassShapes
  <2> QED BY <1>0, <1>2, <2>2 DEF PassIInv, StartWriting
<1> QED BY <1>1, <1>2

LEMMA PassNext == PassIInv /\ [ProjectionNext]_projectionVars => PassIInv'
<1> SUFFICES ASSUME PassIInv, [ProjectionNext]_projectionVars PROVE PassIInv' OBVIOUS
<1>1. CASE PersistManifest
  <2>1. manifest' \in [Ids -> FileOrNone] /\ pass' = NoPass /\ UNCHANGED <<shown, disk>>
    BY <1>1 DEF PersistManifest, PassIInv, PassShapes
  <2> QED BY <2>1, NoPassShape DEF PassIInv
<1>2. ASSUME NEW i \in Ids, NEW file \in FileOrNone, RecordChanges(i, file) PROVE PassIInv'
  BY <1>2 DEF RecordChanges, PassIInv
<1>3. ASSUME NEW path \in Paths, NEW text \in {Mine, NoFile}, PersonEdits(path, text)
      PROVE  PassIInv'
  BY <1>3 DEF PersonEdits, PassIInv, Contents
<1>4. CASE ProjectionCrash BY <1>4, NoPassShape DEF ProjectionCrash, PassIInv
<1>5. CASE UNCHANGED projectionVars BY <1>5 DEF projectionVars, PassIInv
<1> QED BY <1>1, <1>2, <1>3, <1>4, <1>5, CheckObsoleteKeeps, CheckDesiredKeeps,
        RemoveFileKeeps, WriteFileKeeps, StartsKeep
        DEF ProjectionNext, PassStep

(* A pass destroys what the person typed only when it was typed after the  *)
(* pass had read the file (projection.rs:185).                             *)
THEOREM EditsAlwaysRespected == ProjectionSpec => EditsRespected
<1> DEFINE Kept == \A p \in Paths : (disk[p] = Mine /\ disk'[p] # Mine /\ pass' # pass)
                                        => pass.seen # Mine
<1>1. PassIInv => [Kept]_projectionVars BY DEF PassIInv
<1> QED BY <1>1, ProjectionStarts, PassNext, PTL DEF ProjectionSpec, EditsRespected

-----------------------------------------------------------------------------
(***************************************************************************)
(* ContentFiles: an import is whole or refused, and an export is complete. *)
(* Identities that differ are saved one by one, so the saved ones count    *)
(* them; among more suffixes than there are files one is free, so every    *)
(* file is planned under a name of its own, and files written and files to *)
(* write have the notes of the snapshot between them.                      *)
(***************************************************************************)

(* Theorem ImportsWhole. *)

ImportStages == {"off", "checking", "saving", "done", "failed", "refused"}

Sources == Seq([id : NoteNumbers \cup {0}, readable : BOOLEAN])

ImportShapes == [at : ImportStages, source : Sources, existing : SUBSET NoteNumbers,
                 todo : Seq(NoteNumbers), saved : SUBSET NoteNumbers]

(* A sequence without repetitions. *)
Once(s) == \A j, k \in 1 .. Len(s) : s[j] = s[k] => j = k

ImportIInv ==
    /\ import \in ImportShapes
    /\ notes \in [NoteNumbers -> {"none", "other", "import"}]
    /\ import.at \in {"off", "checking", "refused"} => import.saved = {}
    /\ import.at = "saving" =>
          /\ Once(import.todo)
          /\ \A k \in 1 .. Len(import.todo) : import.todo[k] \notin import.saved
          /\ Cardinality(import.saved) + Len(import.todo) = Len(import.source)
    /\ import.at = "done" => Cardinality(import.saved) = Len(import.source)

LEMMA SavedFinite ==
    ASSUME NEW S \in SUBSET NoteNumbers
    PROVE  IsFiniteSet(S) /\ Cardinality(S) \in Nat
BY FilesAssumption, FS_Subset, FS_CardinalityType

(* Files that do not conflict get identities that differ. *)
LEMMA IdentifiedOnce ==
    ASSUME NEW source \in Sources, NEW existing, ~Conflicts(source, existing),
           NEW new \in NewIdentities(source)
    PROVE  /\ Identified(source, new) \in Seq(NoteNumbers)
           /\ Len(Identified(source, new)) = Len(source)
           /\ Once(Identified(source, new))
<1> DEFINE n == Len(source)
           lacking == {k \in 1 .. n : source[k].id = 0}
           used == NotesThere \cup {source[k].id : k \in 1 .. n}
           ids == Identified(source, new)
<1>1. n \in Nat /\ \A k \in 1 .. n : source[k].id \in NoteNumbers \cup {0}
  <2> DEFINE R == [id : NoteNumbers \cup {0}, readable : BOOLEAN]
  <2>1. source \in Seq(R) BY DEF Sources
  <2>2. \A f \in R : f.id \in NoteNumbers \cup {0} OBVIOUS
  <2> HIDE DEF R
  <2>3. n \in Nat /\ \A k \in 1 .. n : source[k] \in R BY <2>1
  <2> QED BY <2>2, <2>3
<1>2. new \in [lacking -> NoteNumbers \ used] /\ \A j, k \in lacking : new[j] = new[k] => j = k
  BY DEF NewIdentities
<1>3. ids = [k \in 1 .. n |-> IF source[k].id = 0 THEN new[k] ELSE source[k].id]
  BY DEF Identified
<1>4. \A j, k \in 1 .. n : j # k /\ source[j].id # 0 => source[j].id # source[k].id
  BY DEF Conflicts
<1>5. \A k \in 1 .. n : source[k].id \in used OBVIOUS
<1>6. \A k \in 1 .. n : source[k].id = 0 => k \in lacking OBVIOUS
<1> HIDE DEF n, lacking, used, ids
<1>7. \A k \in 1 .. n : ids[k] \in NoteNumbers BY <1>1, <1>2, <1>3, <1>6
<1>8. ids \in Seq(NoteNumbers) /\ Len(ids) = n BY <1>1, <1>3, <1>7
<1>9. \A j, k \in 1 .. n : ids[j] = ids[k] => j = k
  BY <1>2, <1>3, <1>4, <1>5, <1>6
<1> QED BY <1>8, <1>9 DEF Once, ids, n

LEMMA StartImportKeeps ==
    ASSUME ImportIInv, NEW source \in Directories, StartImport(source)
    PROVE  ImportIInv'
<1>1. source \in Sources BY FilesAssumption DEF Sources
<1>2. NotesThere \in SUBSET NoteNumbers BY DEF NotesThere
<1>3. import' = [NoImport EXCEPT !.at = "checking", !.source = source, !.existing = NotesThere]
      /\ UNCHANGED notes
  BY DEF StartImport
<1>4. PICK p \in ImportShapes : p = NoImport /\ p.saved = {}
  <2>1. NoImport \in ImportShapes /\ NoImport.saved = {}
    BY DEF ImportShapes, NoImport, ImportStages, Sources
  <2> QED BY <2>1
<1>5. import' \in ImportShapes /\ import'.at = "checking" /\ import'.saved = {}
  BY <1>1, <1>2, <1>3, <1>4 DEF ImportShapes, ImportStages
<1> QED BY <1>3, <1>5 DEF ImportIInv

LEMMA CheckImportKeeps == ASSUME ImportIInv, CheckImport PROVE ImportIInv'
<1>1. import \in ImportShapes /\ import.at = "checking" /\ import.saved = {} /\ UNCHANGED notes
  BY DEF ImportIInv, CheckImport
<1>2. CASE import' = [import EXCEPT !.at = "refused"]
  <2>1. import' \in ImportShapes /\ import'.at = "refused" /\ import'.saved = {}
    BY <1>1, <1>2 DEF ImportShapes, ImportStages
  <2> QED BY <1>1, <2>1 DEF ImportIInv
<1>3. ASSUME NEW new \in NewIdentities(import.source),
             ~Conflicts(import.source, import.existing),
             import' = [import EXCEPT !.at = "saving", !.todo = Identified(import.source, new)]
      PROVE  ImportIInv'
  <2> DEFINE todo == Identified(import.source, new)
  <2>1. import.source \in Sources BY <1>1 DEF ImportShapes
  <2>2. todo \in Seq(NoteNumbers) /\ Len(todo) = Len(import.source) /\ Once(todo)
    BY <1>3, <2>1, IdentifiedOnce
  <2>3. import' = [import EXCEPT !.at = "saving", !.todo = todo] BY <1>3
  <2> HIDE DEF todo
  <2>4. import' \in ImportShapes /\ import'.at = "saving" /\ import'.saved = {} /\ import'.todo = todo
        /\ import'.source = import.source
    BY <1>1, <2>2, <2>3 DEF ImportShapes, ImportStages
  <2>5. Cardinality({}) = 0 BY FS_EmptySet
  <2>6. Len(import.source) \in Nat BY <2>1 DEF Sources
  <2> QED BY <1>1, <2>2, <2>4, <2>5, <2>6 DEF ImportIInv
<1> QED BY <1>2, <1>3 DEF CheckImport

LEMMA ImportStepKeeps == ASSUME ImportIInv, ImportStep PROVE ImportIInv'
<1> DEFINE todo == import.todo
<1>1. import \in ImportShapes /\ notes \in [NoteNumbers -> {"none", "other", "import"}]
      /\ import.at = "saving"
  BY DEF ImportIInv, ImportStep
<1>2. /\ Once(todo) /\ \A k \in 1 .. Len(todo) : todo[k] \notin import.saved
      /\ Cardinality(import.saved) + Len(todo) = Len(import.source)
      /\ todo \in Seq(NoteNumbers) /\ import.saved \in SUBSET NoteNumbers
  BY <1>1 DEF ImportIInv, ImportShapes
<1>3. CASE todo # <<>> /\ SaveNext
  <2>1. PICK i \in NoteNumbers, rest \in Seq(NoteNumbers) :
            /\ i = Head(todo) /\ i = todo[1] /\ rest = Tail(todo) /\ Len(rest) = Len(todo) - 1
            /\ \A k \in 1 .. Len(rest) : rest[k] = todo[k + 1]
    <3> HIDE DEF todo
    <3>1. Head(todo) \in NoteNumbers /\ Head(todo) = todo[1] /\ Tail(todo) \in Seq(NoteNumbers)
          /\ Len(Tail(todo)) = Len(todo) - 1
          /\ \A k \in 1 .. Len(Tail(todo)) : Tail(todo)[k] = todo[k + 1]
      BY <1>2, <1>3
    <3> QED BY <3>1
  <2>2. notes' = [notes EXCEPT ![i] = "import"]
        /\ import' = [import EXCEPT !.todo = rest, !.saved = @ \cup {i}]
    BY <1>3, <2>1 DEF SaveNext
  <2>3. notes' \in [NoteNumbers -> {"none", "other", "import"}] BY <1>1, <2>2
  <2>4. import' \in ImportShapes /\ import'.at = "saving" /\ import'.todo = rest
        /\ import'.saved = import.saved \cup {i} /\ import'.source = import.source
    BY <1>1, <2>1, <2>2 DEF ImportShapes
  <2> HIDE DEF todo
  <2>5. Len(todo) \in Nat /\ Len(todo) > 0 /\ Len(rest) \in Nat BY <1>2, <1>3, <2>1
  <2>6. i \notin import.saved BY <1>2, <2>1, <2>5
  <2>7. Once(rest)
    <3> SUFFICES ASSUME NEW j \in 1 .. Len(rest), NEW k \in 1 .. Len(rest), rest[j] = rest[k]
                 PROVE  j = k
      BY DEF Once
    <3>1. j + 1 \in 1 .. Len(todo) /\ k + 1 \in 1 .. Len(todo) /\ todo[j + 1] = todo[k + 1]
      BY <2>1, <2>5
    <3>2. j + 1 = k + 1 BY <1>2, <3>1 DEF Once
    <3> QED BY <3>2
  <2>8. \A k \in 1 .. Len(rest) : rest[k] \notin import.saved \cup {i}
    <3> SUFFICES ASSUME NEW k \in 1 .. Len(rest) PROVE rest[k] \notin import.saved \cup {i}
      OBVIOUS
    <3>1. k + 1 \in 1 .. Len(todo) /\ rest[k] = todo[k + 1] /\ 1 \in 1 .. Len(todo)
      BY <2>1, <2>5
    <3>2. todo[k + 1] # todo[1] BY <1>2, <3>1 DEF Once
    <3> QED BY <1>2, <2>1, <3>1, <3>2
  <2>9. Cardinality(import.saved \cup {i}) = Cardinality(import.saved) + 1
    BY <1>2, <2>6, SavedFinite, FS_AddElement
  <2>10. Cardinality(import.saved \cup {i}) + Len(rest) = Len(import.source)
    BY <1>2, <2>1, <2>5, <2>9, SavedFinite
  <2> QED BY <2>3, <2>4, <2>7, <2>8, <2>10 DEF ImportIInv
<1>4. CASE UNCHANGED notes /\ import' = [import EXCEPT !.at = "failed"]
  <2>1. import' \in ImportShapes /\ import'.at = "failed"
    BY <1>1, <1>4 DEF ImportShapes, ImportStages
  <2> QED BY <1>1, <1>4, <2>1 DEF ImportIInv
<1>5. CASE todo = <<>> /\ UNCHANGED notes /\ import' = [import EXCEPT !.at = "done"]
  <2>1. import' \in ImportShapes /\ import'.at = "done" /\ import'.saved = import.saved
        /\ import'.source = import.source
    BY <1>1, <1>5 DEF ImportShapes, ImportStages
  <2>2. Len(todo) = 0 BY <1>5
  <2>3. Cardinality(import.saved) = Len(import.source) BY <1>2, <2>2, SavedFinite
  <2> QED BY <1>1, <1>5, <2>1, <2>3 DEF ImportIInv
<1> QED BY <1>3, <1>4, <1>5 DEF ImportStep

LEMMA ImportHolds == FilesSpec => []ImportIInv
<1>1. FilesInit => ImportIInv
  <2> SUFFICES ASSUME FilesInit PROVE ImportIInv OBVIOUS
  <2>1. import \in ImportShapes /\ import.at = "off" /\ import.saved = {}
    BY DEF FilesInit, NoImport, ImportShapes, ImportStages, Sources
  <2>2. notes \in [NoteNumbers -> {"none", "other", "import"}] BY DEF FilesInit
  <2> QED BY <2>1, <2>2 DEF ImportIInv
<1>2. ImportIInv /\ [FilesNext]_filesVars => ImportIInv'
  <2> SUFFICES ASSUME ImportIInv, [FilesNext]_filesVars PROVE ImportIInv' OBVIOUS
  <2>1. ASSUME NEW i \in NoteNumbers, NEW who \in {"none", "other"}, OtherChanges(i, who)
        PROVE  ImportIInv'
    BY <2>1 DEF OtherChanges, ImportIInv
  <2>2. CASE StartExport \/ ExportStep \/ UNCHANGED filesVars
    BY <2>2 DEF StartExport, ExportStep, filesVars, ImportIInv
  <2> QED BY <2>1, <2>2, StartImportKeeps, CheckImportKeeps, ImportStepKeeps DEF FilesNext
<1> QED BY <1>1, <1>2, PTL DEF FilesSpec

(* An import that is refused has saved nothing, one that is done has saved *)
(* every file (content_io.rs:56-68, 79-122).                               *)
THEOREM ImportsWhole == FilesSpec => []ImportWhole
<1>1. ImportIInv => ImportWhole BY DEF ImportIInv, ImportWhole
<1> QED BY <1>1, ImportHolds, PTL

-----------------------------------------------------------------------------
(* Theorem ExportsComplete. *)

(* The parts of names: those of titles, and suffixes. *)
Parts == Nat \cup UNION {{TitleOf[i][k] : k \in 1 .. Len(TitleOf[i])} : i \in NoteNumbers}

PlannedFiles == [note : NoteNumbers, title : Seq(Parts), name : Seq(Parts)]

LEMMA TitleParts == \A i \in NoteNumbers : TitleOf[i] \in Seq(Parts)
<1> SUFFICES ASSUME NEW i \in NoteNumbers PROVE TitleOf[i] \in Seq(Parts) OBVIOUS
<1> DEFINE t == TitleOf[i]
<1>1. Len(t) \in Nat /\ t = [k \in 1 .. Len(t) |-> t[k]] BY FilesAssumption
<1>2. \A k \in 1 .. Len(t) : t[k] \in Parts BY DEF Parts
<1> HIDE DEF t
<1>3. t \in Seq(Parts) BY <1>1, <1>2
<1> QED BY <1>3 DEF t

LEMMA FileNameParts ==
    ASSUME NEW title \in Seq(Parts), NEW s \in Nat
    PROVE  FileName(title, s) \in Seq(Parts)
BY DEF FileName, Parts

LEMMA SuffixesDiffer ==
    ASSUME NEW title \in Seq(Parts), NEW s \in Nat, NEW t \in Nat, s # t
    PROVE  FileName(title, s) # FileName(title, t)
<1>1. \A u \in Nat : /\ Append(title, u)[Len(title) + 1] = u
                     /\ Len(Append(title, u)) = Len(title) + 1
  BY DEF Parts
<1>2. Len(title) \in Nat OBVIOUS
<1>3. \A u \in Nat : u # 0 => FileName(title, u) = Append(title, u) BY DEF FileName
<1>4. FileName(title, 0) = title BY DEF FileName
<1>5. CASE s = 0 \/ t = 0 BY <1>1, <1>2, <1>3, <1>4, <1>5
<1>6. CASE s # 0 /\ t # 0 BY <1>1, <1>3, <1>6
<1> QED BY <1>5, <1>6

(* Of more suffixes than there are files one is free. *)
LEMMA AllocatedIsFree ==
    ASSUME NEW title \in Seq(Parts), NEW files \in Seq(PlannedFiles)
    PROVE  /\ AllocatePath(title, files) \in Seq(Parts)
           /\ \A k \in 1 .. Len(files) : files[k].name # AllocatePath(title, files)
<1> DEFINE n == Len(files)
           names == {files[k].name : k \in 1 .. n}
           free == {s \in 0 .. n : FileName(title, s) \notin names}
<1>1. n \in Nat OBVIOUS
<1>2. free # {}
  <2> SUFFICES ASSUME free = {} PROVE FALSE OBVIOUS
  <2>1. \A s \in 0 .. n : \E k \in 1 .. n : files[k].name = FileName(title, s) OBVIOUS
  <2>2. PICK f \in [0 .. n -> 1 .. n] : \A s \in 0 .. n : files[f[s]].name = FileName(title, s)
    <3> DEFINE f == [s \in 0 .. n |-> CHOOSE k \in 1 .. n : files[k].name = FileName(title, s)]
    <3>1. \A s \in 0 .. n : f[s] \in 1 .. n /\ files[f[s]].name = FileName(title, s) BY <2>1
    <3> QED BY <3>1
  <2>3. IsFiniteSet(0 .. n) /\ Cardinality(0 .. n) = n + 1
        /\ IsFiniteSet(1 .. n) /\ Cardinality(1 .. n) = n
    <3> HIDE DEF n
    <3> QED BY <1>1, FS_Interval
  <2>4. Cardinality(1 .. n) < Cardinality(0 .. n) BY <1>1, <2>3
  <2>5. PICK s \in 0 .. n, t \in 0 .. n : s # t /\ f[s] = f[t]
    <3> DEFINE S == 0 .. n
               T == 1 .. n
    <3>1. IsFiniteSet(S) /\ IsFiniteSet(T) /\ Cardinality(T) < Cardinality(S) /\ f \in [S -> T]
      BY <2>3, <2>4
    <3> HIDE DEF S, T
    <3>2. \E s, t \in S : s # t /\ f[s] = f[t] BY <3>1, FS_PigeonHole
    <3> QED BY <3>2 DEF S
  <2>6. FileName(title, s) = FileName(title, t) BY <2>2, <2>5
  <2>7. s \in Nat /\ t \in Nat BY <1>1
  <2> HIDE DEF free, names, n
  <2> QED BY <2>5, <2>6, <2>7, SuffixesDiffer
<1>3. free \subseteq Nat BY <1>1
<1>4. \E s \in free : \A t \in free : s <= t BY <1>2, <1>3, NatLeast
<1>5. PICK s \in free : AllocatePath(title, files) = FileName(title, s) BY <1>4 DEF AllocatePath
<1> QED BY <1>3, <1>5, FileNameParts

(* The snapshot in ascending order. *)
LEMMA SnapshotListed ==
    ASSUME NEW snapshot \in SUBSET NoteNumbers
    PROVE  LET n == Cardinality(snapshot)
               order == CHOOSE list \in [1 .. n -> snapshot] :
                            \A j, k \in 1 .. n : j < k => list[j] < list[k]
           IN  /\ n \in Nat /\ order \in [1 .. n -> snapshot]
               /\ \A j, k \in 1 .. n : j < k => order[j] < order[k]
               /\ \A i \in snapshot : \E k \in 1 .. n : order[k] = i
<1> DEFINE n == Cardinality(snapshot)
           Sorted(list) == \A j, k \in 1 .. n : j < k => list[j] < list[k]
           order == CHOOSE list \in [1 .. n -> snapshot] : Sorted(list)
           Before == {p \in snapshot \X snapshot : p[1] < p[2]}
<1>1. IsFiniteSet(snapshot) /\ n \in Nat BY SavedFinite
<1>2. \A i \in snapshot : i \in Nat /\ i # 0 BY FilesAssumption
<1>3. PICK m \in Nat : \A i \in snapshot : i <= m BY <1>1, <1>2, FiniteBounded
<1>4. snapshot \subseteq 1 .. m BY <1>2, <1>3
<1>5. Orders(Before, snapshot) BY <1>2 DEF Orders
<1>6. PICK s \in [1 .. n -> snapshot] : Lists(s, Before, snapshot)
  <2> HIDE DEF Before
  <2> QED BY <1>4, <1>5, ListingExists
<1>7. Sorted(s) BY <1>6 DEF Lists
<1>8. order \in [1 .. n -> snapshot] /\ Sorted(order)
  <2> HIDE DEF n, Sorted
  <2> QED BY <1>7
<1>9. IsFiniteSet(1 .. n) /\ Cardinality(1 .. n) = n
  <2> HIDE DEF n
  <2> QED BY <1>1, FS_Interval
<1>10. order \in Injection(1 .. n, snapshot)
  <2>1. \A j, k \in 1 .. n : order[j] = order[k] => j = k
    <3> SUFFICES ASSUME NEW j \in 1 .. n, NEW k \in 1 .. n, order[j] = order[k], j # k PROVE FALSE
      OBVIOUS
    <3>1. j < k \/ k < j BY <1>1
    <3>2. order[j] \in Nat /\ order[k] \in Nat BY <1>2, <1>8
    <3>3. order[j] < order[k] \/ order[k] < order[j] BY <1>8, <3>1
    <3> HIDE DEF order
    <3> QED BY <3>2, <3>3
  <2> HIDE DEF order
  <2> QED BY <1>8, <2>1 DEF Injection, IsInjective
<1>11. order \in Surjection(1 .. n, snapshot)
  <2> HIDE DEF order
  <2> QED BY <1>1, <1>9, <1>10, FS_Injection
<1>12. \A i \in snapshot : \E k \in 1 .. n : order[k] = i
  <2> HIDE DEF order
  <2> QED BY <1>11 DEF Surjection
<1> QED BY <1>1, <1>8, <1>12

(* Every note of the snapshot is planned once, each under a name of its own. *)
PlansAll(files, snapshot) ==
    /\ files \in Seq(PlannedFiles)
    /\ \A j, k \in 1 .. Len(files) :
          j # k => files[j].name # files[k].name /\ files[j].note # files[k].note
    /\ {files[k].note : k \in 1 .. Len(files)} = snapshot

LEMMA PlannedAll ==
    ASSUME NEW snapshot \in SUBSET NoteNumbers
    PROVE  PlansAll(Planned(snapshot), snapshot)
<1> DEFINE n == Cardinality(snapshot)
           order == CHOOSE list \in [1 .. n -> snapshot] :
                        \A j, k \in 1 .. n : j < k => list[j] < list[k]
           plan == CHOOSE plan : plan = [k \in 0 .. n |->
                IF k = 0 THEN <<>>
                ELSE Append(plan[k - 1],
                            [note |-> order[k], title |-> TitleOf[order[k]],
                             name |-> AllocatePath(TitleOf[order[k]], plan[k - 1])])]
<1>1. /\ n \in Nat /\ order \in [1 .. n -> snapshot]
      /\ \A j, k \in 1 .. n : j < k => order[j] < order[k]
      /\ \A i \in snapshot : \E k \in 1 .. n : order[k] = i
  BY SnapshotListed
<1>2. Planned(snapshot) = plan[n] BY DEF Planned
<1> HIDE DEF n, order
<1> DEFINE FileOf(k, files) == [note |-> order[k], title |-> TitleOf[order[k]],
                                name |-> AllocatePath(TitleOf[order[k]], files)]
           Planning(f) == \A k \in 0 .. n :
                f[k] = IF k = 0 THEN <<>> ELSE Append(f[k - 1], FileOf(k, f[k - 1]))
<1>3. ASSUME NEW k \in 1 .. n, NEW files \in Seq(PlannedFiles)
      PROVE  FileOf(k, files) \in PlannedFiles
  <2>1. order[k] \in NoteNumbers BY <1>1
  <2>2. TitleOf[order[k]] \in Seq(Parts) BY <2>1, TitleParts
  <2>3. AllocatePath(TitleOf[order[k]], files) \in Seq(Parts) BY <2>2, AllocatedIsFree
  <2> QED BY <2>1, <2>2, <2>3 DEF PlannedFiles
<1>4. \E f \in [0 .. n -> Seq(PlannedFiles)] :
          f = [k \in 0 .. n |-> IF k = 0 THEN <<>> ELSE Append(f[k - 1], FileOf(k, f[k - 1]))]
  <2> DEFINE S == Seq(PlannedFiles)
             F == [p \in (1 .. n) \X S |-> Append(p[2], FileOf(p[1], p[2]))]
  <2>1. \A k \in 1 .. n, files \in S : Append(files, FileOf(k, files)) \in S
    <3> HIDE DEF FileOf
    <3> QED BY <1>3
  <2>2. <<>> \in S OBVIOUS
  <2> HIDE DEF S, FileOf
  <2>3. F \in [(1 .. n) \X S -> S]
        /\ \A k \in 1 .. n, files \in S : F[<<k, files>>] = Append(files, FileOf(k, files))
    BY <2>1
  <2> HIDE DEF F
  <2>4. PICK f \in [0 .. n -> S] : Recurs(f, <<>>, F, n)
    <3>1. ASSUME NEW base \in S PROVE \E f \in [0 .. n -> S] : Recurs(f, base, F, n)
      <4>1. n \in Nat BY <1>1
      <4>2. F \in [(1 .. n) \X S -> S] BY <2>3
      <4> QED BY <4>1, <4>2, RecursionExists
    <3> QED BY <2>2, <3>1
  <2>5. \A k \in 0 .. n : k # 0 =>
            k \in 1 .. n /\ f[k - 1] \in S /\ F[<<k, f[k - 1]>>] = Append(f[k - 1], FileOf(k, f[k - 1]))
    <3> SUFFICES ASSUME NEW k \in 0 .. n, k # 0
                 PROVE  k \in 1 .. n /\ f[k - 1] \in S
                        /\ F[<<k, f[k - 1]>>] = Append(f[k - 1], FileOf(k, f[k - 1]))
      OBVIOUS
    <3>1. k \in 1 .. n /\ k - 1 \in 0 .. n BY <1>1
    <3>2. f[k - 1] \in S BY <3>1
    <3> QED BY <2>3, <3>1, <3>2
  <2>6. f = [k \in 0 .. n |-> IF k = 0 THEN <<>> ELSE Append(f[k - 1], FileOf(k, f[k - 1]))]
    BY <2>4, <2>5 DEF Recurs
  <2> QED BY <2>6 DEF S
<1>5. plan = [k \in 0 .. n |-> IF k = 0 THEN <<>> ELSE Append(plan[k - 1], FileOf(k, plan[k - 1]))]
  BY <1>4
<1> HIDE DEF plan, FileOf
<1>14. \A k \in 0 .. n : k # 0 => plan[k] = Append(plan[k - 1], FileOf(k, plan[k - 1]))
  BY <1>5
<1> DEFINE Good(k) ==
               /\ plan[k] \in Seq(PlannedFiles) /\ Len(plan[k]) = k
               /\ \A j \in 1 .. k : plan[k][j].note = order[j]
               /\ \A j, l \in 1 .. k : j < l => plan[k][j].name # plan[k][l].name
           G == {k \in Nat : k <= n => Good(k)}
<1>6. 0 \in G
  <2>1. plan[0] = <<>> BY <1>1, <1>5
  <2>2. PICK none \in Seq(PlannedFiles) : none = <<>> /\ Len(none) = 0
    <3>1. <<>> \in Seq(PlannedFiles) /\ Len(<<>>) = 0 OBVIOUS
    <3> QED BY <3>1
  <2>3. plan[0] \in Seq(PlannedFiles) /\ Len(plan[0]) = 0 BY <2>1, <2>2
  <2>4. \A j \in 1 .. 0 : FALSE OBVIOUS
  <2>5. Good(0) BY <2>3, <2>4
  <2> HIDE DEF Good
  <2> QED BY <2>5
<1>7. ASSUME NEW k \in Nat, k \in G PROVE k + 1 \in G
  <2> SUFFICES ASSUME k + 1 <= n PROVE Good(k + 1) OBVIOUS
  <2>1. Good(k) /\ k + 1 \in 1 .. n /\ k + 1 \in 0 .. n BY <1>1, <1>7
  <2>2. PICK old \in Seq(PlannedFiles) : old = plan[k] BY <2>1
  <2>3. PICK file \in PlannedFiles : file = FileOf(k + 1, old) BY <1>3, <2>1, <2>2
  <2>4. plan[k + 1] = Append(old, file)
    <3>1. plan[k + 1] = Append(plan[(k + 1) - 1], FileOf(k + 1, plan[(k + 1) - 1]))
      <4>1. PICK m \in 0 .. n : m = k + 1 /\ m # 0 BY <2>1
      <4>2. plan[m] = Append(plan[m - 1], FileOf(m, plan[m - 1])) BY <1>14, <4>1
      <4> QED BY <4>1, <4>2
    <3>2. (k + 1) - 1 = k OBVIOUS
    <3> QED BY <2>2, <2>3, <3>1, <3>2
  <2>5. TitleOf[order[k + 1]] \in Seq(Parts)
    <3>1. order[k + 1] \in NoteNumbers BY <1>1, <2>1
    <3> QED BY <3>1, TitleParts
  <2>6. file.note = order[k + 1] /\ \A j \in 1 .. k : old[j].name # file.name
    <3>1. \A j \in 1 .. Len(old) : old[j].name # AllocatePath(TitleOf[order[k + 1]], old)
      BY <2>5, AllocatedIsFree
    <3> QED BY <2>1, <2>2, <2>3, <3>1 DEF FileOf
  <2> DEFINE new == Append(old, file)
  <2>7. /\ new \in Seq(PlannedFiles) /\ Len(new) = k + 1 /\ new[k + 1] = file
        /\ \A j \in 1 .. k : new[j] = old[j]
    <3>1. Len(old) = k BY <2>1, <2>2
    <3> QED BY <3>1
  <2> HIDE DEF new
  <2>8. \A j \in 1 .. k + 1 : j \in 1 .. k \/ j = k + 1 OBVIOUS
  <2>9. \A j \in 1 .. k + 1 : new[j].note = order[j]
    BY <2>1, <2>2, <2>6, <2>7, <2>8
  <2>10. \A j, l \in 1 .. k + 1 : j < l => new[j].name # new[l].name
    <3> SUFFICES ASSUME NEW j \in 1 .. k + 1, NEW l \in 1 .. k + 1, j < l
                 PROVE  new[j].name # new[l].name
      OBVIOUS
    <3>1. j \in 1 .. k OBVIOUS
    <3>2. CASE l = k + 1 BY <2>6, <2>7, <3>1, <3>2
    <3>3. CASE l \in 1 .. k BY <2>1, <2>2, <2>7, <3>1, <3>3
    <3> QED BY <2>8, <3>2, <3>3
  <2>11. plan[k + 1] = new BY <2>4 DEF new
  <2> QED BY <2>7, <2>9, <2>10, <2>11
<1>8. n \in G
  <2> HIDE DEF G
  <2> QED BY <1>1, <1>6, <1>7, NatInduct
<1>9. Good(n) BY <1>1, <1>8
<1>10. PICK files \in Seq(PlannedFiles) : files = Planned(snapshot) BY <1>2, <1>9
<1>11. /\ Len(files) = n /\ \A j \in 1 .. n : files[j].note = order[j]
       /\ \A j, l \in 1 .. n : j < l => files[j].name # files[l].name
  BY <1>2, <1>9, <1>10
<1>12. \A j, k \in 1 .. n :
          j # k => files[j].name # files[k].name /\ files[j].note # files[k].note
  <2> SUFFICES ASSUME NEW j \in 1 .. n, NEW k \in 1 .. n, j # k
               PROVE  files[j].name # files[k].name /\ files[j].note # files[k].note
    OBVIOUS
  <2>1. j < k \/ k < j BY <1>1
  <2>2. order[j] \in Nat /\ order[k] \in Nat BY <1>1, FilesAssumption
  <2> QED BY <1>1, <1>11, <2>1, <2>2
<1>13. {files[k].note : k \in 1 .. n} = snapshot BY <1>1, <1>11
<1> QED BY <1>10, <1>11, <1>12, <1>13 DEF PlansAll

ExportStages == {"off", "writing", "done", "failed", "refused"}

ExportShapes == [at : ExportStages, snapshot : SUBSET NoteNumbers, files : Seq(PlannedFiles)]

(* Written files and files to write share no name and no note, and have the *)
(* notes of the snapshot between them.                                      *)
Accounts(done, files, snapshot) ==
    /\ \A j, k \in 1 .. Len(files) :
          j # k => files[j].name # files[k].name /\ files[j].note # files[k].note
    /\ \A f, g \in done : f # g => f.note # g.note
    /\ \A f \in done, k \in 1 .. Len(files) :
          f.name # files[k].name /\ f.note # files[k].note
    /\ {f.note : f \in done} \cup {files[k].note : k \in 1 .. Len(files)} = snapshot

ExportIInv ==
    /\ export \in ExportShapes /\ written \in SUBSET PlannedFiles
    /\ export.at \in {"writing", "done"} => Accounts(written, export.files, export.snapshot)
    /\ export.at = "done" => export.files = <<>>

LEMMA StartExportKeeps == ASSUME ExportIInv, StartExport PROVE ExportIInv'
<1>1. export \in ExportShapes /\ written \in SUBSET PlannedFiles /\ written' = written
  BY DEF ExportIInv, StartExport
<1>2. CASE written = {} /\ export' = [at |-> "writing", snapshot |-> NotesThere,
                                      files |-> Planned(NotesThere)]
  <2>1. NotesThere \in SUBSET NoteNumbers BY DEF NotesThere
  <2>2. PlansAll(Planned(NotesThere), NotesThere) BY <2>1, PlannedAll
  <2>3. PICK snapshot \in SUBSET NoteNumbers, files \in Seq(PlannedFiles) :
            snapshot = NotesThere /\ files = Planned(NotesThere) /\ PlansAll(files, snapshot)
    BY <2>1, <2>2 DEF PlansAll
  <2>4. export' \in ExportShapes /\ export'.at = "writing" /\ export'.files = files
        /\ export'.snapshot = snapshot
    BY <1>2, <2>3 DEF ExportShapes, ExportStages
  <2>5. Accounts({}, files, snapshot) BY <2>3 DEF Accounts, PlansAll
  <2> QED BY <1>1, <1>2, <2>4, <2>5 DEF ExportIInv
<1>3. CASE export' = [NoExport EXCEPT !.at = "refused"]
  <2>1. NoExport \in ExportShapes
    <3>1. <<>> \in Seq(PlannedFiles) OBVIOUS
    <3> QED BY <3>1 DEF NoExport, ExportShapes, ExportStages
  <2>2. PICK p \in ExportShapes : p = NoExport BY <2>1
  <2>3. export' \in ExportShapes /\ export'.at = "refused"
    BY <1>3, <2>2 DEF ExportShapes, ExportStages
  <2> QED BY <1>1, <2>3 DEF ExportIInv
<1> QED BY <1>2, <1>3 DEF StartExport

LEMMA ExportStepKeeps == ASSUME ExportIInv, ExportStep PROVE ExportIInv'
<1> DEFINE files == export.files
<1>1. export \in ExportShapes /\ written \in SUBSET PlannedFiles /\ export.at = "writing"
  BY DEF ExportIInv, ExportStep
<1>2. /\ files \in Seq(PlannedFiles) /\ export.snapshot \in SUBSET NoteNumbers
      /\ Accounts(written, files, export.snapshot)
  BY <1>1 DEF ExportIInv, ExportShapes
<1>3. CASE /\ files # <<>>
           /\ written' = {f \in written : f.name # Head(files).name} \cup {Head(files)}
           /\ export' = [export EXCEPT !.files = Tail(@)]
  <2>1. PICK file \in PlannedFiles, rest \in Seq(PlannedFiles) :
            /\ file = Head(files) /\ file = files[1] /\ rest = Tail(files)
            /\ Len(rest) = Len(files) - 1
            /\ \A k \in 1 .. Len(rest) : rest[k] = files[k + 1]
    <3> HIDE DEF files
    <3>1. Head(files) \in PlannedFiles /\ Head(files) = files[1] /\ Tail(files) \in Seq(PlannedFiles)
          /\ Len(Tail(files)) = Len(files) - 1
          /\ \A k \in 1 .. Len(Tail(files)) : Tail(files)[k] = files[k + 1]
      BY <1>2, <1>3
    <3> QED BY <3>1
  <2>2. export' = [export EXCEPT !.files = rest] BY <1>3, <2>1
  <2>3. export' \in ExportShapes /\ export'.at = "writing" /\ export'.files = rest
        /\ export'.snapshot = export.snapshot
    BY <1>1, <2>1, <2>2 DEF ExportShapes
  <2> HIDE DEF files
  <2>4. Len(files) \in Nat /\ Len(files) > 0 /\ Len(rest) \in Nat BY <1>2, <1>3, <2>1
  <2>5. 1 \in 1 .. Len(files)
        /\ \A k \in 1 .. Len(rest) : k + 1 \in 1 .. Len(files) /\ k + 1 # 1
    BY <2>1, <2>4
  <2>6. written' = written \cup {file} BY <1>2, <1>3, <2>1, <2>5 DEF Accounts
  <2>7. \A j, k \in 1 .. Len(rest) :
            j # k => rest[j].name # rest[k].name /\ rest[j].note # rest[k].note
    <3> SUFFICES ASSUME NEW j \in 1 .. Len(rest), NEW k \in 1 .. Len(rest), j # k
                 PROVE  rest[j].name # rest[k].name /\ rest[j].note # rest[k].note
      OBVIOUS
    <3>1. j + 1 # k + 1 BY <2>4
    <3>2. rest[j] = files[j + 1] /\ rest[k] = files[k + 1] BY <2>1
    <3> QED BY <1>2, <2>5, <3>1, <3>2 DEF Accounts
  <2>8. \A f \in written' : f \in written \/ f = file BY <2>6
  <2>9. \A f \in written : f.note # file.note BY <1>2, <2>1, <2>5 DEF Accounts
  <2>10. \A f, g \in written' : f # g => f.note # g.note
    BY <1>2, <2>8, <2>9 DEF Accounts
  <2>11. \A f \in written', k \in 1 .. Len(rest) : f.name # rest[k].name /\ f.note # rest[k].note
    <3> SUFFICES ASSUME NEW f \in written', NEW k \in 1 .. Len(rest)
                 PROVE  f.name # rest[k].name /\ f.note # rest[k].note
      OBVIOUS
    <3>1. rest[k] = files[k + 1] BY <2>1
    <3>2. CASE f \in written BY <1>2, <2>5, <3>1, <3>2 DEF Accounts
    <3>3. CASE f = file BY <1>2, <2>1, <2>5, <3>1, <3>3 DEF Accounts
    <3> QED BY <2>8, <3>2, <3>3
  <2>12. {f.note : f \in written'} \cup {rest[k].note : k \in 1 .. Len(rest)} = export.snapshot
    <3>1. {files[k].note : k \in 1 .. Len(files)}
              = {file.note} \cup {rest[k].note : k \in 1 .. Len(rest)}
      <4>1. ASSUME NEW k \in 1 .. Len(files)
            PROVE  files[k] = file \/ \E j \in 1 .. Len(rest) : files[k] = rest[j]
        <5>1. CASE k = 1 BY <2>1, <5>1
        <5>2. CASE k # 1
          <6>1. k - 1 \in 1 .. Len(rest) /\ (k - 1) + 1 = k BY <2>1, <2>4, <5>2
          <6> QED BY <2>1, <6>1
        <5> QED BY <5>1, <5>2
      <4>2. ASSUME NEW j \in 1 .. Len(rest)
            PROVE  \E k \in 1 .. Len(files) : rest[j] = files[k]
        BY <2>1, <2>5
      <4>3. \E k \in 1 .. Len(files) : file = files[k] BY <2>1, <2>5
      <4> DEFINE old == {files[k].note : k \in 1 .. Len(files)}
                 new == {file.note} \cup {rest[k].note : k \in 1 .. Len(rest)}
      <4>4. \A n \in old : n \in new BY <4>1
      <4>5. \A n \in new : n \in old BY <4>2, <4>3
      <4> HIDE DEF old, new
      <4>6. old = new BY <4>4, <4>5
      <4> QED BY <4>6 DEF old, new
    <3>2. {f.note : f \in written'} = {f.note : f \in written} \cup {file.note} BY <2>6
    <3> QED BY <1>2, <3>1, <3>2 DEF Accounts
  <2>13. Accounts(written', rest, export.snapshot) BY <2>7, <2>10, <2>11, <2>12 DEF Accounts
  <2>14. written' \in SUBSET PlannedFiles BY <1>1, <2>1, <2>6
  <2> QED BY <2>3, <2>13, <2>14 DEF ExportIInv
<1>4. CASE written' = written /\ export' = [export EXCEPT !.at = "failed"]
  <2>1. export' \in ExportShapes /\ export'.at = "failed"
    BY <1>1, <1>4 DEF ExportShapes, ExportStages
  <2> QED BY <1>1, <1>4, <2>1 DEF ExportIInv
<1>5. CASE files = <<>> /\ written' = written /\ export' = [export EXCEPT !.at = "done"]
  <2>1. export' \in ExportShapes /\ export'.at = "done" /\ export'.files = files
        /\ export'.snapshot = export.snapshot
    BY <1>1, <1>5 DEF ExportShapes, ExportStages
  <2> HIDE DEF files
  <2> QED BY <1>1, <1>2, <1>5, <2>1 DEF ExportIInv
<1> QED BY <1>3, <1>4, <1>5 DEF ExportStep

LEMMA ExportAccounted == ExportIInv => ExportComplete
<1> SUFFICES ASSUME ExportIInv, export.at = "done"
             PROVE  /\ {f.note : f \in written} = export.snapshot
                    /\ Cardinality(written) = Cardinality(export.snapshot)
  BY DEF ExportComplete
<1>1. /\ export \in ExportShapes /\ export.files = <<>>
      /\ Accounts(written, export.files, export.snapshot)
  BY DEF ExportIInv
<1>2. Len(export.files) = 0 BY <1>1
<1>3. {export.files[k].note : k \in 1 .. Len(export.files)} = {} BY <1>2
<1>4. {f.note : f \in written} = export.snapshot BY <1>1, <1>3 DEF Accounts
<1>5. IsFiniteSet(export.snapshot) BY <1>1, SavedFinite DEF ExportShapes
<1> DEFINE S == export.snapshot
           W == written
           notesOf == [f \in W |-> f.note]
<1>6. notesOf \in Injection(W, S) /\ notesOf \in Surjection(W, S)
  <2>1. notesOf \in [W -> S] /\ \A i \in S : \E f \in W : notesOf[f] = i BY <1>4
  <2>2. \A f, g \in W : notesOf[f] = notesOf[g] => f = g BY <1>1 DEF Accounts
  <2> HIDE DEF notesOf, W, S
  <2> QED BY <2>1, <2>2 DEF Injection, IsInjective, Surjection
<1>7. Cardinality(W) = Cardinality(S)
  <2>1. IsFiniteSet(S) BY <1>5
  <2> HIDE DEF notesOf, W, S
  <2> QED BY <1>6, <2>1, FS_Injection
<1> QED BY <1>4, <1>7

LEMMA ExportHolds == FilesSpec => []ExportIInv
<1>1. FilesInit => ExportIInv
  <2> SUFFICES ASSUME FilesInit PROVE ExportIInv OBVIOUS
  <2>1. <<>> \in Seq(PlannedFiles) OBVIOUS
  <2>2. export \in ExportShapes /\ export.at = "off"
    BY <2>1 DEF FilesInit, NoExport, ExportShapes, ExportStages
  <2>3. written \in SUBSET PlannedFiles BY DEF FilesInit
  <2> QED BY <2>2, <2>3 DEF ExportIInv
<1>2. ExportIInv /\ [FilesNext]_filesVars => ExportIInv'
  <2> SUFFICES ASSUME ExportIInv, [FilesNext]_filesVars PROVE ExportIInv' OBVIOUS
  <2>1. ASSUME UNCHANGED <<export, written>> PROVE ExportIInv' BY <2>1 DEF ExportIInv
  <2>2. ASSUME NEW source \in Directories, StartImport(source) PROVE UNCHANGED <<export, written>>
    BY <2>2 DEF StartImport
  <2>3. ASSUME NEW i \in NoteNumbers, NEW who \in {"none", "other"}, OtherChanges(i, who)
        PROVE  UNCHANGED <<export, written>>
    BY <2>3 DEF OtherChanges
  <2>4. CASE CheckImport \/ ImportStep \/ UNCHANGED filesVars
    <3>1. UNCHANGED <<export, written>> BY <2>4 DEF CheckImport, ImportStep, filesVars
    <3> QED BY <2>1, <3>1
  <2> QED BY <2>1, <2>2, <2>3, <2>4, StartExportKeeps, ExportStepKeeps DEF FilesNext
<1> QED BY <1>1, <1>2, PTL DEF FilesSpec

(* An export that is done has exactly one file for each note there was when *)
(* it started, whatever the titles are (content_io.rs:124-190, 264-281).    *)
THEOREM ExportsComplete == FilesSpec => []ExportComplete
BY ExportHolds, ExportAccounted, PTL


(* Each client shows one behaviour or none, and time does not go back. *)
ConfigTypes ==
    /\ wall \in Nat /\ rewrites \in BOOLEAN
    /\ \A c \in Editors : tool[c].shown = {} \/ \E b : tool[c].shown = {b}

LEMMA ConfigTypesStep ==
    ASSUME ConfigIInv, ConfigTypes, [ConfigNext]_configVars PROVE ConfigTypes'
<1>0. tool \in [Editors -> ToolStates]
  BY DEF ConfigIInv, HeldIInv, ConfigShapes
<1>1. /\ wall \in Nat /\ rewrites \in BOOLEAN
      /\ \A c \in Editors : tool[c].shown = {} \/ \E b : tool[c].shown = {b}
  BY DEF ConfigTypes
<1>2. ASSUME NEW c \in Editors, Behave(c)
      PROVE  /\ wall' \in Nat /\ rewrites' \in BOOLEAN
             /\ \E b : tool' = [tool EXCEPT ![c].at = "open", ![c].shown = {b}]
  <2> DEFINE b == Behavior(held[c], tool[c].plugins)
  <2>1. tool' = [tool EXCEPT ![c].at = "open", ![c].shown = {b}]
    BY <1>2 DEF Behave
  <2> HIDE DEF b
  <2>2. wall' \in Nat
    <3>1. UNCHANGED wall \/ wall' = wall + 1
      <4>1. IF MustPersist(held[c])
            THEN PutConfig(c, Persisted(Behavior(held[c], tool[c].plugins), tool[c].plugins), TRUE)
            ELSE UNCHANGED <<held, wall, rewrites>>
        BY <1>2 DEF Behave
      <4> QED BY <4>1 DEF PutConfig
    <3> QED BY <1>1, <3>1
  <2>3. rewrites' = rewrites \/ \E q \in BOOLEAN : rewrites' = (rewrites \/ q)
    <3>1. rewrites' = rewrites \/ rewrites' = (rewrites \/ (held[c] # {} /\ unsettled[c] = held[c]))
      BY <1>2 DEF Behave
    <3> DEFINE q == held[c] # {} /\ unsettled[c] = held[c]
    <3>2. q \in BOOLEAN
      OBVIOUS
    <3> QED BY <3>1, <3>2, Zenon
  <2>4. rewrites' \in BOOLEAN
    BY <1>1, <2>3, Zenon
  <2> QED BY <2>1, <2>2, <2>4
<1>3. ASSUME NEW c \in Editors,
             \/ tool' = [tool EXCEPT ![c] = Closed] \/ UNCHANGED tool
             \/ \E s : tool' = [tool EXCEPT ![c].at = s]
             \/ \E p : tool' = [tool EXCEPT ![c] = [Closed EXCEPT !.at = "starting", !.plugins = p]]
             \/ \E b : tool' = [tool EXCEPT ![c].at = "open", ![c].shown = {b}]
      PROVE  \A d \in Editors : tool'[d].shown = {} \/ \E b : tool'[d].shown = {b}
  <2> TAKE d \in Editors
  <2>0. tool[d].shown = {} \/ \E b : tool[d].shown = {b}
    BY <1>1
  <2>1. CASE tool' = [tool EXCEPT ![c] = Closed]
    BY <1>0, <2>0, <2>1 DEF Closed
  <2>2. CASE UNCHANGED tool
    BY <2>0, <2>2
  <2>3. ASSUME NEW s, tool' = [tool EXCEPT ![c].at = s] PROVE tool'[d].shown = tool[d].shown
    BY <1>0, <2>3 DEF ToolStates
  <2>4. ASSUME NEW p,
               tool' = [tool EXCEPT ![c] = [Closed EXCEPT !.at = "starting", !.plugins = p]]
        PROVE  tool'[d].shown = {} \/ tool'[d].shown = tool[d].shown
    BY <1>0, <2>4 DEF Closed
  <2>5. ASSUME NEW b, tool' = [tool EXCEPT ![c].at = "open", ![c].shown = {b}]
        PROVE  tool'[d].shown = {b} \/ tool'[d].shown = tool[d].shown
    BY <1>0, <2>5 DEF ToolStates
  <2> QED BY <1>3, <2>0, <2>1, <2>2, <2>3, <2>4, <2>5
<1>4. ASSUME NEW c \in Editors, FirstLoad(c) \/ RefreshTool(c) PROVE ConfigTypes'
  <2>1. CASE Behave(c)
    BY <1>2, <1>3, <2>1 DEF ConfigTypes
  <2>2. CASE ~Behave(c)
    <3>1. /\ UNCHANGED <<wall, rewrites>>
          /\ \/ tool' = [tool EXCEPT ![c] = Closed]
             \/ \E s : tool' = [tool EXCEPT ![c].at = s]
      BY <1>4, <2>2 DEF FirstLoad, RefreshTool
    <3> QED BY <1>1, <1>3, <3>1 DEF ConfigTypes
  <2> QED BY <2>1, <2>2
<1>5. ASSUME NEW c \in Editors, StartTool(c) \/ NoticeWrite(c) \/ QuitTool(c) PROVE ConfigTypes'
  <2>1. /\ UNCHANGED <<wall, rewrites>>
        /\ \/ tool' = [tool EXCEPT ![c] = Closed] \/ \E s : tool' = [tool EXCEPT ![c].at = s]
           \/ \E p : tool' = [tool EXCEPT ![c] = [Closed EXCEPT !.at = "starting", !.plugins = p]]
    BY <1>5 DEF StartTool, NoticeWrite, QuitTool
  <2> QED BY <1>1, <1>3, <2>1 DEF ConfigTypes
<1>6. ASSUME NEW c \in Editors, EditConfig(c) PROVE ConfigTypes'
  <2>1. /\ wall' \in Nat /\ UNCHANGED rewrites
        /\ tool' = [tool EXCEPT ![c] = Closed] \/ \E s : tool' = [tool EXCEPT ![c].at = s]
    <3>1. PICK content \in Drafts : SaveConfig(c, content)
      BY <1>6 DEF EditConfig
    <3>2. UNCHANGED rewrites
      BY <1>6 DEF EditConfig
    <3>3. /\ wall' = wall + 1 \/ wall' = wall
          /\ \/ tool' = [tool EXCEPT ![c] = Closed]
             \/ tool' = [tool EXCEPT ![c].at = "starting"]
      BY <3>1, Zenon DEF SaveConfig, PutConfig
    <3> QED BY <1>1, <3>2, <3>3
  <2> QED BY <1>1, <1>3, <2>1 DEF ConfigTypes
<1>7. ASSUME NEW c \in Editors, SendConfigs(c) \/ ReceiveConfigs(c) PROVE ConfigTypes'
  <2>1. /\ UNCHANGED <<wall, rewrites>>
        /\ UNCHANGED tool \/ \E s : tool' = [tool EXCEPT ![c].at = s]
    BY <1>7 DEF SendConfigs, ReceiveConfigs
  <2> QED BY <1>1, <1>3, <2>1 DEF ConfigTypes
<1>8. CASE UNCHANGED <<tool, wall, rewrites>>
  BY <1>1, <1>8 DEF ConfigTypes
<1> QED
  BY <1>4, <1>5, <1>6, <1>7, <1>8 DEF ConfigNext, PluginCommand, configVars

LEMMA ConfigTyped == ConfigSpec => []ConfigTypeOK
<1>1. ConfigInit => ConfigTypes
  <2> SUFFICES ASSUME ConfigInit PROVE ConfigTypes
    OBVIOUS
  <2>1. wall = 1 /\ rewrites = FALSE /\ \A c \in Editors : tool[c] = Closed
    BY DEF ConfigInit
  <2>2. Closed.shown = {}
    BY DEF Closed
  <2> QED BY <2>1, <2>2 DEF ConfigTypes
<1>2. ConfigIInv /\ ConfigTypes /\ [ConfigNext]_configVars => ConfigTypes'
  BY ConfigTypesStep
<1>3. ConfigIInv /\ ConfigTypes => ConfigTypeOK
  <2> SUFFICES ASSUME ConfigIInv, ConfigTypes PROVE ConfigTypeOK
    OBVIOUS
  <2>1. ConfigShapes
    BY DEF ConfigIInv, HeldIInv
  <2>2. \A c \in Editors : Cardinality(tool[c].shown) <= 1
    <3>1. Cardinality({}) = 0 /\ \A b : Cardinality({b}) = 1
      BY FS_EmptySet, FS_Singleton
    <3> TAKE c \in Editors
    <3>2. CASE tool[c].shown = {}
      BY <3>1, <3>2
    <3>3. ASSUME NEW b, tool[c].shown = {b} PROVE Cardinality(tool[c].shown) <= 1
      BY <3>1, <3>3
    <3> QED BY <3>2, <3>3 DEF ConfigTypes
  <2> QED BY <2>1, <2>2 DEF ConfigShapes, ConfigTypes, ConfigTypeOK, Sites, ToolStates
<1> QED BY ConfigInitIInv, ConfigStep, <1>1, <1>2, <1>3, PTL DEF ConfigSpec

LEMMA PluginTyped == PluginSpec => []PluginTypeOK
<1>1. PluginIInv => PluginTypeOK
  BY DEF PluginIInv
<1> QED BY PluginInitIInv, PluginStep, <1>1, PTL DEF PluginSpec

(* What a watcher is told to expect: a file, a deletion or nothing. *)
Expectations == [Paths -> Renderings \cup {Deleted, NoFile}]

LEMMA ExpectTyped ==
    ASSUME PassIInv, expected \in Expectations, [ProjectionNext]_projectionVars
    PROVE  expected' \in Expectations
<1>1. \A path, e : expected' = [expected EXCEPT ![path] = e] /\ e \in Renderings \cup {Deleted, NoFile}
          => expected' \in Expectations
  BY DEF Expectations
<1>2. \A f \in FileOrNone : f.text \in Renderings \cup {Deleted, NoFile}
  BY DEF FileOrNone, File
<1>3. pass \in PassShapes /\ (pass.at = "write" => pass.id \in Ids)
  BY DEF PassIInv
<1>4. CASE CheckDesired
  <2>1. pass.todo \in SUBSET Ids /\ pass.todo # {}
    BY <1>3, <1>4 DEF CheckDesired, PassShapes
  <2>2. pass.want[Min(pass.todo)].text \in Renderings \cup {Deleted, NoFile}
    BY <1>2, <1>3, <2>1, LeastTodo DEF PassShapes
  <2> QED BY <1>1, <1>4, <2>2 DEF CheckDesired, Expect
<1>5. CASE CheckObsolete \/ RemoveFile \/ WriteFile
  BY <1>1, <1>5 DEF CheckObsolete, RemoveFile, WriteFile, Expect
<1> QED
  BY <1>4, <1>5 DEF ProjectionNext, PassStep, StartPass, StartWriting, PersistManifest,
      RecordChanges, PersonEdits, ProjectionCrash, projectionVars

LEMMA ProjectionTyped == ProjectionSpec => []ProjectionTypeOK
<1>1. ProjectionInit => expected \in Expectations
  BY DEF ProjectionInit, Expectations
<1>2. PassIInv /\ expected \in Expectations /\ [ProjectionNext]_projectionVars
          => (expected \in Expectations)'
  BY ExpectTyped
<1>3. PassIInv /\ expected \in Expectations => ProjectionTypeOK
  BY DEF PassIInv, PassShapes, Expectations, ProjectionTypeOK
<1> QED BY ProjectionStarts, PassNext, <1>1, <1>2, <1>3, PTL DEF ProjectionSpec

LEMMA FilesTyped == FilesSpec => []FilesTypeOK
<1>1. ImportIInv /\ ExportIInv => FilesTypeOK
  <2> SUFFICES ASSUME ImportIInv, ExportIInv PROVE FilesTypeOK
    OBVIOUS
  <2>1. import \in ImportShapes /\ export \in ExportShapes /\ written \in SUBSET PlannedFiles
    BY DEF ImportIInv, ExportIInv
  <2>2. import.todo \in Seq(NoteNumbers)
    BY <2>1 DEF ImportShapes
  <2>3. \A k \in DOMAIN import.todo : import.todo[k] \in NoteNumbers
    BY <2>2
  <2>4. ToSet(import.todo) \subseteq NoteNumbers
    BY <2>3 DEF ToSet
  <2>5. \A file \in written : file.note \in NoteNumbers
    BY <2>1 DEF PlannedFiles
  <2> QED
    BY <2>1, <2>4, <2>5
       DEF ImportIInv, ImportShapes, ImportStages, ExportShapes, ExportStages, FilesTypeOK
<1> QED BY ImportHolds, ExportHolds, <1>1, PTL
=============================================================================
