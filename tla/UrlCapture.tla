------------------------------ MODULE UrlCapture ------------------------------
(* Capturing a page by its URL (xo-core/src/url_capture.rs), for POST /api/items and    *)
(* the capture actions of a session.                                                    *)
(*                                                                                      *)
(* Names resolve to other addresses at every lookup, servers redirect as they like and   *)
(* send bodies of any length in chunks.  Parsing and conversion to Markdown are left     *)
(* out: a page is readable or not.                                                       *)
EXTENDS Naturals, FiniteSets

CONSTANTS
    Hosts,         \* names a URL can have; a literal address is a name of itself
    Addresses,     \* network addresses
    Public,        \* is_public_ip: those that may be contacted
    MaxRedirects,  \* MAX_REDIRECTS
    MaxBody,       \* MAX_BODY_BYTES
    Chunks         \* lengths of chunks

ASSUME CaptureAssumption ==
    /\ Public \subseteq Addresses
    /\ MaxRedirects \in Nat /\ MaxBody \in Nat /\ Chunks \subseteq Nat

Urls == [host : Hosts \cup Addresses, web : BOOLEAN, credentials : BOOLEAN]

VARIABLES
    fetch,      \* the capture under way
    contacted,  \* addresses requests went to
    outcome     \* how the last capture ended

captureVars == <<fetch, contacted, outcome>>

NoFetch == [at |-> "idle"]
CaptureEnds(why) == fetch' = NoFetch /\ outcome' = why

-----------------------------------------------------------------------------
\* validate_url: http or https, no credentials, and a literal address must be public.
ValidUrl(url) == /\ url.web /\ ~url.credentials
                 /\ url.host \in Addresses => url.host \in Public

\* What a lookup of a host can return: a literal address resolves to itself.
Resolutions(host) == IF host \in Addresses THEN {{host}} ELSE SUBSET Addresses

\* capture: the URL is validated before anything is requested.
Capture(url) ==
    /\ fetch = NoFetch
    /\ IF ValidUrl(url)
       THEN /\ fetch' = [at |-> "resolve", url |-> url, hops |-> 0, pinned |-> {}, got |-> 0]
            /\ UNCHANGED outcome
       ELSE CaptureEnds("invalid")
    /\ UNCHANGED contacted

\* One address that may be contacted is enough.
Resolve_Some ==
    /\ fetch.at = "resolve"
    /\ \E found \in Resolutions(fetch.url.host) :
          IF found \cap Public # {}
          THEN /\ fetch' = [fetch EXCEPT !.at = "request", !.pinned = found]
               /\ UNCHANGED outcome
          ELSE CaptureEnds("refused")
    /\ UNCHANGED contacted

\* pinned_client: every address the host resolves to must be public; the request will use
\* these addresses and no other lookup.
Resolve ==
    /\ fetch.at = "resolve"
    /\ \E found \in Resolutions(fetch.url.host) :
          IF found # {} /\ found \subseteq Public
          THEN /\ fetch' = [fetch EXCEPT !.at = "request", !.pinned = found]
               /\ UNCHANGED outcome
          ELSE CaptureEnds("refused")
    /\ UNCHANGED contacted

\* One redirect more than the limit is followed.
FetchRequest_OneMore ==
    /\ fetch.at = "request"
    /\ \E to \in Urls :
          IF fetch.hops <= MaxRedirects /\ ValidUrl(to)
          THEN /\ fetch' = [fetch EXCEPT !.at = "resolve", !.url = to,
                                         !.hops = @ + 1, !.pinned = {}]
               /\ UNCHANGED outcome
          ELSE CaptureEnds("redirect")
    /\ UNCHANGED contacted

\* The request goes to one of the pinned addresses; a redirect is validated and followed
\* up to the limit, any other unsuccessful answer ends the capture.
FetchRequest ==
    /\ fetch.at = "request"
    /\ \E a \in fetch.pinned : contacted' = contacted \cup {a}
    /\ \/ \E to \in Urls :
            IF fetch.hops < MaxRedirects /\ ValidUrl(to)
            THEN /\ fetch' = [fetch EXCEPT !.at = "resolve", !.url = to,
                                           !.hops = @ + 1, !.pinned = {}]
                 /\ UNCHANGED outcome
            ELSE CaptureEnds("redirect")
       \/ /\ fetch' = [fetch EXCEPT !.at = "body"]
          /\ UNCHANGED outcome
       \/ CaptureEnds("status")

\* read_limited: a chunk that would pass the limit ends the capture.
ReadChunk ==
    /\ fetch.at = "body"
    /\ \E n \in Chunks :
          IF fetch.got + n > MaxBody THEN CaptureEnds("too large")
          ELSE /\ fetch' = [fetch EXCEPT !.got = @ + n]
               /\ UNCHANGED outcome
    /\ UNCHANGED contacted

\* The body is complete; the content must be HTML that can be read.
Extract ==
    /\ fetch.at = "body"
    /\ \/ CaptureEnds("captured") \/ CaptureEnds("unreadable") \/ CaptureEnds("connection")
    /\ UNCHANGED contacted

CaptureInit == fetch = NoFetch /\ contacted = {} /\ outcome = "none"

CaptureNext == \/ \E url \in Urls : Capture(url)
               \/ Resolve \/ FetchRequest \/ ReadChunk \/ Extract

CaptureSpec == CaptureInit /\ [][CaptureNext]_captureVars
-----------------------------------------------------------------------------
(* Properties *)

\* The limits hold of every capture: redirects followed and bytes kept.
CaptureTypeOK ==
    /\ fetch # NoFetch => /\ fetch.url \in Urls /\ fetch.pinned \subseteq Addresses
                         /\ fetch.hops <= MaxRedirects /\ fetch.got <= MaxBody
    /\ contacted \subseteq Addresses

\* Whatever a name resolves to at each lookup and wherever servers redirect, only public
\* addresses are contacted: "revalidates redirects" and the pinned addresses
\* (url_capture.rs:98-160).
OnlyPublicContacted == contacted \subseteq Public
=============================================================================
