------------------------------- MODULE UrlFetch -------------------------------
(***************************************************************************)
(* The URL fetcher worker: UrlFetcher.fetch follows redirects by itself,   *)
(* resolving every host anew, checking all of its addresses, and           *)
(* connecting to the first of them; the handler stores what it read as a   *)
(* snapshot, and a job that failed is fetched again.                       *)
(*                                                                         *)
(* Names and servers are the world: what a host resolves to may change at  *)
(* any time.  Sizes are in chunks; time is the number of ticks since the   *)
(* fetch began.                                                            *)
(***************************************************************************)
EXTENDS Naturals, Sequences, FiniteSets

CONSTANTS
    Hosts, Addresses,
    Forbidden,          \* addresses of the private and the configured ranges
    MaxRedirects,       \* 5 in the code
    MaxChunks,          \* max_response_bytes
    TotalTimeout,       \* total_timeout_seconds
    MaxChanges,         \* bound: changes of the DNS
    FetchAttempts       \* max_attempts of the job

VARIABLES
    dns,        \* what each host resolves to
    changes,
    fetch,      \* the fetch in progress
    dialled,    \* ghost: the connections of this fetch, as [hop, to]
    checked,    \* ghost: the addresses that passed the check at each hop
    snapshots,  \* ghost: the sizes of the snapshots stored
    attempts, clock

fetchVars == <<dns, changes, fetch, dialled, checked, snapshots, attempts, clock>>

NewFetch(h) == [step |-> "resolve", url |-> h, chain |-> <<>>, pinned |-> {}, chunks |-> 0,
                outcome |-> "none"]

FetchInit ==
    /\ dns \in [Hosts -> SUBSET Addresses]
    /\ changes = 0
    /\ \E h \in Hosts : fetch = NewFetch(h)
    /\ dialled = {} /\ checked = [hop \in 0..MaxRedirects |-> {}]
    /\ snapshots = {} /\ attempts = 0 /\ clock = 0

DnsChanges ==
    /\ changes < MaxChanges /\ changes' = changes + 1
    /\ \E h \in Hosts, a \in SUBSET Addresses : dns' = [dns EXCEPT ![h] = a]
    /\ UNCHANGED <<fetch, dialled, checked, snapshots, attempts, clock>>

Tick ==
    /\ clock <= TotalTimeout /\ clock' = clock + 1
    /\ UNCHANGED <<dns, changes, fetch, dialled, checked, snapshots, attempts>>

Hop == Len(fetch.chain)
At(step) == fetch.step = step
Ends(outcome) == fetch' = [fetch EXCEPT !.step = "ended", !.outcome = outcome]

\* Checked before each hop and after each chunk.
TimedOut == clock > TotalTimeout

\* mutant: one good address is enough
AnyAllowed(h) == dns[h] \ Forbidden # {}

\* validate_all: one forbidden address forbids the host.
AllAllowed(h) == dns[h] # {} /\ dns[h] \cap Forbidden = {}

Resolve ==
    /\ At("resolve")
    /\ \/ TimedOut /\ Ends("retryable") /\ UNCHANGED checked
       \/ /\ ~TimedOut /\ AllAllowed(fetch.url)
          /\ \E a \in dns[fetch.url] : fetch' = [fetch EXCEPT !.step = "request", !.pinned = {a}]
          /\ checked' = [checked EXCEPT ![Hop] = dns[fetch.url] \ Forbidden]
       \/ ~TimedOut /\ ~AllAllowed(fetch.url) /\ Ends("for good") /\ UNCHANGED checked
       \/ ~TimedOut /\ Ends("retryable") /\ UNCHANGED checked
    /\ UNCHANGED <<dns, changes, dialled, snapshots, attempts, clock>>

\* The request goes to the pinned address, the host only in its headers.
Dials == fetch.pinned

Request ==
    /\ At("request")
    /\ \E a \in Dials : dialled' = dialled \cup {[hop |-> Hop, to |-> a]}
    /\ fetch' \in {[fetch EXCEPT !.step = "answer"],
                   [fetch EXCEPT !.step = "ended", !.outcome = "retryable"]}
    /\ UNCHANGED <<dns, changes, checked, snapshots, attempts, clock>>

OutOfRedirects == Hop >= MaxRedirects

Answered ==
    /\ At("answer")
    /\ \/ \E h \in Hosts :     \* a redirect
            IF OutOfRedirects THEN Ends("for good")
            ELSE fetch' = [fetch EXCEPT !.step = "resolve", !.url = h, !.pinned = {},
                               !.chain = Append(@, [from |-> fetch.url, to |-> h])]
       \/ Ends("for good")     \* no Location, another scheme, 4xx
       \/ Ends("retryable")    \* 5xx
       \/ fetch' = [fetch EXCEPT !.step = "read"]
    /\ UNCHANGED <<dns, changes, dialled, checked, snapshots, attempts, clock>>

TooLarge == fetch.chunks >= MaxChunks

ReadChunk ==
    /\ At("read")
    /\ IF TimedOut THEN Ends("retryable")
       ELSE IF TooLarge THEN Ends("for good")
       ELSE fetch' = [fetch EXCEPT !.chunks = @ + 1]
    /\ fetch.chunks <= MaxChunks    \* bound
    /\ UNCHANGED <<dns, changes, dialled, checked, snapshots, attempts, clock>>

ReadFails ==
    /\ At("read") /\ Ends("retryable")
    /\ UNCHANGED <<dns, changes, dialled, checked, snapshots, attempts, clock>>

ReadEnds ==
    /\ At("read") /\ fetch' = [fetch EXCEPT !.step = "store"]
    /\ UNCHANGED <<dns, changes, dialled, checked, snapshots, attempts, clock>>

\* handle: the key is made of the day, the content's hash and the host.
StoreSnapshot ==
    /\ At("store")
    /\ \/ /\ snapshots' = snapshots \cup {fetch.chunks}
          /\ fetch' \in {[fetch EXCEPT !.step = "ended", !.outcome = "stored"],
                         [fetch EXCEPT !.step = "ended", !.outcome = "retryable"]}
       \/ Ends("retryable") /\ UNCHANGED snapshots
    /\ UNCHANGED <<dns, changes, dialled, checked, attempts, clock>>

\* The job is taken again, from its own URL.
FetchAgain ==
    /\ At("ended") /\ fetch.outcome = "retryable" /\ attempts + 1 < FetchAttempts
    /\ attempts' = attempts + 1
    /\ fetch' = NewFetch(IF fetch.chain = <<>> THEN fetch.url ELSE Head(fetch.chain).from)
    /\ dialled' = {} /\ checked' = [hop \in DOMAIN checked |-> {}] /\ clock' = 0
    /\ UNCHANGED <<dns, changes, snapshots>>

FetchNext ==
    \/ DnsChanges \/ Tick \/ Resolve \/ Request \/ Answered
    \/ ReadChunk \/ ReadFails \/ ReadEnds \/ StoreSnapshot \/ FetchAgain

FetchSpec == FetchInit /\ [][FetchNext]_fetchVars

-----------------------------------------------------------------------------
(* Properties                                                              *)

\* Whatever the DNS answers between the check and the connection, a
\* connection goes to an address that passed the check of its own hop, and
\* not to a host one of whose addresses is forbidden.
DialsWhatWasChecked ==
    \A d \in dialled : d.to \in checked[d.hop] /\ d.to \notin Forbidden

\* A fetch ends: no server makes it connect more often than the redirects
\* allow, or keep more than the limit, whatever the attempt.
FetchIsBounded ==
    /\ Hop <= MaxRedirects
    /\ \A size \in snapshots : size <= MaxChunks
=============================================================================
