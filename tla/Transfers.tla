------------------------------ MODULE Transfers ------------------------------
(***************************************************************************)
(* One acquisition of a candidate file: the routing fetcher and its HTTPS, *)
(* S3 and local delegates (adapters/content_fetchers), bound to a          *)
(* configuration (ports/content_fetcher.py), and the consumers: a capture  *)
(* (application/documents.py), which keeps the bytes and then checks them, *)
(* and a generation read (adapters/generation_source.py), which retries a  *)
(* transient answer.  The remote side is free: it redirects, refuses,      *)
(* answers late, cuts a body, sends too much, and replaces the object.     *)
(*                                                                         *)
(* An object version is a number; its bytes are Size[v] chunks marked v.   *)
(* What was received is the sequence of the marks of its chunks, so equal  *)
(* sequences stand for equal digests.                                      *)
(***************************************************************************)
EXTENDS Integers, Sequences, FiniteSets, FiniteSetsExt

CONSTANTS
    Unstated,
    Versions,       \* versions of the object, replaced in increasing order
    Size,           \* [Versions -> Nat]: chunks of each
    Urls,           \* locators; the candidate names Start
    Start,
    Allowed,        \* the locators on configured hosts
    MaxRedirects,
    Attempts,       \* _RETRY_ATTEMPTS of a generation read
    MaxBytes,       \* the caller's limit, in chunks
    MaxObject,      \* max_object_bytes of the routing fetcher, in chunks
    MaxDrifts       \* bound on changes of the configuration

ASSUME VersionAssumption ==
    /\ Versions \subseteq Nat /\ Versions # {}
    /\ Size \in [Versions -> Nat]

ASSUME FetchAssumption ==
    /\ Start \in Urls
    /\ Attempts \in Nat \ {0}
    /\ MaxRedirects \in Nat /\ MaxBytes \in Nat /\ MaxObject \in Nat

VARIABLES
    now,            \* the version at the source
    drift,          \* changes of the fetcher's configuration so far
    call,           \* the acquisition
    stored          \* byte sequences in the blob store

tvars == <<now, drift, call, stored>>

(* RoutingContentFetcher.fetch: the smaller of the two limits.             *)
Allowance == Min({MaxBytes, MaxObject})

Whole(v) == [i \in 1..Size[v] |-> v]
Counts == 0..(Max({Size[v] : v \in Versions}) + 1)

Candidates ==
    [scheme: {"https", "s3", "local"}, size: {Unstated} \cup {Size[v] : v \in Versions},
     digest: {Unstated} \cup {Whole(v) : v \in Versions}, pin: {Unstated} \cup Versions,
     tries: {1, Attempts}]

Ended == {"captured", "refused"}
At(pc) == call.pc = pc
Opened == call.open > 0
Moves(c) == call' = c /\ UNCHANGED <<now, drift, stored>>

(* Every way out of an opened response closes it, whether the fetcher      *)
(* refuses, the iterator raises or FetchStream.close runs.                 *)
Closing(c) == [c EXCEPT !.open = 0]
Refused(c) == [Closing(c) EXCEPT !.pc = "refused"]
Judge(ok, c) == IF ok THEN c ELSE Refused(c)

Fits(n) == n <= Allowance
Agrees(n) == call.cand.size \in {Unstated, n}

-----------------------------------------------------------------------------
(* Opening.                                                                *)

(* BoundContentFetcher.fetch and RoutingContentFetcher.fetch: dispatch by  *)
(* scheme; an expected size beyond the limit refuses before any request.   *)
FirstPc(cand) ==
    CASE cand.scheme = "https" -> "request"
      [] cand.scheme = "s3" -> IF cand.pin = Unstated THEN "head" ELSE "get"
      [] OTHER -> "stat"

Begin(cand) ==
    /\ At("idle")
    /\ cand.scheme = "s3" /\ cand.pin # Unstated => cand.size = Size[cand.pin]
    /\ LET c == [call EXCEPT !.pc = FirstPc(cand), !.cand = cand, !.config = drift,
                             !.version = cand.pin]
       IN  Moves(Judge(cand.size = Unstated \/ Fits(cand.size), c))

(* HttpsContentFetcher.fetch, the redirect loop: bounded in number, kept   *)
(* to allowed hosts and never to a locator already visited.                *)
MayFollow(u) == call.redirects < MaxRedirects /\ u \in Allowed \ call.visited

RefuseRedirect == Refused([call EXCEPT !.open = @ + 1])

Redirect(u) ==
    /\ At("request")
    /\ LET c == [call EXCEPT !.redirects = @ + 1,
                             !.visited = @ \cup {u}]
       IN  Moves(IF MayFollow(u) THEN c ELSE RefuseRedirect)

(* Variant: the last attempt is retried as well.                           *)
MayRetryAlways == call.cand.tries > 1

(* A 429 or 5xx answer: a capture fails, a generation read starts over a   *)
(* bounded number of times; nothing was handed to the caller yet.          *)
MayRetry == call.attempt < call.cand.tries

Busy ==
    /\ At("request")
    /\ LET c == Closing([call EXCEPT !.open = @ + 1])
       IN  Moves(IF MayRetry THEN [c EXCEPT !.attempt = Min({@ + 1, Attempts}),
                                            !.redirects = 0, !.visited = {Start}]
                             ELSE Refused(c))

(* A connection failure, a 404 or another status.                          *)
Decline ==
    /\ call.pc \in {"request", "head", "get", "stat"}
    /\ \E n \in {0, 1} : Moves(Refused([call EXCEPT !.open = @ + n]))

(* A 200 answer: the declared length must fit the limit and the candidate. *)
Answer(declared) ==
    /\ At("request")
    /\ LET c == [call EXCEPT !.open = @ + 1, !.pc = "bind", !.declared = declared, !.source = now]
       IN  Moves(Judge(declared = Unstated \/ (Fits(declared) /\ Agrees(declared)), c))

(* AnonymousS3ContentFetcher: an unpinned candidate is observed first, and *)
(* the GET is conditional on the observed version.                         *)
Observe ==
    /\ At("head")
    /\ Moves(Judge(Agrees(Size[now]) /\ Fits(Size[now]), [call EXCEPT !.pc = "get", !.version = now]))

Get ==
    /\ At("get")
    /\ IF now # call.version \/ ~ Fits(Size[call.version])
       THEN Moves(Refused(call))
       ELSE Moves([call EXCEPT !.open = @ + 1, !.pc = "bind", !.source = now,
                               !.declared = Size[now]])

(* LocalFileContentFetcher: the status of the file, before it is opened.   *)
Stat ==
    /\ At("stat")
    /\ LET c == [call EXCEPT !.pc = "bind", !.source = now, !.declared = Size[now],
                             !.version = IF @ = Unstated THEN now ELSE @]
       IN  Moves(Judge(Fits(Size[now]) /\ Agrees(Size[now]), c))

(* The configuration is read again after the delegate answered; a fetcher  *)
(* that changed meanwhile has its stream closed.                           *)
Bind ==
    /\ At("bind")
    /\ Moves(Judge(drift = call.config, [call EXCEPT !.pc = "stream"]))

-----------------------------------------------------------------------------
(* Streaming into the blob store.                                          *)

Local == call.cand.scheme = "local"

(* A local file is opened by the first read, which compares its status     *)
(* with the first one.                                                     *)
OpenFile ==
    /\ At("stream") /\ Local /\ ~ Opened
    /\ Moves(Judge(now = call.source, [call EXCEPT !.open = @ + 1]))

(* The next chunk: of the object the response was opened on, or of the     *)
(* file as it is now.  Each delegate counts against the limit; HTTPS also  *)
(* against the expected size and S3 against the observed one.              *)
Overruns(n) ==
    \/ ~ Fits(n)
    \/ call.cand.scheme = "https" /\ call.cand.size # Unstated /\ n > call.cand.size
    \/ call.cand.scheme = "s3" /\ n > call.declared

Chunk ==
    LET n == Len(call.got) + 1
    IN  /\ At("stream") /\ Opened
        /\ Local => n <= Size[now]
        /\ Moves(Judge(~ Overruns(n),
                       [call EXCEPT !.got = Append(@, IF Local THEN now ELSE call.source)]))

(* Variant: the file's status is not read again after its last chunk.      *)
CompleteOnce ==
    LET n == Len(call.got)
    IN  CASE call.cand.scheme = "https" -> call.declared \in {Unstated, n} /\ Agrees(n)
          [] OTHER -> n = call.declared

(* The body ended: truncation, a size that differs from the candidate's,   *)
(* or a file that changed while it was read refuses.                       *)
Complete ==
    LET n == Len(call.got)
    IN  CASE call.cand.scheme = "https" -> call.declared \in {Unstated, n} /\ Agrees(n)
          [] call.cand.scheme = "s3" -> n = call.declared
          [] OTHER -> n = call.declared /\ now = call.source

End ==
    /\ At("stream") /\ Opened
    /\ Local => Len(call.got) >= Size[now]
    /\ Moves(Judge(Complete, Closing([call EXCEPT !.pc = "store"])))

(* The connection breaks, or the consumer gives up before or during the    *)
(* read: FetchStream.close releases the response once.                     *)
Break == call.pc \in {"bind", "stream"} /\ Moves(Refused(call))

(* session.retain_bytes, then the comparison with the candidate's digest   *)
(* and size: bytes that differ stay in the store, unreferenced.            *)
Store ==
    /\ At("store")
    /\ stored' = stored \cup {call.got}
    /\ call' = Judge(/\ call.cand.digest \in {Unstated, call.got}
                     /\ Agrees(Len(call.got)), [call EXCEPT !.pc = "captured"])
    /\ UNCHANGED <<now, drift>>

-----------------------------------------------------------------------------
(* The surroundings.                                                       *)

Replace ==
    /\ now + 1 \in Versions
    /\ now' = now + 1
    /\ UNCHANGED <<drift, call, stored>>

Reconfigure ==
    /\ drift < MaxDrifts
    /\ drift' = drift + 1
    /\ UNCHANGED <<now, call, stored>>

NoCall ==
    [pc |-> "idle", cand |-> Unstated, config |-> 0, open |-> 0,
     redirects |-> 0, visited |-> {Start}, attempt |-> 1, declared |-> Unstated,
     source |-> Unstated, version |-> Unstated, got |-> <<>>]

TransfersInit ==
    /\ now = Min(Versions) /\ drift = 0 /\ stored = {}
    /\ call = NoCall

Proceed ==
    \/ \E u \in Urls : Redirect(u)
    \/ \E n \in {Unstated} \cup Counts : Answer(n)
    \/ Busy \/ Decline \/ Observe \/ Get \/ Stat \/ Bind
    \/ OpenFile \/ Chunk \/ End \/ Break \/ Store

TransfersNext ==
    \/ \E cand \in Candidates : Begin(cand)
    \/ Proceed
    \/ Replace \/ Reconfigure

TransfersSpec == TransfersInit /\ [][TransfersNext]_tvars

(* The remote side answers or a timeout of the client fires.               *)
TransfersFairness == WF_tvars(Proceed)

-----------------------------------------------------------------------------
(* Captured bytes are what their record says: within the allowance, of the *)
(* expected digest and size and of the declared length, and from S3 or the *)
(* local root one whole version of the object, the one recorded as the     *)
(* transport version, though the object was replaced between the           *)
(* observation, the request, the chunks and the end.                       *)
CapturedExact ==
    At("captured") =>
        /\ Fits(Len(call.got)) /\ Agrees(Len(call.got))
        /\ call.declared \in {Unstated, Len(call.got)}
        /\ call.cand.digest \in {Unstated, call.got}
        /\ call.got \in stored
        /\ call.cand.scheme # "https" => call.got = Whole(call.source)
        /\ call.cand.scheme = "s3" \/ (Local /\ call.cand.pin = Unstated) =>
                call.version = call.source

(* Every response or file an acquisition opened is closed when it ended:   *)
(* over redirects, retries, refusals, a stream closed before its first     *)
(* chunk and a break in the middle.                                        *)
HandlesReleased == call.pc \in Ended => call.open = 0

(* An acquisition ends whatever the remote side answers: redirects,        *)
(* retries and the bytes of one body are all bounded.                      *)
TransferEnds == (call.pc # "idle") ~> (call.pc \in Ended)

(* An acquisition keeps exactly the bytes the source held and closes what  *)
(* it opened.                                                              *)
TransferExact == CapturedExact /\ HandlesReleased
=============================================================================
