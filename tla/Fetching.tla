------------------------------ MODULE Fetching ------------------------------
(***************************************************************************)
(* What a fetch brings (pkg/downloader: downloader.go, fetch_http.go,      *)
(* internal.go; pkg/engine/geoloc_synthetic.go): over HTTP, from a local   *)
(* file, or from a provider inside the program.  A body is what it says    *)
(* and its size; a fault is the first step that goes wrong.                *)
(*                                                                         *)
(* The second half follows a source and its reference file through time:   *)
(* the reference's date is the source's, and the next request asks for     *)
(* what is newer than it.                                                  *)
(***************************************************************************)
EXTENDS Integers, Sequences, FiniteSets

Bodies   == [says : {"old", "new"}, size : 0 .. 4]
NoBody0  == [says |-> "nothing", size |-> 0]
DefaultMaxDownloadSize == 3
Unlimited == -1

\* maxSize of a request: 0 is the default, -1 none.
Requests ==
  [way : {"http", "file", "internal"}, limit : {Unlimited, 0, 2}, acceptEmpty : BOOLEAN,
   reference : Bodies \cup {NoBody0}]
FaultsOf(way) == {"none", "open", "tmp", "copy", "close"}
                   \cup (IF way = "http" THEN {"status"} ELSE {})
                   \cup (IF way = "internal" THEN {"provider"} ELSE {})

TooLarge(req, size) ==
  LET limit == IF req.limit = 0 THEN DefaultMaxDownloadSize ELSE req.limit
  IN limit # Unlimited /\ size > limit

Outcome(status, body, temp) == [status |-> status, body |-> body, temp |-> temp]
Failed == Outcome("failed", NoBody0, FALSE)
Aborted == Outcome("error", NoBody0, FALSE)

Compared(req, body) ==
  IF req.reference = body THEN Outcome("same", body, FALSE) ELSE Outcome("ok", body, TRUE)

\* The body is copied to a temporary file, which is removed again unless it is
\* the result.
StreamBody(req, body, fault) ==
  CASE fault = "tmp"                            -> Aborted
    [] fault = "copy"                           -> Failed
    [] TooLarge(req, body.size)                 -> Failed
    [] fault = "close"                          -> Aborted
    [] body.size = 0 /\ ~req.acceptEmpty        -> Failed
    [] OTHER                                    -> Compared(req, body)

FetchHTTP(req, body, modified, fault) ==
  CASE fault = "open"   -> Failed
    [] fault = "status" -> Failed
    [] ~modified        -> Outcome("not_modified", NoBody0, FALSE)
    [] OTHER            -> StreamBody(req, body, fault)

FetchLocal(req, body, fault) == IF fault = "open" THEN Failed ELSE StreamBody(req, body, fault)

\* fetchInternal: a provider may say that its inputs are not newer; it knows no
\* limit, and the file is only made for a body that is new.
FetchInternal(req, body, modified, fault) ==
  CASE fault \in {"open", "provider"}     -> Failed
    [] ~modified                          -> Outcome("same", NoBody0, FALSE)
    [] body.size = 0 /\ ~req.acceptEmpty  -> Failed
    [] req.reference = body               -> Outcome("same", body, FALSE)
    [] fault \in {"tmp", "copy", "close"} -> Aborted
    [] OTHER                              -> Outcome("ok", body, TRUE)

Fetch(req, body, modified, fault) ==
  CASE req.way = "http"     -> FetchHTTP(req, body, modified, fault)
    [] req.way = "file"     -> FetchLocal(req, body, fault)
    [] req.way = "internal" -> FetchInternal(req, body, modified, fault)

\* A fetch leaves a file if and only if it has a new body for its caller, whatever
\* went wrong; a body is only taken whole, within the limit and not empty; and it
\* counts as the same only if the reference says so.
ASSUME NothingLeftBehind ==
  \A req \in Requests : \A body \in Bodies : \A modified \in BOOLEAN : \A fault \in FaultsOf(req.way) :
    LET got == Fetch(req, body, modified, fault) IN
    /\ got.temp = (got.status = "ok")
    /\ got.status = "ok" =>
         /\ got.body = body /\ req.reference # body /\ fault = "none"
         /\ body.size > 0 \/ req.acceptEmpty
         /\ req.way # "internal" /\ req.limit # Unlimited
              => body.size <= (IF req.limit = 0 THEN DefaultMaxDownloadSize ELSE req.limit)
    /\ got.status = "same" => ~modified \/ req.reference = body

(***************************************************************************)
(* The options of a curl command, as far as they are understood: words of  *)
(* an option, of an option with its value behind an equals sign, and of    *)
(* anything else.  A value is the place of its word.                       *)
(***************************************************************************)
Named4 == {"data", "request", "referer", "user"}
Words  == [opt : Named4 \cup {"header"}, joined : BOOLEAN] \cup [opt : {"other"}, joined : {FALSE}]

RECURSIVE ParseOptions(_, _, _)
ParseOptions(words, i, out) ==
  IF i > Len(words) THEN out
  ELSE LET w == words[i] IN
       IF w.joined THEN ParseOptions(words, i + 1, IF w.opt \in Named4 THEN [out EXCEPT ![w.opt] = i] ELSE out)
       ELSE IF w.opt = "other" THEN ParseOptions(words, i + 1, out)
       ELSE IF i = Len(words) THEN out
       ELSE ParseOptions(words, i + 2, [out EXCEPT ![w.opt] = i + 1])

NoOptions == [o \in Named4 \cup {"header"} |-> 0]
Method(out) == IF out["request"] # 0 THEN "given" ELSE IF out["data"] # 0 THEN "POST" ELSE "GET"
Commands == UNION {[1 .. n -> Words] : n \in 0 .. 3}

\* No word is both an option and a value, the last of equal options counts, and a
\* request with data is a POST unless a method is given.  A header behind an
\* equals sign is not understood.
ASSUME OptionsRead ==
  \A words \in Commands :
    LET out == ParseOptions(words, 1, NoOptions) IN
    /\ \A o, p \in DOMAIN out : o # p /\ out[o] # 0 => out[o] # out[p]
    /\ \A o \in Named4 : words # <<>> /\ (\A i \in 1 .. Len(words) : words[i].joined)
         => out[o] = IF \E i \in 1 .. Len(words) : words[i].opt = o
                     THEN CHOOSE i \in 1 .. Len(words) :
                            words[i].opt = o /\ \A j \in i + 1 .. Len(words) : words[j].opt # o
                     ELSE 0
    /\ Method(out) = "POST" => out["data"] # 0 /\ out["request"] = 0
ASSUME JoinedHeaderIgnored == ParseOptions(<<[opt |-> "header", joined |-> TRUE]>>, 1, NoOptions) = NoOptions

(***************************************************************************)
(* A source over time.  The server replaces its body, whose date is of     *)
(* whole seconds; the client asks for what is newer than its reference,    *)
(* which it dates as the answer was.  A server that does not date its      *)
(* answers leaves the client with its own clock, which may be ahead.       *)
(***************************************************************************)
LastSecond == 3

Servers == [dates : BOOLEAN, ahead : {0, 1}, conditional : BOOLEAN]

\* now; the server's body (a version), its date; the reference and its date.
Started == [now |-> 1, body |-> 1, date |-> 1, ref |-> 0, refDate |-> 0, fresh |-> FALSE,
            changes |-> 0, crowded |-> FALSE, back |-> FALSE]

Replaces(w, date) ==
  [w EXCEPT !.body = @ + 1, !.date = date, !.changes = @ + 1, !.fresh = FALSE,
            !.crowded = @ \/ date = w.date, !.back = @ \/ date < w.date]

\* applyConditionalHeaders, the server's answer and responseModifiedTime
Asks(w, server) ==
  LET answer304 == server.conditional /\ w.ref # 0 /\ w.date <= w.refDate
  IN IF answer304 THEN [w EXCEPT !.fresh = TRUE]
     ELSE [w EXCEPT !.ref = w.body, !.fresh = TRUE,
                    !.refDate = IF server.dates THEN w.date ELSE w.now + server.ahead]

SourceSteps(w, server) ==
  {Asks(w, server)}
    \cup {Replaces(w, date) : date \in IF w.changes < 2 THEN {w.now, w.now - 1} \ {0} ELSE {}}
    \cup {[w EXCEPT !.now = @ + 1] : n \in IF w.now < LastSecond THEN {1} ELSE {}}

RECURSIVE SourceStates(_, _, _)
SourceStates(server, seen, new) ==
  IF new = {} THEN seen
  ELSE LET all == seen \cup new
       IN SourceStates(server, all, UNION {SourceSteps(w, server) : w \in new} \ all)
SourceHistories(server) == SourceStates(server, {}, {Started})

\* After a fetch with nothing replaced since, the reference is the source's body:
\* if nothing is asked conditionally, or if every body is dated later than the
\* one before it and answers are dated.
ASSUME FetchedIsCurrent ==
  \A server \in Servers : \A w \in SourceHistories(server) :
    w.fresh /\ (~server.conditional \/ (server.dates /\ ~w.crowded /\ ~w.back)) => w.ref = w.body

\* A second body in the same second, one with an earlier date, and a source that
\* does not date its answers are missed for as long as nothing else is published;
\* the last even if the clocks agree.
Misses(w) == w.fresh /\ w.ref # w.body
ASSUME DatesMiss ==
  /\ \E w \in SourceHistories([dates |-> TRUE, ahead |-> 0, conditional |-> TRUE]) : Misses(w) /\ ~w.back
  /\ \E w \in SourceHistories([dates |-> TRUE, ahead |-> 0, conditional |-> TRUE]) : Misses(w) /\ ~w.crowded
  /\ \E w \in SourceHistories([dates |-> FALSE, ahead |-> 0, conditional |-> TRUE]) :
       Misses(w) /\ ~w.crowded /\ ~w.back

(***************************************************************************)
(* The synthetic sources are made of the databases of all providers.  A    *)
(* database has the date its publisher gave it and is there when it was    *)
(* downloaded; the body made of them has the time its fetch began.  A      *)
(* fetch makes a new one if some database is dated after that.             *)
(***************************************************************************)
Databases == {"p", "q"}
LastTime   == 4

Quiet == [now |-> 1, published |-> [p \in Databases |-> 1], there |-> [p \in Databases |-> 1],
          made |-> [p \in Databases |-> 1], date |-> 1, began |-> 0, reading |-> [p \in Databases |-> 0],
          settled |-> FALSE, late |-> FALSE]

NewestDate(there) == CHOOSE t \in {there[p] : p \in Databases} : \A p \in Databases : there[p] <= t

PublishDB(w, p)  == [w EXCEPT !.published[p] = w.now]
\* late: what is downloaded was published before the last body was begun.
DownloadDB(w, p) == [w EXCEPT !.there[p] = w.published[p], !.settled = FALSE,
                              !.late = @ \/ (w.published[p] # w.there[p]
                                               /\ w.published[p] <= (IF w.began # 0 THEN w.began ELSE w.date))]
BeginSynthetic(w) ==
  IF NewestDate(w.there) <= w.date THEN [w EXCEPT !.settled = TRUE]
  ELSE [w EXCEPT !.began = w.now, !.reading = w.there, !.settled = FALSE]
EndSynthetic(w) ==
  [w EXCEPT !.made = w.reading, !.date = w.began, !.began = 0,
            !.reading = [p \in Databases |-> 0], !.settled = w.there = w.reading]

SyntheticSteps(w) ==
  {PublishDB(w, p) : p \in Databases}
    \cup {DownloadDB(w, p) : p \in Databases}
    \cup (IF w.began = 0 THEN {BeginSynthetic(w)} ELSE {EndSynthetic(w)})
    \cup {[w EXCEPT !.now = @ + 1] : n \in IF w.now < LastTime THEN {1} ELSE {}}

RECURSIVE SyntheticStates(_, _)
SyntheticStates(seen, new) ==
  IF new = {} THEN seen
  ELSE LET all == seen \cup new
       IN SyntheticStates(all, UNION {SyntheticSteps(w) : w \in new} \ all)
Syntheses == SyntheticStates({}, {Quiet})

\* If every database is downloaded before another body is begun, the body that a
\* fetch leaves is made of the databases there are, even those that came while it
\* was being made.
ASSUME SyntheticFollows == \A w \in Syntheses : w.settled /\ ~w.late => w.made = w.there

\* A database that was published before the body was begun and downloaded after
\* it is never asked for.
ASSUME SyntheticMisses == \E w \in Syntheses : w.settled /\ w.made # w.there

=============================================================================
