------------------------------ MODULE Processors ------------------------------
(***************************************************************************)
(* The pipelines that turn what a source served into one entry per line    *)
(* (pkg/processor).  Most steps exist twice: one reads the whole text in   *)
(* memory, one filters a stream line by line; a pipeline is cut into       *)
(* segments of one kind, each of which writes a file for the next.         *)
(*                                                                         *)
(* A text is a sequence of tokens: addresses of four and of six, masks,    *)
(* words, punctuation and line ends.  A word stands for two characters or  *)
(* more, every other token but addresses and masks for one.                *)
(***************************************************************************)
EXTENDS SequencesExt, FiniteSets

LF == "lf"
CR == "cr"
BOM == "bom"
IPs == {"a", "b"}
IPv6s == {"c"}
Blanks == {" ", LF, CR}

(***************************************************************************)
(* Pieces of a line.                                                       *)
(***************************************************************************)
Split(line, at) ==
  FoldLeft(LAMBDA parts, t : IF t \in at THEN Append(parts, <<>>)
                             ELSE [parts EXCEPT ![Len(parts)] = Append(@, t)],
           << <<>> >>, line)
Filled(parts) == SelectSeq(parts, LAMBDA p : p # <<>>)
Fields(line) == Filled(Split(line, Blanks))
Spaced(words) == IF words = <<>> THEN <<>>
                 ELSE FoldLeft(LAMBDA l, w : l \o <<" ">> \o w, Head(words), Tail(words))
Trim(line, ends) ==
  LET kept == {i \in DOMAIN line : line[i] \notin ends}
  IN IF kept = {} THEN <<>> ELSE SubSeq(line, Min(kept), Max(kept))
TrimSpace(line) == Trim(line, Blanks)
Before(line, t) == Split(line, {t})[1]
TrimSuffix(line, t) == IF line # <<>> /\ Last(line) = t THEN Front(line) ELSE line

\* splitLines and joinLines, and the byte order mark they drop.
StripBOM(text) == IF text # <<>> /\ Head(text) = BOM THEN Tail(text) ELSE text
SplitLines(text) ==
  LET t == StripBOM(text)
      shown == SelectSeq([i \in DOMAIN t |-> i], LAMBDA i : ~(t[i] = CR /\ i < Len(t) /\ t[i + 1] = LF))
  IN Split([k \in DOMAIN shown |-> t[shown[k]]], {LF, CR})
Ended(lines) == FoldLeft(LAMBDA text, l : text \o l \o <<LF>>, <<>>, lines)
CleanLines(lines) == Filled([i \in DOMAIN lines |-> TrimSpace(lines[i])])
JoinLines(lines) == Ended(CleanLines(lines))

(***************************************************************************)
(* The steps, by the entries they make of one line.                        *)
(***************************************************************************)
StepNames == {"remove_comments", "trim", "grep", "grep_not", "cut_delimiter", "append_slash32",
          "remove_slash32", "filter_ip4", "filter_net4", "filter_all4", "torproject_exits"}
SixNames == {"append_slash128", "remove_slash128", "filter_ip6", "filter_net6", "filter_all6",
          "filter_invalid4", "filter_net4", "filter_all4"}

\* A mask of /128 is none of four bytes; the others are masks of both.
Masks == {"/0", "/8", "/32", "/128"}
IsIP(line)   == Len(line) = 1 /\ line[1] \in IPs
IsIP6(line)  == Len(line) = 1 /\ line[1] \in IPv6s
IsNet(line)  == Len(line) = 2 /\ line[1] \in IPs /\ line[2] \in Masks \ {"/128"}
IsNet6(line) == Len(line) = 2 /\ line[1] \in IPv6s /\ line[2] \in Masks
Kept(line, condition) == IF line # <<>> /\ condition THEN <<line>> ELSE <<>>
Verdict(step, line) ==
  CASE step = "filter_ip4"  -> Kept(line, IsIP(line))
    [] step = "filter_net4" ->
         Kept(line, (IsNet(line) \/ IsNet6(line)) /\ Last(line) \notin {"/32", "/0"})
    [] step = "filter_ip6"  -> Kept(line, IsIP6(line))
    [] step = "filter_net6" -> Kept(line, IsNet6(line))

RemoveComments(line) == Kept(Spaced(Fields(Before(line, "#"))), TRUE)
TrimLine(line)       == Kept(Spaced(Fields(line)), TRUE)
Grep(line, invert)   == Kept(line, invert # ("w" \in Range(line)))
RewriteSuffix(line, mask) == Kept(TrimSuffix(TrimSpace(line), mask), TRUE)
AppendSlash(line, mask) ==
  IF Fields(line) = <<>> THEN <<>>
  ELSE LET value == Fields(line)[1]
       IN << IF Range(value) \cap (Masks \cup {"/"}) # {} THEN value ELSE Append(value, mask) >>
FilterInvalid4(line) ==
  LET trimmed == TrimSpace(line)
  IN Kept(trimmed, trimmed # <<"0.0.0.0">> /\ (trimmed # <<>> => Last(trimmed) # "/0"))
TorprojectExits(line) ==
  LET words == Fields(line) IN IF Len(words) >= 2 /\ words[1] = <<"w">> THEN <<words[2]>> ELSE <<>>

\* The second field of a comma separated line, where the code takes any.
CutField == 2
CutDelimiter(line) ==
  LET parts == Split(line, {","})
  IN IF CutField > Len(parts) THEN <<>> ELSE Kept(TrimSpace(parts[CutField]), TRUE)

(***************************************************************************)
(* Formats of lines.  The parsers of rules, of blocks and of columns see   *)
(* lines without their comments.                                           *)
(***************************************************************************)
Commented   == {"snort_rules", "pix_deny_rules", "dshield_format", "dataplane_column3"}
FormatNames == Commented \cup {"subnet_to_cidr", "p2p_blocklist", "p2p_blocklist_proxy"}

FirstOf(line, t) == SelectInSeq(line, LAMBDA x : x = t)

\* The list in the first brackets of an alert.
SnortRules(line) ==
  LET start == FirstOf(line, "[")
      end   == FirstOf(line, "]")
  IN IF IsPrefix(<<"alert", " ">>, line) /\ start # 0 /\ end > start
       THEN CleanLines(Split(SubSeq(line, start + 1, end - 1), {","})) ELSE <<>>

\* The host or the net of a rule that denies, the first in the line.
PixDenyRules(line) ==
  LET fields == Fields(line)
      first(words) ==
        LET at == {i \in 2 .. Len(fields) - Len(words) : SubSeq(fields, i, i + Len(words) - 1) = words}
        IN IF at = {} THEN 0 ELSE Min(at)
      net  == first(<< <<"deny">>, <<"ip">> >>)
      host == first(<< <<"deny">>, <<"ip">>, <<"host">> >>)
  IN CASE Len(fields) < 7 \/ fields[1] # <<"access-list">> \/ net = 0 -> <<>>
       [] host # 0 -> <<fields[host + 3]>>
       [] net + 3 <= Len(fields) -> <<fields[net + 2] \o <<"/">> \o fields[net + 3]>>
       [] OTHER -> <<>>

\* The first and the third column, of lines that begin with an address.
DshieldFormat(line) ==
  LET fields == Fields(line)
  IN IF Len(fields) >= 3 /\ Head(fields[1]) \in IPs
       THEN <<fields[1] \o <<"/">> \o fields[3]>> ELSE <<>>

DataplaneColumn3(line) ==
  LET columns == Split(line, {"|"})
  IN IF Len(columns) < 3 THEN <<>> ELSE Kept(Spaced(Fields(columns[3])), TRUE)

IsRange(value) == Len(value) = 3 /\ {value[1], value[3]} \subseteq IPs /\ value[2] = "-"
P2PRanges(line, onlyProxy) ==
  LET trimmed == TrimSpace(line)
      parts   == Split(trimmed, {":"})
  IN IF (onlyProxy => IsPrefix(<<"Proxy">>, trimmed)) /\ Len(parts) >= 2
       THEN Kept(TrimSpace(parts[2]), IsRange(TrimSpace(parts[2]))) ELSE <<>>

\* A net whose mask is written as an address, "mask" if its bits are in one piece.
\* What is no such net stays.
SubnetToCIDR(line) ==
  LET trimmed == TrimSpace(line)
      slashes == {i \in DOMAIN trimmed : trimmed[i] \in Masks \cup {"/"}}
      parts   == Split(trimmed, {"/"})
  IN IF Cardinality(slashes) = 1 /\ Len(parts) = 2 /\ TrimSpace(parts[2]) = <<"mask">>
       THEN <<Append(TrimSpace(parts[1]), "/8")>> ELSE Kept(trimmed, TRUE)

Format(step, line) ==
  CASE step = "snort_rules"         -> SnortRules(line)
    [] step = "pix_deny_rules"      -> PixDenyRules(line)
    [] step = "dshield_format"      -> DshieldFormat(line)
    [] step = "dataplane_column3"   -> DataplaneColumn3(line)
    [] step = "p2p_blocklist"       -> P2PRanges(line, FALSE)
    [] step = "p2p_blocklist_proxy" -> P2PRanges(line, TRUE)
    [] step = "subnet_to_cidr"      -> SubnetToCIDR(line)

(***************************************************************************)
(* A step, on a line and on a text in memory.                              *)
(***************************************************************************)
OwnMask(step) == IF step \in {"filter_ip6", "filter_net6"} THEN "/128" ELSE "/32"

LineFilter(step, line) ==
  LET trimmed == TrimSpace(line)
  IN CASE step = "remove_comments"  -> RemoveComments(line)
       [] step = "trim"             -> TrimLine(line)
       [] step = "grep"             -> Grep(line, FALSE)
       [] step = "grep_not"         -> Grep(line, TRUE)
       [] step = "cut_delimiter"    -> CutDelimiter(line)
       [] step = "append_slash32"   -> AppendSlash(line, "/32")
       [] step = "append_slash128"  -> AppendSlash(line, "/128")
       [] step = "remove_slash32"   -> RewriteSuffix(line, "/32")
       [] step = "remove_slash128"  -> RewriteSuffix(line, "/128")
       [] step = "torproject_exits" -> TorprojectExits(line)
       [] step = "filter_all4"      -> Kept(trimmed, IsIP(trimmed) \/ IsNet(trimmed))
       [] step = "filter_all6"      -> Kept(trimmed, IsIP6(trimmed) \/ IsNet6(trimmed))
       [] step = "filter_invalid4"  -> FilterInvalid4(line)
       [] step \in FormatNames      -> Format(step, line)
       [] OTHER                     -> Verdict(step, TrimSuffix(trimmed, OwnMask(step)))

FilteredLines(step, lines) ==
  FlattenSeq([i \in DOMAIN lines |-> LineFilter(step, lines[i])])

\* The step in memory.  The filters for addresses first rewrite the text, the
\* parsers of formats with comments remove those.
InMemory(step, text) ==
  LET applied(first, t) == JoinLines(FilteredLines(first, SplitLines(t)))
      bare == SplitLines(applied(IF OwnMask(step) = "/32" THEN "remove_slash32" ELSE "remove_slash128", text))
  IN CASE step \in {"filter_ip4", "filter_net4", "filter_ip6", "filter_net6"} ->
            JoinLines(FlattenSeq([i \in DOMAIN bare |-> Verdict(step, TrimSpace(bare[i]))]))
       [] step \in Commented -> applied(step, applied("remove_comments", text))
       [] OTHER -> applied(step, text)

(***************************************************************************)
(* Addresses found in running text.  A match takes the character before    *)
(* and the one after the address with it, so an address one character      *)
(* behind a match is not found.                                            *)
(***************************************************************************)
Standing(line, i) == /\ line[i] \in IPs
                     /\ i = 1 \/ line[i - 1] \notin IPs \cup Masks
                     /\ i = Len(line) \/ line[i + 1] \notin IPs
ExtractIPv4(line) ==
  LET Next(found, i) ==
        IF Standing(line, i)
             /\ (found = <<>> \/ i > Last(found) + 2 \/ line[Last(found) + 1] = "w")
        THEN Append(found, i) ELSE found
      found == FoldLeft(Next, <<>>, [i \in 1 .. Len(line) |-> i])
  IN [k \in DOMAIN found |-> <<line[found[k]]>>]

\* An address with its mask, if one follows.
ExtractIPv4CIDR(line) ==
  LET end(i) == IF i < Len(line) /\ line[i + 1] \in Masks \ {"/128"} THEN i + 1 ELSE i
      standing(i) == /\ line[i] \in IPs
                     /\ i = 1 \/ line[i - 1] \notin IPs \cup Masks
                     /\ end(i) = Len(line) \/ line[end(i) + 1] \notin IPs \cup Masks
      Next(found, i) ==
        IF standing(i) /\ (found = <<>> \/ i > end(Last(found)) + 2 \/ line[end(Last(found)) + 1] = "w")
        THEN Append(found, i) ELSE found
      found == FoldLeft(Next, <<>>, [i \in 1 .. Len(line) |-> i])
  IN [k \in DOMAIN found |-> SubSeq(line, found[k], end(found[k]))]

(***************************************************************************)
(* Parsers that need the whole text.  One that fails has no entries.       *)
(***************************************************************************)
Failed == [ok |-> FALSE, lines |-> <<>>]
ReadAs(lines) == [ok |-> TRUE, lines |-> CleanLines(lines)]

\* Comma separated values are rows of cells.  In memory a stray quote fails the
\* step; a stream takes it, and passes over rows that begin with a number sign.
CSVColumn(rows, index, streamed) ==
  LET stray(row)  == \E i \in DOMAIN row.cells : "quote" \in Range(row.cells[i])
      taken == SelectSeq(rows, LAMBDA row : /\ ~(streamed /\ row.comment)
                                            /\ index <= Len(row.cells))
  IN IF ~streamed /\ \E i \in DOMAIN rows : stray(rows[i]) THEN Failed
     ELSE ReadAs([i \in DOMAIN taken |-> taken[i].cells[index]])

\* The rows of two addresses that become a range: both must be there.
Client9(rows) ==
  LET starts == CSVColumn(rows, 1, FALSE)
      whole  == SelectSeq(rows, LAMBDA row :
                  Len(row.cells) >= 2 /\ TrimSpace(row.cells[1]) # <<>> /\ TrimSpace(row.cells[2]) # <<>>)
  IN IF ~starts.ok THEN Failed
     ELSE ReadAs([i \in DOMAIN whole |->
                    TrimSpace(whole[i].cells[1]) \o <<"-">> \o TrimSpace(whole[i].cells[2])])

\* Numbers become addresses, here of four digits of two bits.
NumericIPv4(n) == [i \in 1 .. 4 |-> (n \div 4 ^ (4 - i)) % 4]
IP2Location(rows) ==
  LET good == SelectSeq(rows, LAMBDA row : Len(row) >= 2 /\ {row[1], row[2]} \subseteq 0 .. 255)
  IN [i \in DOMAIN good |->
        IF good[i][1] = good[i][2] THEN NumericIPv4(good[i][1])
        ELSE NumericIPv4(good[i][1]) \o <<"-">> \o NumericIPv4(good[i][2])]

\* The text between a tag and the first end of it.  A longer tag opens it too.
Opens == {"<ip>", "<ips>"}
XMLTagContent(text) ==
  LET Next(read, t) ==
        CASE ~read.open -> [read EXCEPT !.open = t \in Opens, !.content = <<>>]
          [] t = "</ip>" -> [open |-> FALSE, content |-> <<>>, found |-> Append(read.found, read.content)]
          [] OTHER -> [read EXCEPT !.content = Append(@, t)]
  IN CleanLines(FoldLeft(Next, [open |-> FALSE, content |-> <<>>, found |-> <<>>], text).found)

\* Of a title the first address, or what is before its last colon; of a proxy its
\* address; of four numbers the address they are, without leading zeros.
XMLRSSTitle(titles) ==
  LET first(t) == ExtractIPv4(Split(t, {"|"})[1])
      found == SelectSeq(titles, LAMBDA t : first(t) # <<>>)
  IN [i \in DOMAIN found |-> first(found[i])[1]]
XMLRSSTitleResolve(titles) ==
  LET last(t) == SelectLastInSeq(t, LAMBDA x : x = ":")
  IN CleanLines([i \in DOMAIN titles |-> SubSeq(titles[i], 1, last(titles[i]) - 1)])
XMLRSSProxy(values) == SelectSeq(values, LAMBDA v : IsIP(v) \/ IsIP6(v))
Padded == [t \in {"a", "0a", "999"} |-> IF t = "0a" THEN "a" ELSE t]
DshieldAPIXML(values) ==
  LET good == SelectSeq(values, LAMBDA v : Len(v) = 1 /\ v[1] \in DOMAIN Padded)
  IN [i \in DOMAIN good |-> <<Padded[good[i][1]]>>]

\* Entries that repeat are left out where they may; a host may have many names.
MaxmindProxyFraud(found) ==
  FoldLeft(LAMBDA out, ip : IF ip \in Range(out) THEN out ELSE Append(out, ip), <<>>, found)
HpHosts(text) ==
  LET lines == SplitLines(InMemory("remove_comments", text))
      names(line) == IF Len(Fields(line)) < 2 THEN <<>> ELSE Tail(Fields(line))
  IN FlattenSeq([i \in DOMAIN lines |-> names(lines[i])])
GzProxyRSS(text) ==
  LET lines == SplitLines(InMemory("remove_comments", text))
      named == SelectSeq(lines, LAMBDA l : ":" \in Range(l))
  IN CleanLines([i \in DOMAIN named |-> Before(named[i], ":")])
USCertCSV(text) ==
  LET watched == SelectSeq(SplitLines(text), LAMBDA l : "watch" \in Range(l))
  IN CleanLines([i \in DOMAIN watched |-> Trim(TrimSpace(Before(watched[i], ",")), {"quote"})])

(***************************************************************************)
(* Archives.  A body that unpacks to more than a limit is refused: in      *)
(* memory when it has been read, in a stream at the first read with none   *)
(* of the limit left.  The last bytes may come with the end of the body or *)
(* before it (together).                                                   *)
(***************************************************************************)
GunzipFile(size, limit) == size <= limit
LimitedGzip(size, limit, pieces, together) ==
  LET Next(read, piece) ==
        LET n == Min({piece, read.remaining, size - read.got})
        IN CASE read.ended \/ ~read.ok -> read
             [] read.remaining <= 0 -> [read EXCEPT !.ok = FALSE]
             [] OTHER -> [ok |-> TRUE, got |-> read.got + n, remaining |-> read.remaining - n,
                          ended |-> n = 0 \/ (together /\ read.got + n = size)]
  IN FoldLeft(Next, [ok |-> TRUE, got |-> 0, remaining |-> limit, ended |-> FALSE], pieces)

UnzipFileByName(files, want) ==
  LET i == SelectInSeq(files, LAMBDA f : ~f.directory /\ (want = "" \/ f.name = want))
  IN IF i = 0 THEN Failed ELSE [ok |-> TRUE, lines |-> <<files[i].body>>]
UnzipCSV(text) == JoinLines(SplitLines([i \in DOMAIN text |-> IF text[i] = "," THEN LF ELSE text[i]]))

(***************************************************************************)
(* Paths into documents.  A node is a leaf, a list of nodes, or an object  *)
(* of them, whose keys are in the order of KeyOrder: a record that has the *)
(* field of its kind.                                                      *)
(***************************************************************************)
KeyOrder == << <<"k">>, <<"l">> >>
ParseJSONPath(path) ==
  LET without(start, p) == IF IsPrefix(start, p) THEN SubSeq(p, Len(start) + 1, Len(p)) ELSE p
      rooted == without(<<"$">>, without(<<"$", ".">>, path))
      shown(i) == CASE rooted[i] = "]" -> <<>>
                    [] rooted[i] # "[" -> <<rooted[i]>>
                    [] SubSeq(rooted, i + 1, i + 2) = <<"*", "]">> -> <<".">>
                    [] OTHER -> <<".", "#">>
  IN CleanLines(Split(FlattenSeq([i \in DOMAIN rooted |-> shown(i)]), {"."}))

Index(segment) == CASE segment = <<"#", "0">> -> 1 [] segment = <<"#", "1">> -> 2 [] OTHER -> 0
NodesFound(nodes) == [ok |-> TRUE, lines |-> nodes]
Is(node, kind) == kind \in DOMAIN node

RECURSIVE JSONLookup(_, _)
JSONLookup(node, path) ==
  LET segment == Head(path)
      all(nodes) ==
        FoldLeft(LAMBDA got, n : LET more == JSONLookup(n, Tail(path))
                                 IN IF got.ok /\ more.ok THEN NodesFound(got.lines \o more.lines) ELSE Failed,
                 NodesFound(<<>>), nodes)
      keys == SelectSeq(KeyOrder, LAMBDA k : k \in DOMAIN node.object)
  IN CASE path = <<>> -> NodesFound(<<node>>)
       [] Is(node, "leaf") -> NodesFound(<<>>)
       [] segment = <<"*">> ->
            all(IF Is(node, "list") THEN node.list ELSE [i \in DOMAIN keys |-> node.object[keys[i]]])
       [] Is(node, "object") ->
            all(IF segment \in DOMAIN node.object THEN <<node.object[segment]>> ELSE <<>>)
       [] Head(segment) # "#" -> Failed
       [] OTHER -> all(IF Index(segment) \in DOMAIN node.list THEN <<node.list[Index(segment)]>> ELSE <<>>)

\* Several paths one after the other, and what of the nodes makes a line.
JSONPaths(node, paths) ==
  LET shown(nodes) == SelectSeq(nodes, LAMBDA n : Is(n, "leaf") => n.leaf \notin {"null", ""})
  IN FoldLeft(LAMBDA got, p : LET more == JSONLookup(node, ParseJSONPath(p))
                              IN IF got.ok /\ more.ok THEN NodesFound(got.lines \o shown(more.lines)) ELSE Failed,
              NodesFound(<<>>), paths)
Blueliv(servers) ==
  LET named == SelectSeq(servers, LAMBDA ip : TrimSpace(ip) \notin {<<>>, <<"null">>})
  IN [i \in DOMAIN named |-> TrimSpace(named[i])]

(***************************************************************************)
(* lineFilterReader: lines are filtered when the reader behind asks for    *)
(* the next piece, of any size.                                            *)
(***************************************************************************)
Opened(text) == [rest |-> text, buf |-> <<>>, done |-> FALSE, firstLine |-> TRUE]

\* The line up to its end, ReadBytes; without an end when the text ends first.
RawLine(rest) == LET ends == {i \in DOMAIN rest : rest[i] = LF}
                 IN IF ends = {} THEN rest ELSE SubSeq(rest, 1, Min(ends))
RECURSIVE TrimEnd(_)
TrimEnd(line) == IF line # <<>> /\ Last(line) \in {LF, CR} THEN TrimEnd(Front(line)) ELSE line

NextLine(step, r) ==
  LET raw   == RawLine(r.rest)
      line  == IF r.firstLine THEN StripBOM(raw) ELSE raw
      ended == raw # <<>> /\ Last(raw) = LF
  IN [rest |-> SubSeq(r.rest, Len(raw) + 1, Len(r.rest)),
      buf |-> IF raw = <<>> THEN r.buf ELSE r.buf \o Ended(LineFilter(step, TrimEnd(line))),
      done |-> ~ended, firstLine |-> r.firstLine /\ raw = <<>>]

RECURSIVE Fill(_, _)
Fill(step, r) == IF r.buf # <<>> \/ r.done THEN r ELSE Fill(step, NextLine(step, r))

RECURSIVE ReadAll(_, _, _)
ReadAll(step, r, size) ==
  LET f == Fill(step, r)
      n == IF size < Len(f.buf) THEN size ELSE Len(f.buf)
  IN IF f.buf = <<>> THEN <<>>
     ELSE SubSeq(f.buf, 1, n)
            \o ReadAll(step, [f EXCEPT !.buf = SubSeq(@, n + 1, Len(@))], size)

\* A format with comments is read through a second reader.
Streamed(step, text) ==
  LET bare == IF step \in Commented THEN ReadAll("remove_comments", Opened(text), 2) ELSE text
  IN ReadAll(step, Opened(bare), 2)

(***************************************************************************)
(* RunStream: segments of steps of one kind, a temporary file after each.  *)
(***************************************************************************)
Streamable(step) == step \notin {"uscert_csv", "gz_proxyrss", "unzip_csv"}

ClassifyPipeline(steps) ==
  LET Add(segments, step) ==
        IF segments # <<>> /\ Streamable(Last(segments)[1]) = Streamable(step)
        THEN [segments EXCEPT ![Len(segments)] = Append(@, step)]
        ELSE Append(segments, <<step>>)
  IN FoldLeft(Add, <<>>, steps)

\* Run, all in memory; and what a segment writes for the next.
Run(steps, text) ==
  LET Made(t, step) == CASE step = "passthrough" -> t
                         [] step = "uscert_csv"  -> Ended(USCertCSV(t))
                         [] step = "gz_proxyrss" -> Ended(GzProxyRSS(t))
                         [] step = "unzip_csv"   -> UnzipCSV(t)
                         [] OTHER                -> InMemory(step, t)
  IN FoldLeft(Made, text, steps)
RunSegment(text, segment) ==
  LET Read(t, step) == IF step = "passthrough" THEN t ELSE Streamed(step, t)
  IN IF Streamable(segment[1]) THEN FoldLeft(Read, text, segment) ELSE Run(segment, text)

\* The files of a run of which segment `failing` goes wrong: cancelled before
\* it, failing or cancelled inside, where the writer removes what it began, or
\* cancelled behind it, where the run removes the file it was given.
RunStream(segments, failing, how) ==
  LET Segment(run, i) ==
        IF run.failed \/ (i = failing /\ how \in {"before", "inside"})
        THEN [run EXCEPT !.failed = TRUE]
        ELSE IF i = failing
          THEN [run EXCEPT !.failed = TRUE, !.files = (@ \cup {i}) \ {i}]
        ELSE [failed |-> FALSE, files |-> run.files \cup {i},
              temps |-> run.temps \cup {i}, current |-> i]
      run == FoldLeft(Segment, [failed |-> FALSE, files |-> {0}, temps |-> {}, current |-> 0],
                      [i \in DOMAIN segments |-> i])
  IN [run EXCEPT !.files = @ \ (IF run.failed THEN run.temps ELSE run.temps \ {run.current})]

(***************************************************************************)
(* hostnameResolve: workers take lines from a channel and put what they    *)
(* find in the line's place; the caller may give up meanwhile, and then a  *)
(* name can no longer be looked up.                                        *)
(***************************************************************************)
Resolved == "found"
GaveUp  == "lost"

Resolving(lines, workers) ==
  [next |-> 1, closed |-> FALSE, cancelled |-> FALSE, answer |-> "none",
   busy |-> [w \in 1 .. workers |-> 0], results |-> [i \in 1 .. lines |-> "none"]]

Looked(r, w) ==
  [r EXCEPT !.busy[w] = 0, !.results[r.busy[w]] = IF r.cancelled THEN GaveUp ELSE Resolved]

ResolveSteps(r) ==
  LET lines  == Len(r.results)
      idle   == {w \in DOMAIN r.busy : r.busy[w] = 0}
      quiet  == r.closed /\ idle = DOMAIN r.busy
      handed == IF r.closed \/ r.next > lines THEN {}
                ELSE {[r EXCEPT !.busy[w] = r.next, !.next = @ + 1] : w \in idle}
      closes == (IF ~r.closed /\ r.next > lines THEN {[r EXCEPT !.closed = TRUE]} ELSE {})
                  \cup (IF ~r.closed /\ r.cancelled
                        THEN {[r EXCEPT !.closed = TRUE, !.next = lines + 1]} ELSE {})
      answers == IF quiet /\ r.answer = "none"
                 THEN {[r EXCEPT !.answer = IF r.cancelled THEN "cancelled" ELSE "lines"]} ELSE {}
      gives   == IF r.cancelled \/ r.answer # "none" THEN {} ELSE {[r EXCEPT !.cancelled = TRUE]}
  IN {Looked(r, w) : w \in {v \in DOMAIN r.busy : r.busy[v] # 0}}
       \cup handed \cup closes \cup answers \cup gives

RECURSIVE ResolvedBy(_, _)
ResolvedBy(frontier, known) ==
  LET new == UNION {ResolveSteps(r) : r \in frontier} \ known
  IN IF new = {} THEN known ELSE ResolvedBy(new, known \cup new)
Resolutions(lines, workers) ==
  LET start == Resolving(lines, workers) IN ResolvedBy({start}, {start})

(***************************************************************************)
(* What must hold.  The texts are all those of a few tokens.               *)
(***************************************************************************)
Texts(tokens, n) == BoundedSeq(tokens, n)
Words      == {"a", "w", " ", LF, CR}
Structured == {"a", "/32", "/8", "#", ",", LF}
Marked     == {<<BOM>> \o t : t \in Texts({"a", "#", LF, CR}, 3)}
\* Lines in the words of a format, with all that can follow where it begins.
FormatLines(step) ==
  CASE step = "snort_rules" ->
         {first \o l : first \in {<<"alert", " ">>, <<"alert">>}, l \in Texts({"a", ",", "[", "]", " "}, 4)}
    [] step = "pix_deny_rules" ->
         {Spaced([i \in 1 .. Len(ws) + 2 |-> <<(<<"access-list", "w">> \o ws)[i]>>]) :
            ws \in Texts({"deny", "ip", "host", "a"}, 5)}
    [] step = "dshield_format" -> Texts({"a", "w", " ", "#"}, 5)
    [] step = "dataplane_column3" -> Texts({"a", "|", " "}, 5)
    [] step \in {"p2p_blocklist", "p2p_blocklist_proxy"} ->
         {first \o <<":">> \o l : first \in {<<"w">>, <<"Proxy">>, <<" ">>}, l \in Texts({"a", "-", " ", ":"}, 4)}
    [] step = "subnet_to_cidr" -> Texts({"a", "/", "mask", "/8", " "}, 4)
LoneReturn(text) ==
  \E i \in DOMAIN text : text[i] = CR /\ ~(i < Len(text) /\ text[i + 1] = LF)

\* A step makes the same entries of a stream as of the text in memory, however
\* the stream is cut, whether or not the last line is ended (lineFilterReader.Read).
SameFor(step, text) ==
  ~LoneReturn(SubSeq(text, 1, Len(text) - 1))
    => JoinLines(SplitLines(Streamed(step, text))) = InMemory(step, text)
ASSUME SameBothWays ==
  /\ \A step \in StepNames : \A text \in Texts(Words, 3) \cup Texts(Structured, 3) \cup Marked :
       SameFor(step, text)
  /\ \A step \in SixNames : \A text \in Texts({"a", "c", "/128", "/0", LF}, 3) : SameFor(step, text)
  /\ \A step \in FormatNames : \A line \in FormatLines(step) :
       /\ SameFor(step, line)
       /\ SameFor(step, line \o <<"#", "w", CR, LF>> \o line)

\* The parsers read what the formats write: every address of a list, the host or
\* the net of a rule, whatever else is on the line.
ASSUME FormatsRead ==
  /\ \A entries \in Texts({"a", "b", "c"}, 3) \ {<<>>} :
       LET list == FoldLeft(LAMBDA l, e : l \o <<",", " ", e>>, <<Head(entries)>>, Tail(entries))
       IN SnortRules(<<"alert", " ", "w", " ", "[">> \o list \o <<"]", " ", "w">>) =
            [i \in DOMAIN entries |-> <<entries[i]>>]
  /\ \A before \in Texts({"w", "a", "ip", "host"}, 2), after \in Texts({"w", "a", "deny", "ip"}, 3) :
       LET rule(words) ==
             Spaced([i \in DOMAIN words |-> <<words[i]>>])
           denies(words) == PixDenyRules(rule(<<"access-list">> \o before \o <<"deny", "ip">> \o words \o after))
       IN Len(before) + Len(after) = 4 =>
            /\ \A e \in {"a", "b", "w"}, m \in {"a", "host"} :
                 /\ denies(<<"host", e>>) = << <<e>> >>
                 /\ denies(<<e, m>>) = << <<e, "/", m>> >>
            /\ PixDenyRules(rule(<<"access-list">> \o before \o <<"ip", "deny", "host">> \o before)) = <<>>
  /\ \A line \in FormatLines("p2p_blocklist") :
       /\ \A v \in Range(P2PRanges(line, FALSE)) : IsRange(v)
       /\ P2PRanges(line, TRUE) # <<>> => P2PRanges(line, TRUE) = P2PRanges(line, FALSE)
  /\ \A line \in FormatLines("subnet_to_cidr") :
       LET once == SubnetToCIDR(line) IN once # <<>> => SubnetToCIDR(once[1]) = once

\* How much a reader asks for at a time does not matter.
ASSUME AnyPieces ==
  \A step \in {"remove_comments", "grep", "filter_all4"} : \A text \in Texts(Words, 3) :
    \A size \in 1 .. 4 : ReadAll(step, Opened(text), size) = Streamed(step, text)

\* Lines ended by a carriage return alone are lines in memory only, and so are
\* addresses kept a blank away from their mask.
ASSUME SomeDiffer ==
  /\ Streamed("trim", <<"a", CR, "b">>) # InMemory("trim", <<"a", CR, "b">>)
  /\ Streamed("filter_ip4", <<"a", " ", "/32">>) # InMemory("filter_ip4", <<"a", " ", "/32">>)

\* What the filters let through is what they are named for, and filtering
\* again changes nothing.
ASSUME FiltersSettle ==
  \A step \in {"remove_comments", "trim", "append_slash32", "filter_ip4", "filter_net4", "filter_all4"} :
    \A text \in Texts(Structured, 3) :
      LET once == InMemory(step, text) IN InMemory(step, once) = once

\* Addresses two characters apart or more are all found, each once and in order;
\* of those one character apart, every other one is lost.
ASSUME FoundInText ==
  /\ \A line \in Texts({"a", "b", ",", "w"}, 5) :
       LET all == {i \in DOMAIN line : Standing(line, i)}
           apart == \A i, j \in all : j # i + 2 \/ line[i + 1] = "w"
       IN apart => ExtractIPv4(line) = [k \in 1 .. Cardinality(all) |-> <<line[SetToSortSeq(all, <)[k]]>>]
  /\ ExtractIPv4(<<"a", ",", "b", ",", "a">>) = << <<"a">>, <<"a">> >>

\* The segments are the steps, in order, each as long as it can be.
ASSUME SegmentsWhole ==
  \A steps \in Texts({"trim", "grep", "unzip_csv"}, 5) :
    LET segments == ClassifyPipeline(steps)
        kind(i)  == {Streamable(step) : step \in Range(segments[i])}
    IN /\ FlattenSeq(segments) = steps
       /\ \A i \in DOMAIN segments : Cardinality(kind(i)) = 1
       /\ \A i \in 1 .. Len(segments) - 1 : kind(i) # kind(i + 1)

\* A pipeline in segments leaves the entries that it leaves all in memory, whichever
\* of its steps can be streamed.
ASSUME PipelinesSame ==
  \A steps \in Texts({"passthrough", "remove_comments", "filter_ip4", "snort_rules",
                      "uscert_csv", "gz_proxyrss", "unzip_csv"}, 3) :
    \A text \in {<<"w", " ", "watch", ":", "a", ",", "b">>, <<BOM, "a", "/32", CR, LF, "#", "b">>,
                 <<"alert", " ", "[", "a", ",", "b", "]", "#", LF, "b", ",", "a", "#", "watch">>} :
      JoinLines(SplitLines(FoldLeft(RunSegment, text, ClassifyPipeline(steps))))
        = JoinLines(SplitLines(Run(steps, text)))

\* A run leaves its answer and the source, a failed one the source alone.
ASSUME NothingLeftBehind ==
  \A n \in 1 .. 4 : \A failing \in 1 .. n + 1 : \A how \in {"before", "inside", "after"} :
    LET run == RunStream([i \in 1 .. n |-> <<"trim">>], failing, how)
    IN /\ run.failed <=> failing \in 1 .. n
       /\ run.files = {0} \cup (IF run.failed THEN {} ELSE {n})

\* No address of the other family passes a filter, but the filter for nets of four
\* bytes takes those of sixteen.
ASSUME FamiliesKept ==
  /\ \A text \in Texts({"a", "c", "/8", "/0", LF}, 3) :
       /\ \A step \in {"filter_ip4", "filter_all4"} : Range(InMemory(step, text)) \cap IPv6s = {}
       /\ \A step \in {"filter_ip6", "filter_net6", "filter_all6"} :
            Range(InMemory(step, text)) \cap IPs = {}
       /\ \A step \in {"filter_net4", "filter_invalid4"} :
            \A line \in Range(SplitLines(InMemory(step, text))) : ~IsSuffix(<<"/0">>, line)
  /\ InMemory("filter_net4", <<"c", "/8">>) = <<"c", "/8", LF>>

\* Every address that has more than a character on each side is found with the
\* mask it has; in text without masks both searches find the same.
ASSUME MasksKept ==
  \A line \in Texts({"a", "/8", ",", "w"}, 5) :
    LET all == SelectSeq([i \in DOMAIN line |-> i], LAMBDA i : line[i] = "a")
        end(i) == IF i < Len(line) /\ line[i + 1] = "/8" THEN i + 1 ELSE i
        apart == \A i \in DOMAIN line : line[i] \in {"a", "/8"} =>
                   \/ i = 1 \/ line[i - 1] = "w" \/ (line[i] = "/8" /\ line[i - 1] = "a")
    IN /\ apart => ExtractIPv4CIDR(line) = [k \in DOMAIN all |-> SubSeq(line, all[k], end(all[k]))]
       /\ "/8" \notin Range(line) => ExtractIPv4CIDR(line) = ExtractIPv4(line)

\* What both readers of separated values take, they read alike, but for the rows
\* only a stream takes for comments.  A range has both its ends.
CSVRows == {[comment |-> c, cells |-> cells] :
              c \in BOOLEAN, cells \in Texts({<<>>, <<" ">>, <<"a">>, <<"b", "quote">>}, 2)}
ASSUME ColumnsAlike ==
  \A rows \in Texts(CSVRows, 2) :
    LET kept == SelectSeq(rows, LAMBDA r : ~r.comment)
    IN /\ \A index \in 1 .. 2 :
            /\ CSVColumn(rows, index, TRUE).ok
            /\ CSVColumn(rows, index, FALSE).ok =>
                 CSVColumn(kept, index, FALSE) = CSVColumn(rows, index, TRUE)
            /\ CSVColumn(rows, index, FALSE)
                 = CSVColumn([i \in DOMAIN rows |-> [rows[i] EXCEPT !.comment = FALSE]], index, FALSE)
       /\ \A r \in Range(Client9(rows).lines) : IsPrefix(<<"a", "-", "a">>, r)

\* An address made of a number is that number, and a range ends where its row says.
ASSUME NumbersKept ==
  LET number(ip) == FoldLeft(LAMBDA n, digit : 4 * n + digit, 0, ip)
  IN \A start, end \in 0 .. 20 \cup 240 .. 260 :
       LET read == IP2Location(<< <<start, end>>, <<start>> >>)
       IN IF start > 255 \/ end > 255 THEN read = <<>>
          ELSE /\ number(SubSeq(read[1], 1, 4)) = start
               /\ Len(read[1]) = 4 <=> start = end
               /\ start # end => number(SubSeq(read[1], 6, 9)) = end

\* Of a document every element is found, and what is in it; an element of a longer
\* name hides those behind it, up to the first end.
ASSUME ElementsFound ==
  /\ \A values \in Texts({<<>>, <<" ">>, <<"a">>, <<"b", " ", "w">>}, 3) :
       XMLTagContent(FlattenSeq([i \in DOMAIN values |-> <<"w", "<ip>">> \o values[i] \o <<"</ip>">>]))
         = CleanLines(values)
  /\ XMLTagContent(<<"<ips>", "a", "</ips>", "<ip>", "b", "</ip>">>) # << <<"b">> >>
  /\ \A text \in Texts({"<ip>", "<ips>", "</ip>", "a"}, 5) : \A v \in Range(XMLTagContent(text)) :
       "</ip>" \notin Range(v)

\* A body below the limit is read whole, one above it never is, whatever the reads.
\* One of the limit is, in memory; in a stream if its end comes with its last byte.
ASSUME LimitHolds ==
  \A size \in 0 .. 6, limit \in 1 .. 4, together \in BOOLEAN, p, q \in 1 .. 3 :
    LET read == LimitedGzip(size, limit, [i \in 1 .. 9 |-> IF i % 2 = 0 THEN p ELSE q], together)
    IN /\ read.got <= limit
       /\ read.ok <=> (GunzipFile(size, limit) /\ (size < limit \/ together))
       /\ read.ok => read.got = size /\ read.ended

\* The file asked for is unpacked, the first of none is asked for, and no directory.
ASSUME EntriesFound ==
  \A files \in Texts([directory : BOOLEAN, name : {"x", "y"}, body : {"1", "2"}], 2) :
  \A want \in {"", "x"} :
    LET got == UnzipFileByName(files, want)
        fits(f) == ~f.directory /\ want \in {"", f.name}
    IN /\ got.ok <=> \E f \in Range(files) : fits(f)
       /\ got.ok => \E i \in DOMAIN files : /\ fits(files[i]) /\ got.lines = <<files[i].body>>
                                           /\ \A j \in 1 .. i - 1 : ~fits(files[j])

\* A path is read as it is written, and leads to every node it describes and no
\* other; asking a list for a key fails.
Segments == {<<"k">>, <<"l">>, <<"*">>, <<"#", "0">>, <<"#", "1">>}
PathText(path) ==
  LET shown(p) == CASE Head(p) = "#" -> <<"[", p[2], "]">> [] p = <<"*">> -> <<"[", "*", "]">>
                    [] OTHER -> <<".">> \o p
  IN <<"$">> \o FlattenSeq([i \in DOMAIN path |-> shown(path[i])])
Leaf(text) == [leaf |-> text]
Inner == {Leaf("x"), Leaf("null"), [list |-> <<Leaf("y"), Leaf("")>>],
          [object |-> [k \in {<<"k">>} |-> Leaf("z")]]}
Documents == {Leaf("x")} \cup {[list |-> l] : l \in Texts(Inner, 2)}
               \cup {[object |-> o] : o \in UNION {[ks -> Inner] : ks \in SUBSET {<<"k">>, <<"l">>}}}

Steps(node) ==
  CASE Is(node, "leaf")   -> {}
    [] Is(node, "object") -> {<<k, node.object[k]>> : k \in DOMAIN node.object}
    [] Is(node, "list")   ->
         {<< <<"#", IF i = 1 THEN "0" ELSE "1">>, node.list[i]>> : i \in DOMAIN node.list}
AtPath(node, path) ==
  LET nodes[n \in 0 .. Len(path)] ==
        IF n = 0 THEN {<< <<>>, node>>}
        ELSE UNION {{<<Append(x[1], y[1]), y[2]>> :
                       y \in {z \in Steps(x[2]) : path[n] \in {<<"*">>, z[1]}}} : x \in nodes[n - 1]}
  IN nodes
ASSUME PathsReach ==
  \A path \in Texts(Segments, 2) :
    /\ ParseJSONPath(PathText(path)) = path
    /\ \A node \in Documents :
         LET got == JSONLookup(node, path)
             all == AtPath(node, path)
         IN /\ got.ok <=> \A n \in DOMAIN path : path[n] \in {<<"k">>, <<"l">>} =>
                             \A x \in all[n - 1] : ~Is(x[2], "list")
            /\ got.ok => /\ Len(got.lines) = Cardinality(all[Len(path)])
                         /\ Range(got.lines) = {x[2] : x \in all[Len(path)]}
            /\ got.ok => Range(JSONPaths(node, <<PathText(path), PathText(path)>>).lines)
                           \subseteq Range(got.lines) \ {Leaf("null"), Leaf("")}

\* Whoever is first, names come back in the order of the lines, all of them or
\* none; and nobody waits for ever.
ASSUME ResolvedInOrder ==
  \A lines \in 0 .. 3 : \A workers \in 1 .. 2 : \A r \in Resolutions(lines, workers) :
    /\ r.answer = "lines" => \A i \in 1 .. lines : r.results[i] = Resolved
    /\ r.answer = "none" => ResolveSteps(r) # {}

=============================================================================
