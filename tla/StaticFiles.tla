------------------------------ MODULE StaticFiles ------------------------------
(***************************************************************************)
(* A static route whose file is written while it is served:               *)
(* StaticHandleMixin (sanic/mixins/static.py), DirectoryHandler and        *)
(* ContentRangeHandler (sanic/handlers), and file, file_stream and         *)
(* validate_file (sanic/response/convenience.py).                          *)
(*                                                                         *)
(* A file has versions: what it holds, its size and its modification time  *)
(* go with the version, and later versions have later times, in whole      *)
(* seconds, which is all that Last-Modified can tell.  A byte is its       *)
(* version and its position.  Stat, open and each read are done in a       *)
(* thread and awaited; a writer may come between any two.                  *)
(***************************************************************************)
EXTENDS Integers, Sequences, SequencesExt

CONSTANTS
    StaticOptions,  \* of the route, those that are tried
    Sizes,          \* of each version, its size
    ChunkSize,      \* of file_stream
    Threshold,      \* stream_large_files
    Ranges,         \* Range headers: [start, end], either of which may be missing
    MaxAsked        \* bound: requests

\* the arguments of static()
AllOptions ==
    [use_modified_since : BOOLEAN, use_content_range : BOOLEAN, stream_large_files : BOOLEAN,
     index : BOOLEAN, directory_view : BOOLEAN, follow : BOOLEAN]

Missing == -1
NoRange == [start |-> Missing, end |-> Missing]

StaticAssumption ==
    /\ StaticOptions \subseteq AllOptions
    /\ Sizes \in Seq(Nat) /\ Len(Sizes) > 0 /\ ChunkSize \in Nat \ {0}
    /\ Threshold \in Nat /\ MaxAsked \in Nat
    /\ Ranges \subseteq [start : Int, end : Int]
ASSUME StaticAssumption

VARIABLES
    static,    \* the route's options, and what the served tree is like
    file,      \* [version, present]
    handle,    \* the open file: the version it holds; Missing: that of the path; 0: none open
    serving,   \* the request
    copy,      \* what the client keeps of the file: [body, last_modified]
    asked

static_vars == <<static, file, handle, serving, copy, asked>>

NoServing ==
    [pc |-> "idle", target |-> "file", head |-> FALSE, slash |-> FALSE,
     since |-> Missing, range |-> NoRange,
     stats         |-> 0,         \* the version that was there at the stat; 0: none yet
     last_modified |-> 0, content_length |-> Missing, content_range |-> NoRange,
     streams |-> FALSE, in_directory |-> FALSE,
     position |-> 0, to_send |-> 0, body |-> <<>>, status |-> 0]
NoCopy == [body |-> <<>>, last_modified |-> 0]

StaticInit ==
    /\ static \in StaticOptions
    /\ file = [version |-> 1, present |-> TRUE] /\ handle = 0
    /\ serving = NoServing /\ copy = NoCopy /\ asked = 0

StaticOff ==
    /\ static = [use_modified_since |-> FALSE, use_content_range |-> FALSE, index |-> FALSE,
                 stream_large_files |-> FALSE, directory_view |-> FALSE, follow |-> FALSE]
    /\ file = [version |-> Len(Sizes), present |-> FALSE] /\ handle = 0
    /\ serving = NoServing /\ copy = NoCopy /\ asked = MaxAsked

-----------------------------------------------------------------------------
(* The writer *)

\* it writes the open file, or puts another in its place
Write(in_place) ==
    /\ file.version < Len(Sizes)
    /\ file' = [version |-> file.version + 1, present |-> TRUE]
    /\ handle' = IF handle = Missing /\ ~(in_place /\ file.present) THEN file.version ELSE handle
    /\ UNCHANGED <<static, serving, copy, asked>>

Unlink ==
    /\ file.present /\ file.version < Len(Sizes)
    /\ file' = [file EXCEPT !.present = FALSE]
    /\ handle' = IF handle = Missing THEN file.version ELSE handle
    /\ UNCHANGED <<static, serving, copy, asked>>

-----------------------------------------------------------------------------
(* The handler.  It works on the record r of the request, from one await to *)
(* the next.                                                                *)

Answer(r, status) == [r EXCEPT !.pc = "end", !.status = status]

\* A name with dots in it, or that leads out of the root, is not found; links may be followed.
GetFilePath(target) == target # "dots" /\ (target = "link" => static.follow)

IsDirectory(r) == r.target = "directory"
Exists(r)      == IsDirectory(r) \/ file.present
Found(r)       == IF IsDirectory(r) THEN 1 ELSE file.version

\* ContentRangeHandler: the end is not held against the size, nor the start of a suffix
ContentRange(range, total) ==
    LET suffix == range.start = Missing
        start  == IF suffix THEN total - range.end ELSE range.start
        end    == IF suffix \/ range.end = Missing THEN total - 1 ELSE range.end
    IN  [satisfiable |-> range # NoRange /\ start <= end,
         start |-> start, end |-> end, size |-> end - start + 1]

RangeOf(r) == ContentRange(r.content_range, Sizes[r.stats])
HasRange(r) == r.content_range # NoRange

\* the size decides whether the file is streamed
BySize(r) ==
    IF static.stream_large_files /\ Sizes[r.stats] >= Threshold
    THEN [r EXCEPT !.streams = TRUE, !.pc = "open"]
    ELSE [r EXCEPT !.pc = "file stat"]

\* the headers, once there was a stat or none is needed
Prepare(r) ==
    LET ranged == static.use_content_range /\ ~r.head /\ r.range # NoRange
        wanted == ContentRange(r.range, Sizes[r.stats])
        with   == [r EXCEPT !.content_length =
                        IF static.use_content_range /\ ~ranged THEN Sizes[r.stats] ELSE Missing,
                   !.content_range = IF ranged THEN r.range ELSE NoRange]
    IN  IF ranged /\ ~wanted.satisfiable THEN Answer(r, 416)
        ELSE IF r.head THEN Answer(with, 200)
        ELSE IF static.stream_large_files /\ r.stats = 0 THEN [with EXCEPT !.pc = "size"]
        ELSE IF static.stream_large_files THEN BySize(with)
        ELSE [with EXCEPT !.pc = "file stat"]

\* validate_file
NotModified(r, version) == r.since # Missing /\ version <= r.since

\* what fails in the directory handler is not caught any more, nor in a stream
NotFound(r) == Answer(r, IF r.in_directory \/ r.streams THEN 500 ELSE 404)

\* DirectoryHandler.handle
Directory(r) ==
    IF static.index /\ file.present
    THEN [NoServing EXCEPT !.pc = "file stat", !.in_directory = TRUE]
    ELSE IF static.directory_view THEN Answer(r, IF r.slash THEN 200 ELSE 302)
    ELSE Answer(r, IF static.index THEN 404 ELSE 500)

Serving(r) == serving' = r /\ UNCHANGED <<static, file, handle, copy, asked>>

Ask(target, head, slash, conditional, range) ==
    LET r == [NoServing EXCEPT !.target = target, !.head = head, !.slash = slash, !.range = range,
                !.since = IF conditional /\ copy # NoCopy THEN copy.last_modified ELSE Missing]
    IN  /\ serving.pc = "idle" /\ asked < MaxAsked
        /\ (conditional => target = "file") /\ (slash => target = "directory")
        /\ target \in {"link", "dots"} => ~head /\ range = NoRange
        /\ asked' = asked + 1
        /\ serving' = IF ~GetFilePath(target) THEN Answer(r, 404)
                      ELSE IF static.use_modified_since \/ static.use_content_range
                      THEN [r EXCEPT !.pc = "stat"]
                      ELSE Prepare(r)
        /\ UNCHANGED <<static, file, handle, copy>>

\* stat_async in the handler
Stat ==
    LET r == [serving EXCEPT !.stats = Found(serving), !.last_modified =
                IF static.use_modified_since THEN Found(serving) ELSE 0]
    IN  /\ serving.pc = "stat"
        /\ Serving(IF ~Exists(serving) THEN NotFound(serving)
                   ELSE IF static.use_modified_since /\ NotModified(serving, Found(serving))
                   THEN Answer(r, 304)
                   ELSE Prepare(r))

Size ==
    /\ serving.pc = "size"
    /\ Serving(IF ~Exists(serving) THEN NotFound(serving)
               ELSE BySize([serving EXCEPT !.stats = Found(serving)]))

\* file(): Last-Modified stays what it is, if it is there
FileStat ==
    /\ serving.pc = "file stat"
    /\ Serving(IF ~Exists(serving) THEN NotFound(serving)
               ELSE [serving EXCEPT !.pc = "open", !.last_modified =
                        IF @ = 0 THEN Found(serving) ELSE @])

\* open, and seek the range.  A directory cannot be opened; a range may start before the file
Open ==
    LET range == RangeOf(serving)
        r     == IF HasRange(serving)
                 THEN [serving EXCEPT !.pc = "read", !.position = range.start, !.to_send = range.size]
                 ELSE [serving EXCEPT !.pc = "read"]
    IN  /\ serving.pc = "open"
        /\ IF ~Exists(serving) THEN Serving(NotFound(serving))
           ELSE IF IsDirectory(serving)
           THEN Serving(IF serving.streams THEN Answer(serving, 500) ELSE Directory(serving))
           ELSE IF HasRange(serving) /\ range.start < 0 THEN Serving(Answer(serving, 500))
           ELSE /\ serving' = r /\ handle' = Missing
                /\ UNCHANGED <<static, file, copy, asked>>

Holds     == IF handle = Missing THEN file.version ELSE handle
Content(v) == [i \in 1..Sizes[v] |-> <<v, i>>]

\* the bytes of a version from one position to another, as far as it reaches
Span(v, from, to) ==
    LET end == IF to < Sizes[v] THEN to ELSE Sizes[v]
    IN  [i \in 1..(end - from) |-> <<v, from + i>>]
Bytes(position, n) == Span(Holds, position, position + n)

Close(r, status) ==
    /\ serving' = Answer(r, status) /\ handle' = 0
    /\ UNCHANGED <<static, file, copy, asked>>

\* file(): all of it, or all of the range, in one read
Read ==
    /\ serving.pc = "read" /\ ~serving.streams
    /\ IF HasRange(serving)
       THEN Close([serving EXCEPT !.body = Bytes(serving.position, serving.to_send)], 206)
       ELSE Close([serving EXCEPT !.body = Content(Holds)], 200)

\* file_stream: a chunk at a time; of a range, chunks as large as the whole range at most
ReadChunk ==
    LET range == RangeOf(serving)
        n     == IF HasRange(serving) /\ range.size < ChunkSize THEN range.size ELSE ChunkSize
        chunk == Bytes(serving.position, n)
        r     == [serving EXCEPT !.position = @ + Len(chunk), !.to_send = @ - Len(chunk),
                                 !.body = @ \o chunk]
    IN  /\ serving.pc = "read" /\ serving.streams
        /\ IF chunk = <<>> \/ (HasRange(serving) /\ serving.to_send <= 0)
           THEN Close(serving, IF HasRange(serving) THEN 206 ELSE 200)
           ELSE Serving(r)

\* the client keeps a whole file that says when it was modified, if it is as long as announced
Keeps(r) ==
    /\ r.target = "file" /\ ~r.in_directory /\ ~r.head /\ r.status = 200 /\ r.last_modified # 0
    /\ r.content_length \in {Missing, Len(r.body)}

\* as if Last-Modified were taken once the file has been read
DeliverThenStat ==
    /\ serving.pc = "end"
    /\ serving' = NoServing
    /\ copy' = IF Keeps(serving) THEN [body |-> serving.body, last_modified |-> file.version] ELSE copy
    /\ UNCHANGED <<static, file, handle, asked>>

Deliver ==
    /\ serving.pc = "end"
    /\ serving' = NoServing
    /\ copy' = IF Keeps(serving) THEN [body |-> serving.body, last_modified |-> serving.last_modified]
               ELSE copy
    /\ UNCHANGED <<static, file, handle, asked>>

StaticNext ==
    \/ \E in_place \in BOOLEAN : Write(in_place)
    \/ Unlink
    \/ \E target \in {"file", "directory", "link", "dots"}, head, slash, conditional \in BOOLEAN,
          range \in Ranges \cup {NoRange} : Ask(target, head, slash, conditional, range)
    \/ Stat \/ Size \/ FileStat \/ Open \/ Read \/ ReadChunk \/ Deliver

StaticSpec == StaticInit /\ [][StaticNext]_static_vars
-----------------------------------------------------------------------------
StaticTypeOK ==
    /\ static \in StaticOptions /\ handle \in Missing..Len(Sizes) /\ asked \in 0..MaxAsked
    /\ file \in [version : 1..Len(Sizes), present : BOOLEAN]
    /\ DOMAIN serving = DOMAIN NoServing /\ DOMAIN copy = DOMAIN NoCopy

\* A client that is told 304 has in its copy what the file held when it was told so, whatever
\* was written between the stat, the open and the reads of the answer that it keeps: its
\* Last-Modified is never later than what it holds.
NotModifiedIsTrue ==
    serving.status = 304 => copy.body = Content(serving.stats)

\* The body of a 206 begins with the range that its Content-Range announces, as far as the
\* file reaches, and has nothing after it, but in a stream less than a chunk: unless the file
\* was changed meanwhile.
RangeAsAnnounced ==
    LET range     == RangeOf(serving)
        announced == Span(serving.stats, range.start, range.end + 1)
    IN  serving.status = 206 /\ file.version = serving.stats =>
            /\ IsPrefix(announced, serving.body)
            /\ Len(serving.body) - Len(announced) < (IF serving.streams THEN ChunkSize ELSE 1)

\* What an answer says of the file - that a copy of it is current, which part of it this is - is
\* so of what was in the file.
ServedAsSaid == NotModifiedIsTrue /\ RangeAsAnnounced
===============================================================================
