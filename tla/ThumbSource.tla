---------------------------- MODULE ThumbSource ----------------------------
(* The thumbnail provider (thumbprovider.rs) and the cascade that turns the  *)
(* stream of the shell into something to decode (streamsrc.rs): one probe    *)
(* after the other on one shared stream, then a read that is bounded.  The   *)
(* source may fail a read, answer short, and be written to meanwhile.  A     *)
(* byte is the number of its place in the file.                              *)
EXTENDS Naturals, Sequences

CONSTANTS
    Heads,          \* what the first bytes of the files say
    Caps,           \* the sizes the user may allow, at most MAX_BYTES
    MAX_BYTES,      \* most bytes that are ever read whole
    RAW_PREFIX_BYTES,
    HEAD_PREVIEW_BYTES,
    MaxSize,        \* bound: sizes of files
    MaxErrors       \* bound: reads that fail

ASSUME ThumbAssumption ==
    /\ Heads \subseteq {"video", "ogg", "audio", "exr", "archive", "rar", "7z", "preview", "raw", "plain"}
    /\ Caps \subseteq 0 .. MAX_BYTES
    /\ {MAX_BYTES, RAW_PREFIX_BYTES, HEAD_PREVIEW_BYTES, MaxSize, MaxErrors} \subseteq Nat

VARIABLES
    source,         \* the file behind the stream, none before Initialize
    place,          \* where the stream is
    stage,          \* the probe that is next
    cap,            \* the input cap of this call
    out,            \* the bytes read so far
    result,         \* what the caller got: a picture, nothing, or bytes, the whole file or a part
    errors

thumbVars == <<source, place, stage, cap, out, result, errors>>

NoStream == [kind |-> "none", size |-> 0, named |-> FALSE, sized |-> FALSE]
Streams == [kind : Heads, size : 1 .. MaxSize, named : BOOLEAN, sized : BOOLEAN]

NoResult == [is |-> "none", bytes |-> <<>>]
Answer(is, bytes) == result' = [is |-> is, bytes |-> bytes]
Span(from, n) == [i \in 1 .. n |-> from + i - 1]
Anywhere == 0 .. MaxSize
Fewer(a, b) == IF a <= b THEN a ELSE b

\* Stat, which a stream may refuse
stream_size_is(Test(_)) == source.sized /\ Test(source.size)
Oversized == stream_size_is(LAMBDA size : size > cap)

ThumbInit ==
    /\ source = NoStream /\ place = 0 /\ stage = "idle" /\ cap = 0 /\ out = <<>>
    /\ result = NoResult /\ errors = 0

(* IInitializeWithStream::Initialize; the shell makes a provider per file.   *)
ShellInitializes ==
    /\ source = NoStream
    /\ source' \in Streams
    /\ place' = 0 /\ result' = NoResult
    /\ UNCHANGED <<stage, cap, out, errors>>

(* GetThumbnail: the settings are read once, then the cascade starts.        *)
GetThumbnail ==
    /\ stage = "idle" /\ source # NoStream
    /\ \/ stage' = "video" /\ cap' \in Caps /\ result' = NoResult
       \/ Answer("error", <<>>) /\ UNCHANGED <<stage, cap>>
    /\ out' = <<>>
    /\ UNCHANGED <<source, place, errors>>

FinishAfter(spent, is, bytes) ==
    /\ stage' = "idle" /\ Answer(is, bytes) /\ errors' = errors + spent
    /\ place' \in Anywhere
    /\ UNCHANGED <<source, cap, out>>

Finish(is, bytes) == FinishAfter(0, is, bytes)

(* A miss leaves the stream at its start; so does a first read that fails,   *)
(* which looks like a miss.                                                  *)
Misses(next) ==
    /\ stage' = next /\ place' = 0
    /\ UNCHANGED <<source, cap, out, result, errors>>

SniffFails(next) ==
    /\ errors < MaxErrors /\ errors' = errors + 1
    /\ stage' = next /\ place' = 0
    /\ UNCHANGED <<source, cap, out, result>>

Claims(kinds) == source.kind \in kinds

(* peek_is_video and the six ways to get a frame, peek_is_ogg.               *)
TryVideo ==
    /\ stage = "video"
    /\ \/ Claims({"video", "ogg"}) /\ Finish("picture", <<>>)
       \/ Claims({"video"}) /\ Finish("error", <<>>)
       \/ ~Claims({"video"}) /\ Misses("audio")
       \/ SniffFails("audio")

(* audio_art.                                                                *)
TryAudio ==
    /\ stage = "audio"
    /\ \/ Claims({"audio", "ogg"}) /\ (Finish("part", <<>>) \/ Finish("error", <<>>))
       \/ ~Claims({"audio", "ogg"}) /\ Misses("exr")
       \/ SniffFails("exr")

(* The scaled OpenEXR decode; a decode that fails rewinds.                   *)
TryExr ==
    /\ stage = "exr"
    /\ \/ Claims({"exr"}) /\ Finish("picture", <<>>)
       \/ Misses("archive")
       \/ SniffFails("archive")

(* generic_archive: the name and the magic, then the size, then the parser,  *)
(* or for RAR the whole file in memory.                                      *)
TryArchive ==
    LET generic == Claims({"archive", "rar", "7z"}) /\ source.named
        allowed == stream_size_is(LAMBDA size : size <= cap)
    IN  /\ stage = "archive"
        /\ \/ generic /\ ~allowed /\ Finish("error", <<>>)
           \/ generic /\ allowed /\ ~Claims({"rar"})
              /\ (Finish("part", <<>>) \/ Finish("picture", <<>>) \/ Finish("error", <<>>))
           \/ generic /\ allowed /\ Claims({"rar"}) /\ Misses("rar")
           \/ ~generic /\ Misses("head")
           \/ SniffFails("head")

(* stream_prefix: the first bytes, as many as are asked for, or fewer when a *)
(* read fails, but some; the stream is at its start again.                   *)
Prefix(max) ==
    LET n == Fewer(source.size, max)
        Short == IF errors < MaxErrors THEN 1 .. n - 1 ELSE {}
    IN  {[bytes |-> Span(0, n), spent |-> 0]} \cup {[bytes |-> Span(0, k), spent |-> 1] : k \in Short}

(* head_preview_fast: a part only if it is less than the file and holds a    *)
(* preview.                                                                  *)
TryHead ==
    /\ stage = "head"
    /\ \/ /\ Claims({"preview"}) /\ stream_size_is(LAMBDA size : size > HEAD_PREVIEW_BYTES)
          /\ \E prefix \in Prefix(HEAD_PREVIEW_BYTES) : FinishAfter(prefix.spent, "part", prefix.bytes)
       \/ Misses("raw")
       \/ SniffFails("raw")

\* mutant: the tail is read from where the prefix should have ended
TailFrom_nominal(prefix) == RAW_PREFIX_BYTES
(* Where the read of the tail goes on: after the bytes that are there.       *)
TailFrom(prefix) == Len(prefix)

(* raw_preview_fast: an embedded preview in the prefix, or the prefix and    *)
(* then the tail, in the same buffer.                                        *)
TryRaw ==
    /\ stage = "raw"
    /\ IF Claims({"raw"}) /\ stream_size_is(LAMBDA size : RAW_PREFIX_BYTES < size /\ size <= cap)
       THEN \/ Finish("part", <<>>)
            \/ Misses("choose")
            \/ \E prefix \in Prefix(RAW_PREFIX_BYTES) :
                  /\ stage' = "drain" /\ out' = prefix.bytes /\ place' = TailFrom(prefix.bytes)
                  /\ errors' = errors + prefix.spent
                  /\ UNCHANGED <<source, cap, result>>
       ELSE Misses("choose")

(* The size decides: too large, of unknown size and a 7z, or read whole.     *)
Choose ==
    /\ stage = "choose"
    /\ IF Oversized
       THEN \/ Claims({"archive"}) /\ Finish("part", <<>>)
            \/ /\ Claims({"preview"})
               /\ \E prefix \in Prefix(HEAD_PREVIEW_BYTES) : FinishAfter(prefix.spent, "part", prefix.bytes)
            \/ Finish("error", <<>>)
       ELSE IF ~source.sized /\ Claims({"7z"}) THEN Finish("error", <<>>) \/ SniffFails("drain")
       ELSE Misses("drain")

MaxOf(at) == IF at = "rar" THEN MAX_BYTES ELSE cap

Fits(n) == n <= MaxOf(stage) - Len(out)

(* One read of read_all_append: nothing is the end of the file, an error is  *)
(* not.  For RAR the buffer goes to the archive reader.                      *)
Drain ==
    /\ stage \in {"drain", "rar"}
    /\ \/ errors < MaxErrors /\ errors' = errors + 1 /\ stage' = "idle" /\ Answer("error", <<>>)
          /\ UNCHANGED <<source, place, cap, out>>
       \/ /\ place >= source.size
          /\ Finish(IF stage = "rar" THEN "read" ELSE "whole", out)
       \/ \E n \in 1 .. MaxSize :
             /\ place + n <= source.size
             /\ IF Fits(n)
                THEN out' = out \o Span(place, n) /\ place' = place + n /\ UNCHANGED <<stage, result>>
                ELSE stage' = "idle" /\ Answer("error", <<>>) /\ UNCHANGED <<out, place>>
             /\ UNCHANGED <<source, cap, errors>>

(* Another program writes to the file: it grows, or is cut off.              *)
FileChanges ==
    /\ stage # "idle"
    /\ \E s \in 1 .. MaxSize : s # source.size /\ source' = [source EXCEPT !.size = s]
    /\ UNCHANGED <<place, stage, cap, out, result, errors>>

ThumbNext ==
    \/ ShellInitializes \/ GetThumbnail \/ FileChanges
    \/ TryVideo \/ TryAudio \/ TryExr \/ TryArchive \/ TryHead \/ TryRaw \/ Choose \/ Drain

ThumbSpec == ThumbInit /\ [][ThumbNext]_thumbVars

-----------------------------------------------------------------------------
ThumbTypeOK ==
    /\ source \in Streams \cup {NoStream} /\ place \in Anywhere /\ cap \in 0 .. MAX_BYTES
    /\ stage \in {"idle", "video", "audio", "exr", "archive", "rar", "head", "raw", "choose", "drain"}
    /\ errors \in 0 .. MaxErrors
    /\ result.is \in {"none", "error", "picture", "part", "read", "whole"}

(* What is handed to the decoder as the file is the file from its first byte *)
(* to its end, without a gap or a repeat, however short or broken off a      *)
(* prefix was, wherever a call before left the stream.                       *)
WholeFileInOrder ==
    /\ \A i \in DOMAIN out : out[i] = i - 1
    /\ result.is = "whole" => result.bytes = out /\ Len(out) >= source.size
=============================================================================
