----------------------------- MODULE ConfigFile -----------------------------
(***************************************************************************)
(* Reading a bitstream file for the board's FPGA (V4ConfigSMAP.cpp): how   *)
(* config() tells the kind of file, how it reads it into a buffer, and     *)
(* what it does with the buffer, which is to show it and not to send it.   *)
(*                                                                         *)
(* A file is what the tests of config() see of it.  The first line decides *)
(* about the state of the stream: getline fails for more than 22           *)
(* characters, and every later read does nothing.  Formatted reads skip    *)
(* white space, so that the second byte of a BIT file, a tabulator, is     *)
(* never seen.                                                             *)
(***************************************************************************)
EXTENDS Naturals, Sequences

CONSTANTS
    Bits,       \* sizes in the header of an ASCII bitstream
    MaxLines    \* bound: lines of an ASCII bitstream

Kinds == {"RBT", "BIN", "BIT", "other"}
FirstLines == {"title", "short", "long"}

\* The first line of each kind of file: a BIN file starts with 32 bytes FF, a
\* BIT file may have a line feed among the first bytes of its sections.
Files ==
    {f \in [kind : Kinds, first : FirstLines, bits : Bits, lines : 0 .. MaxLines] :
        /\ f.first = "title" <=> f.kind = "RBT"
        /\ f.kind = "BIN" => f.first = "long"
        /\ f.kind # "RBT" => f.lines = 0}

VARIABLES
    file,
    pos,        \* idle, open, rbt, read, done, wild or thrown
    good,       \* the stream's state
    type,       \* UNKNOWN or the kind recognised
    count,      \* bytes of the buffer
    line,       \* lines read
    buffer,     \* what was stored in it
    shown,      \* bytes config showed
    pins,       \* the configuration pins driven
    lastStatus

stream == <<file, good>>
result == <<shown, lastStatus>>
vars == <<file, pos, good, type, count, line, buffer, shown, pins, lastStatus>>

Init ==
    /\ file \in Files
    /\ pos = "none" /\ good = TRUE
    /\ type = "UNKNOWN" /\ count = 0 /\ line = 0 /\ buffer = <<>>
    /\ shown = 0
    /\ pins = {}
    /\ lastStatus = "NOT_CONFIGURED"

\* The constructor drives the pins, and nothing else does.
Construct ==
    /\ pos = "none"
    /\ pos' = "idle"
    /\ pins' = {"cs_b", "init_b", "rdwr_b"}
    /\ UNCHANGED <<stream, type, count, line, buffer, result>>

-----------------------------------------------------------------------------
\* config(filename).
Open ==
    /\ pos = "idle"
    /\ \/ pos' = "open"
       \/ pos' = "thrown"       \* FILE_NOT_FOUND
    /\ good' = TRUE
    /\ type' = "UNKNOWN"
    /\ line' = 0 /\ buffer' = <<>> /\ count' = 0
    /\ UNCHANGED <<file, pins, result>>

\* The tests of the first line, of the signature AA995566 and of the start of
\* a BIT file.  When the stream has failed the last two test variables nobody
\* has written, which may hold anything.
Detected ==
    CASE file.first = "title" -> {"RBT"}
      [] file.first = "long" -> {"UNKNOWN", "BIN", "BIT"}
      [] OTHER -> {"UNKNOWN"}

Detect ==
    /\ pos = "open"
    /\ good' = (file.first # "long")
    /\ type' \in Detected
    /\ pos' = CASE type' = "RBT" -> "rbt"
                [] type' = "UNKNOWN" -> "thrown"     \* UNKNOWN_FILE_FORMAT
                [] OTHER -> "binary"
    /\ UNCHANGED <<file, count, line, buffer, pins, result>>

\* BIN and BIT: sizes and contents come from a stream that has failed.
ReadBinary ==
    /\ pos = "binary"
    /\ pos' = "wild"
    /\ UNCHANGED <<stream, type, count, line, buffer, pins, result>>

\* RBT: the size in bits is in the header, and each line makes four bytes.
\* SizeInWords is a mutation variant.
SizeInWords == file.bits \div 32

SizeInBytes == file.bits \div 8

ReadHeader ==
    /\ pos = "rbt" /\ count = 0 /\ line = 0
    /\ count' = SizeInBytes
    /\ pos' = "lines"
    /\ UNCHANGED <<stream, type, line, buffer, pins, result>>

Bytes(i) == [k \in 1 .. 4 |-> <<i, 4 - k>>]

\* Nothing compares the lines with the size.
ReadLine ==
    /\ pos = "lines" /\ line < file.lines
    /\ line' = line + 1
    /\ buffer' = buffer \o Bytes(line + 1)
    /\ pos' = IF Len(buffer') > count THEN "wild" ELSE "lines"
    /\ UNCHANGED <<stream, type, count, pins, result>>

EndOfFile ==
    /\ pos = "lines" /\ line = file.lines
    /\ good' = FALSE
    /\ pos' = "read"
    /\ UNCHANGED <<file, type, count, line, buffer, pins, result>>

\* config(count, bitstream) shows the first of every 16 bytes, sixteen times.
Show ==
    /\ pos = "read"
    /\ shown' = (count + 15) \div 16
    /\ lastStatus' = "NOT_CONFIGURED"
    /\ pos' = "idle"
    /\ UNCHANGED <<stream, type, count, line, buffer, pins>>

Next ==
    \/ Construct \/ Open \/ Detect \/ ReadBinary
    \/ ReadHeader \/ ReadLine \/ EndOfFile \/ Show

Spec == Init /\ [][Next]_vars

-----------------------------------------------------------------------------
TypeOK ==
    /\ file \in Files /\ good \in BOOLEAN
    /\ pos \in {"none", "idle", "open", "binary", "rbt", "lines", "read", "wild", "thrown"}
    /\ type \in Kinds \cup {"UNKNOWN"} /\ count \in Nat
    /\ line \in 0 .. MaxLines

\* An ASCII bitstream is read byte for byte into a buffer of its size, and
\* nothing is stored past the end, when its header tells the number of its
\* bits; and only an ASCII bitstream ever gets as far as being shown
\* (V4ConfigSMAP.cpp:52-265).
BitstreamExact ==
    /\ pos = "read" =>
          /\ file.kind = "RBT"
          /\ 32 * file.lines = file.bits =>
                buffer = [j \in 1 .. count |-> Bytes(1 + ((j - 1) \div 4))[1 + ((j - 1) % 4)]]
    /\ pos = "wild" /\ file.kind = "RBT" => 32 * file.lines > file.bits

-----------------------------------------------------------------------------
\* The inductive invariant: what has been read so far, and how a file is read
\* that is no ASCII bitstream.
ReadSoFar ==
    /\ count = SizeInBytes /\ line <= file.lines
    /\ Len(buffer) = 4 * line
    /\ buffer = [j \in 1 .. 4 * line |-> Bytes(1 + ((j - 1) \div 4))[1 + ((j - 1) % 4)]]

IInv ==
    /\ TypeOK
    /\ pos = "binary" => file.kind # "RBT"
    /\ pos \in {"rbt", "lines", "read"} => file.kind = "RBT"
    /\ pos \in {"open", "rbt"} => count = 0 /\ line = 0 /\ buffer = <<>>
    /\ pos \in {"lines", "read"} => ReadSoFar /\ Len(buffer) <= count
    /\ pos = "read" => line = file.lines
    /\ pos = "wild" /\ file.kind = "RBT" => 32 * file.lines > file.bits
=============================================================================
