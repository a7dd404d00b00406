----------------------------- MODULE Keystrokes -----------------------------
(***************************************************************************)
(* "ht send": key notation becomes bytes (package keys), and SendPaced      *)
(* writes the bytes to the PTY, one write per keystroke with a delay        *)
(* between them, or all in one write without a delay.                      *)
(*                                                                         *)
(* Bytes are abstracted to what escapeSeqEnd and the key parser tell apart: *)
(* ESC, the characters that introduce or end sequences, other characters   *)
(* that end a CSI sequence ("fin": letters, tilde), other ASCII ("par":    *)
(* digits, control characters), and the bytes of a two-byte UTF-8 rune.    *)
(* Indices count from 1 and an end is the index after the last byte.       *)
(*                                                                         *)
(* "Defect" marks faulty variants that are not part of the specification.  *)
(***************************************************************************)
EXTENDS Naturals, Sequences

CONSTANTS
    Typed,      \* the sequences of keys users type
    RawData     \* the byte sequences they send with --raw

Byte  == {"ESC", "[", "O", "]", "\\", "BEL", "fin", "par", "lead", "cont"}
Final == {"[", "O", "]", "\\", "fin"}      \* 0x40 to 0x7e

Letters == {"letter", "O"}
Named   == {"esc", "tab", "arrow", "page", "F1"}
Bases   == Letters \cup Named \cup {"[", "]", "\\", "sign", "rune", "bogus"}
Key     == [base : Bases, ctrl : BOOLEAN, meta : BOOLEAN, shift : BOOLEAN]

ASSUME InputAssumption == Typed \subseteq Seq(Key) /\ RawData \subseteq Seq(Byte)

VARIABLES
    typed,      \* the keys, empty for --raw
    data,       \* the bytes
    paced,      \* a delay between keystrokes was asked for
    exit,       \* the session: "no", "marked" exited, or its master "closed"
    pc,         \* "parse", "check", "write", "ok" or "err"
    i,          \* the next byte to write
    writes,     \* the writes so far
    received    \* what the child's terminal has received

vars == <<typed, data, paced, exit, pc, i, writes, received>>

-----------------------------------------------------------------------------
(* Package keys.  The empty sequence stands for its errors.                *)

named == [esc |-> <<"ESC">>, tab |-> <<"par">>, arrow |-> <<"ESC", "[", "fin">>,
          page |-> <<"ESC", "[", "par", "fin">>, F1 |-> <<"ESC", "O", "fin">>]

\* A single character, as the notation has it.
literal(c) ==
    CASE c = "letter" -> <<"fin">>
      [] c = "sign"   -> <<"par">>
      [] c = "rune"   -> <<"lead", "cont">>
      [] OTHER        -> <<c>>

resolveBase(base, shift) ==
    CASE base = "bogus"                                -> <<>>
      [] shift /\ base = "tab"                         -> <<"ESC", "[", "fin">>
      [] shift /\ base \notin Letters \cup {"tab"}     -> <<>>
      [] ~shift /\ base \in Named                      -> named[base]
      [] OTHER                                         -> literal(base)

\* Ctrl goes with letters only, meta puts an ESC before what there is.
parseSpecial(k) ==
    LET base == resolveBase(k.base, k.shift)
        key  == IF ~k.ctrl THEN base
                ELSE IF base # <<>> /\ k.base \in Letters THEN <<"par">> ELSE <<>>
    IN  IF k.meta /\ key # <<>> THEN <<"ESC">> \o key ELSE key

ParseAll(keys) ==
    LET upTo[n \in 0..Len(keys)] ==
            IF n = 0 THEN <<>> ELSE upTo[n - 1] \o parseSpecial(keys[n])
    IN  upTo[Len(keys)]

-----------------------------------------------------------------------------
(* Where the keystroke that starts at byte s ends.                         *)

Least(S) == CHOOSE m \in S : \A n \in S : m <= n

\* Defect: only CSI sequences are longer than ESC and a byte.
escapeSeqEndShort(b, s) ==
    IF s < Len(b) /\ b[s + 1] = "["
    THEN Least({k \in s + 2..Len(b) : b[k] \in Final} \cup {Len(b)}) + 1
    ELSE IF s < Len(b) THEN s + 2 ELSE s + 1

escapeSeqEnd(b, s) ==
    LET n        == Len(b)
        csiFinal == {k \in s + 2..n : b[k] \in Final}
        oscStop  == {k \in s + 2..n : b[k] = "BEL"
                                        \/ (b[k] = "ESC" /\ k < n /\ b[k + 1] = "\\")}
    IN  IF s = n THEN s + 1
        ELSE IF b[s + 1] = "[" THEN IF csiFinal = {} THEN n + 1 ELSE Least(csiFinal) + 1
        ELSE IF b[s + 1] = "O" THEN IF s + 2 <= n THEN s + 3 ELSE s + 2
        ELSE IF b[s + 1] = "]"
             THEN IF oscStop = {} THEN n + 1
                  ELSE Least(oscStop) + (IF b[Least(oscStop)] = "BEL" THEN 1 ELSE 2)
        ELSE s + 2

\* Defect: every byte outside an escape sequence is a keystroke.
keystrokeEndBytewise(b, s) ==
    IF b[s] = "ESC" THEN escapeSeqEnd(b, s) ELSE s + 1

keystrokeEnd(b, s) ==
    IF b[s] = "ESC" THEN escapeSeqEnd(b, s)
    ELSE IF b[s] = "lead" /\ s < Len(b) /\ b[s + 1] = "cont" THEN s + 2
    ELSE s + 1

-----------------------------------------------------------------------------

Init ==
    /\ \/ typed \in Typed /\ data = <<>> /\ pc = "parse"
       \/ typed = <<>> /\ data \in RawData /\ pc = "check"
    /\ paced \in BOOLEAN /\ exit = "no"
    /\ i = 1 /\ writes = <<>> /\ received = <<>>

\* The command line parses all keys before it sends anything.
Parse ==
    /\ pc = "parse"
    /\ IF \E n \in 1..Len(typed) : parseSpecial(typed[n]) = <<>>
       THEN pc' = "err" /\ UNCHANGED data
       ELSE pc' = "check" /\ data' = ParseAll(typed)
    /\ UNCHANGED <<typed, paced, exit, i, writes, received>>

\* waitLoop marks the session exited, then closes the master.
SessionEnds ==
    /\ exit # "closed"
    /\ exit' = IF exit = "no" THEN "marked" ELSE "closed"
    /\ UNCHANGED <<typed, data, paced, pc, i, writes, received>>

Check ==
    /\ pc = "check"
    /\ pc' = IF exit = "no" THEN "write" ELSE "err"
    /\ UNCHANGED <<typed, data, paced, exit, i, writes, received>>

pacing == paced /\ Len(data) > 1

\* Write the bytes up to end, unless the master is closed.
Put(end, then) ==
    IF exit = "closed"
    THEN pc' = "err" /\ UNCHANGED <<i, writes, received>>
    ELSE /\ writes' = Append(writes, SubSeq(data, i, end - 1))
         /\ received' = received \o SubSeq(data, i, end - 1)
         /\ i' = end /\ pc' = then

SendAll ==
    /\ pc = "write" /\ ~pacing
    /\ Put(Len(data) + 1, "ok")
    /\ UNCHANGED <<typed, data, paced, exit>>

\* Defect: a keystroke that cannot be written is skipped.
SendKeySkipping ==
    /\ pc = "write" /\ pacing /\ i <= Len(data)
    /\ IF exit = "closed"
       THEN i' = keystrokeEnd(data, i) /\ UNCHANGED <<pc, writes, received>>
       ELSE Put(keystrokeEnd(data, i), "write")
    /\ UNCHANGED <<typed, data, paced, exit>>

SendKey ==
    /\ pc = "write" /\ pacing /\ i <= Len(data)
    /\ Put(keystrokeEnd(data, i), "write")
    /\ UNCHANGED <<typed, data, paced, exit>>

Finish ==
    /\ pc = "write" /\ pacing /\ i > Len(data)
    /\ pc' = "ok"
    /\ UNCHANGED <<typed, data, paced, exit, i, writes, received>>

Next ==
    \/ Parse \/ SessionEnds \/ Check \/ SendAll \/ SendKey \/ Finish
    \/ pc \in {"ok", "err"} /\ exit = "closed" /\ UNCHANGED vars

Spec == Init /\ [][Next]_vars

-----------------------------------------------------------------------------
(* The grammar of keystrokes, as the comments on SendPaced and escapeSeqEnd *)
(* give it.                                                                *)

IsCSI(w) ==
    /\ Len(w) >= 3 /\ w[1] = "ESC" /\ w[2] = "[" /\ w[Len(w)] \in Final
    /\ \A k \in 3..Len(w) - 1 : w[k] \notin Final

IsSS3(w) == Len(w) = 3 /\ w[1] = "ESC" /\ w[2] = "O"

Stops(w, k) == w[k] = "BEL" \/ (w[k] = "\\" /\ k >= 4 /\ w[k - 1] = "ESC")

IsOSC(w) ==
    /\ Len(w) >= 3 /\ w[1] = "ESC" /\ w[2] = "]" /\ Stops(w, Len(w))
    /\ \A k \in 3..Len(w) - 1 : ~Stops(w, k)

IsAlt(w) == Len(w) = 2 /\ w[1] = "ESC" /\ w[2] \notin {"[", "O", "]"}

IsChar(w) == w = <<"lead", "cont">> \/ (Len(w) = 1 /\ w[1] # "ESC")

IsKeystroke(w) == IsCSI(w) \/ IsSS3(w) \/ IsOSC(w) \/ IsAlt(w) \/ IsChar(w)

\* What is left of a sequence that the data does not finish.
IsTruncated(w) ==
    /\ w # <<>> /\ w[1] = "ESC"
    /\ \A n \in 1..Len(w) : ~IsKeystroke(SubSeq(w, 1, n))

\* A bare ESC, a meta character that opens a sequence, and meta with a key of
\* several bytes: the bytes do not tell them from other keys.
Ambiguous(k) ==
    \/ k.base = "esc"
    \/ k.meta /\ ~k.ctrl /\ k.base \in {"[", "O", "]"}
    \/ k.meta /\ Len(resolveBase(k.base, k.shift)) > 1

PlainKeys == {k \in Key : ~Ambiguous(k)}

(* SendPaced neither loses, nor repeats, nor reorders bytes: the terminal   *)
(* has received the data up to the next byte, and an answer "ok" means all *)
(* of it, also when the session ends between two keystrokes.               *)
BytesInOrder ==
    /\ i \in 1..Len(data) + 1
    /\ received = SubSeq(data, 1, i - 1)
    /\ pc = "ok" => received = data

(* "VT escape sequences (CSI/SS3/OSC) are never split, and multi-byte UTF-8  *)
(* runes are never split": each paced write is one keystroke of the        *)
(* grammar, and what the session's end or the data's end leaves is no half *)
(* of one, but a sequence that the data itself does not finish.  A rune     *)
(* whose first byte an escape sequence has taken is not one any more.       *)
WholeKeystrokes ==
    pacing => \A k \in 1..Len(writes) :
        /\ IsKeystroke(writes[k]) \/ (IsTruncated(writes[k]) /\ k = Len(writes) /\ i > Len(data))
        /\ writes[k] = <<"lead">> => k = Len(writes) \/ writes[k + 1] # <<"cont">>

(* What the user typed as one key is written in one write of its own: no     *)
(* key is split, and no two keys are sent together, if all are plain.      *)
OneWritePerKey ==
    (pacing /\ typed # <<>>) =>
        /\ Len(writes) <= Len(typed)
        /\ \A k \in 1..Len(writes) : writes[k] = parseSpecial(typed[k])

=============================================================================
