------------------------------ MODULE Scanner ------------------------------
(***************************************************************************)
(* Two matchers watch what the host sends, chunk by chunk as I$Read        *)
(* delivers it: Sub_1062 looks for the header that starts a ZModem         *)
(* transfer, Sub_254A for the prompts that the autologon answers.  Both    *)
(* keep their place between two chunks, and start over at a character that *)
(* does not fit, which they try once more as the first of the string.      *)
(*                                                                         *)
(* A ZModem header that does not start a transfer leaves flag 107 set; the *)
(* history variables tell what the stream really was.                      *)
(***************************************************************************)
EXTENDS Integers, Sequences

CONSTANTS
  Chars,       \* what the host sends, seven bits of it
  Pattern,     \* Dat_031A, the header up to its second digit
  Prompts,     \* 4380,U: the prompts, <<>> where none is set
  MaxChunk     \* bound: characters that are read at once (192)

Decides == [c \in {"0", "1"} |-> IF c = "0" THEN "receive" ELSE "send"]

\* A string whose first character comes back in it can be missed.
Simple(p) == \A i \in 2..Len(p) : p[i] # p[1]

ASSUME ScannerAssumption ==
  /\ {"0", "1", "NUL"} \subseteq Chars
  /\ Pattern \in Seq(Chars) /\ Len(Pattern) > 1 /\ Simple(Pattern)
  /\ Prompts \in Seq(Seq(Chars \ {"NUL"})) /\ Prompts # <<>>
  /\ MaxChunk \in Nat \ {0}

VARIABLES
  spc,         \* idle, zmodem, logon or end (of a chunk)
  chunk,       \* 223,U: the chunk
  rest,        \* what the matcher has not read of it
  look,        \* the matcher is at Sub_1070
  matched,     \* 108,U: characters of Pattern that have come
  header,      \* 107,U: Pattern has come
  start,       \* 107,U negative, 3232,U: the transfer that is to start
  line,        \* 3202,U: which prompt is waited for, 0 for none
  place,       \* 5020,U: characters of it that have come
  answer,      \* 3203,U
  tail,        \* history: the stream before the chunk, as long as Pattern
  old,         \* history: 107,U when the chunk came
  ltail        \* history: the stream before the chunk since the last answer

zVars == <<look, matched, header, start>>
lVars == <<line, place, answer>>
scanVars == <<spc, chunk, rest, zVars, lVars, tail, old, ltail>>

Chunks == UNION {[1..n -> Chars] : n \in 1..MaxChunk}

Transfers == {"none", "receive", "send"}

ScanInit ==
  /\ spc = "idle" /\ chunk = <<>> /\ rest = <<>>
  /\ look = FALSE /\ matched = 0 /\ header = FALSE /\ start = "none"
  /\ line = 0 /\ place = 0 /\ answer = FALSE
  /\ tail = <<>> /\ old = FALSE /\ ltail = <<>>

-----------------------------------------------------------------------------
\* Sub_0FB8: a chunk is read.  When the user comes back from the dialer the
\* last one goes through once more (5235).
Read ==
  /\ spc = "idle"
  /\ chunk' \in Chunks
  /\ rest' = chunk' /\ spc' = "zmodem" /\ look' = TRUE /\ old' = header
  /\ UNCHANGED <<matched, header, start, lVars, tail, ltail>>

\* What a character makes of n characters of p that have come.
Fits(p, n, c) == IF c = p[n + 1] THEN n + 1 ELSE IF c = p[1] THEN 1 ELSE 0

\* Variant for a mutant run: the character that does not fit is dropped.
MatchDropping ==
  /\ spc = "zmodem" /\ ~look /\ rest # <<>>
  /\ LET n == IF Head(rest) = Pattern[matched + 1] THEN matched + 1 ELSE 0
     IN IF n = Len(Pattern)
          THEN header' = TRUE /\ matched' = 0 /\ look' = TRUE
          ELSE matched' = n /\ UNCHANGED <<header, look>>
  /\ rest' = Tail(rest)
  /\ UNCHANGED <<spc, chunk, start, lVars, tail, old, ltail>>

\* Sub_1084: one character is compared; after the last one of Pattern the next
\* is looked at.
Match ==
  /\ spc = "zmodem" /\ ~look /\ rest # <<>>
  /\ LET n == Fits(Pattern, matched, Head(rest))
     IN IF n = Len(Pattern)
          THEN header' = TRUE /\ matched' = 0 /\ look' = TRUE
          ELSE matched' = n /\ UNCHANGED <<header, look>>
  /\ rest' = Tail(rest)
  /\ UNCHANGED <<spc, chunk, start, lVars, tail, old, ltail>>

\* Sub_1070, after Pattern: the digit decides.  Any other character restarts the
\* matcher, and is read again.
LookAfterHeader ==
  /\ spc = "zmodem" /\ look /\ rest # <<>> /\ header
  /\ IF Head(rest) \in DOMAIN Decides
       THEN /\ start' = Decides[Head(rest)]
            /\ rest' = chunk /\ spc' = "logon"
            /\ UNCHANGED matched
       ELSE /\ matched' = IF Head(rest) = Pattern[1] THEN 1 ELSE 0
            /\ UNCHANGED <<start, rest, spc>>
  /\ look' = FALSE
  /\ UNCHANGED <<chunk, header, lVars, tail, old, ltail>>

\* Sub_1070 otherwise, which goes on with Sub_1084.
LookOn ==
  /\ spc = "zmodem" /\ look /\ rest # <<>> /\ ~header
  /\ look' = FALSE
  /\ UNCHANGED <<spc, chunk, rest, matched, header, start, lVars, tail, old, ltail>>

\* Sub_10A8, and 0FE1: the autologon is next, unless its last prompt has come.
ToLogon ==
  /\ spc = "zmodem" /\ rest = <<>>
  /\ spc' = "logon" /\ rest' = chunk
  /\ UNCHANGED <<chunk, zVars, lVars, tail, old, ltail>>

-----------------------------------------------------------------------------
\* 0FE1: no autologon, or no more of it.
LogonOff ==
  /\ spc = "logon" /\ line \notin 1..Len(Prompts)
  /\ line' = 0 /\ spc' = "end" /\ rest' = <<>>
  /\ UNCHANGED <<chunk, zVars, place, answer, tail, old, ltail>>

\* Variant for a mutant run: the place in the prompt is kept for the next one.
MatchPromptKeeping ==
  /\ spc = "logon" /\ line \in 1..Len(Prompts) /\ rest # <<>>
  /\ LET p == Append(Prompts[line], "NUL")
         n == Fits(p, place, Head(rest))
     IN IF n > 0 /\ n >= Len(p) - 1
          THEN /\ line' = line + 1 /\ answer' = TRUE /\ spc' = "end" /\ rest' = <<>>
               /\ place' = IF line' <= Len(Prompts) /\ n < Len(Prompts[line']) THEN n ELSE 0
          ELSE place' = n /\ rest' = Tail(rest) /\ UNCHANGED <<line, answer, spc>>
  /\ UNCHANGED <<chunk, zVars, tail, old, ltail>>

\* Sub_254A: one character; at the end of a prompt the rest of the chunk is not
\* read.  The zero that ends a prompt is compared like a character when the
\* prompt is empty.
MatchPrompt ==
  /\ spc = "logon" /\ line \in 1..Len(Prompts) /\ rest # <<>>
  /\ LET p == Append(Prompts[line], "NUL")
         n == Fits(p, place, Head(rest))
     IN IF n > 0 /\ n >= Len(p) - 1
          THEN line' = line + 1 /\ place' = 0 /\ answer' = TRUE /\ spc' = "end" /\ rest' = <<>>
          ELSE place' = n /\ rest' = Tail(rest) /\ UNCHANGED <<line, answer, spc>>
  /\ UNCHANGED <<chunk, zVars, tail, old, ltail>>

PromptsRead ==
  /\ spc = "logon" /\ line \in 1..Len(Prompts) /\ rest = <<>>
  /\ spc' = "end"
  /\ UNCHANGED <<chunk, rest, zVars, lVars, tail, old, ltail>>

\* The user chooses an entry of the directory with prompts (Sub_2508).
LogonBegins ==
  /\ spc = "idle"
  /\ line' = 1 /\ place' = 0 /\ ltail' = <<>>
  /\ UNCHANGED <<spc, chunk, rest, zVars, answer, tail, old>>

-----------------------------------------------------------------------------
Last(s, n) == IF Len(s) <= n THEN s ELSE SubSeq(s, Len(s) - n + 1, Len(s))

LongestPrompt == CHOOSE n \in {Len(Prompts[i]) : i \in 1..Len(Prompts)} :
                   \A i \in 1..Len(Prompts) : Len(Prompts[i]) <= n

\* Flag 107 is left over from a header that did not start a transfer.
Stale == old /\ tail # Pattern

\* 1017-1036: the answer is sent, and then the transfer started, if any.  What
\* came after its header is not looked at.
EndOfChunk ==
  /\ spc = "end"
  /\ spc' = "idle" /\ chunk' = <<>> /\ answer' = FALSE /\ start' = "none" /\ old' = FALSE
  /\ header' = (header /\ start = "none")
  /\ tail' = IF start = "none" THEN Last(tail \o chunk, Len(Pattern))
             ELSE IF Stale THEN SubSeq(Pattern, 1, matched) ELSE <<>>
  /\ ltail' = IF answer \/ line = 0 THEN <<>> ELSE Last(ltail \o chunk, LongestPrompt)
  /\ UNCHANGED <<rest, look, matched, line, place>>

ScanNext ==
  \/ Read \/ Match \/ LookAfterHeader \/ LookOn \/ ToLogon
  \/ LogonOff \/ MatchPrompt \/ PromptsRead \/ LogonBegins \/ EndOfChunk

ScanSpec == ScanInit /\ [][ScanNext]_scanVars

-----------------------------------------------------------------------------
ScanTypeOK ==
  /\ spc \in {"idle", "zmodem", "logon", "end"}
  /\ chunk \in Chunks \cup {<<>>} /\ Len(rest) <= Len(chunk)
  /\ {look, header, answer, old} \subseteq BOOLEAN
  /\ matched \in 0..(Len(Pattern) - 1) /\ start \in Transfers
  /\ line \in 0..(Len(Prompts) + 1) /\ place \in Nat
  /\ Len(tail) <= Len(Pattern) /\ Len(ltail) <= LongestPrompt

\* p stands in s from position i on.
At(p, s, i) == i + Len(p) - 1 <= Len(s) /\ SubSeq(s, i, i + Len(p) - 1) = p

\* The headers that start a transfer in s, and the first of them.
Headers(s) ==
  {i \in 1..Len(s) : At(Pattern, s, i) /\ i + Len(Pattern) <= Len(s)
                       /\ s[i + Len(Pattern)] \in DOMAIN Decides}

FirstOf(s) ==
  IF Headers(s) = {} THEN "none"
  ELSE LET i == CHOOSE i \in Headers(s) : \A k \in Headers(s) : i <= k
       IN Decides[s[i + Len(Pattern)]]

\* However the stream is cut into chunks, a transfer starts exactly for a header
\* that starts one, in its direction, unless flag 107 was left over.
StartsAreReal ==
  spc = "end" /\ ~Stale => start = FirstOf(tail \o chunk)

\* An answer is sent only when its prompt has come since the one before (or a
\* zero, when there is no prompt), and no prompt is missed that is waited for,
\* at least if its first character does not come back in it.
AnswersAreAsked ==
  spc = "end" /\ line # 0 =>
    LET p == Prompts[IF answer THEN line - 1 ELSE line]
        s == ltail \o chunk
        asked == IF p = <<>> THEN \E i \in 1..Len(chunk) : chunk[i] = "NUL"
                             ELSE \E i \in 1..Len(s) : At(p, s, i)
    IN (answer => asked) /\ (asked /\ Simple(p) => answer)

ScanInv == ScanTypeOK /\ StartsAreReal
=============================================================================
