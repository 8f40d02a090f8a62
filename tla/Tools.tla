------------------------------- MODULE Tools -------------------------------
(***************************************************************************)
(* String helpers of utils/Tools.cpp: format() and vformat(), which grow a *)
(* buffer until vsnprintf() fits; is<bool>() and to<bool>(), which read a  *)
(* std::stringstream; tokenize(), which appends the fields of a string to  *)
(* a vector.                                                               *)
(*                                                                         *)
(* A formatted text is abstracted to its length n as vsnprintf() reports   *)
(* it (-1 for an encoding error); a result string to its length and the    *)
(* number of its leading characters that are the intended text.  Strings   *)
(* given to tokenize(), is() and to() are sequences of characters; string  *)
(* positions of the code (0-based) are kept as in the code.                *)
(***************************************************************************)
EXTENDS Integers, SequencesExt

CONSTANTS
    Chars,       \* characters of the strings given to tokenize()
    MaxStrLen,   \* longest string given to tokenize()
    Befores,     \* contents of the vector the caller passes to tokenize()
    Lengths,     \* lengths vsnprintf() may report; -1 is an encoding error
    BoolStrs,    \* strings given to is<bool>() and to<bool>()
    IntTypes,    \* integer types T given to to<T>(str)
    TestInts,    \* numbers whose text is given to to<T>(str)
    NoNumbers,   \* strings given to to<T>(str) that hold no number
    NoCall       \* no call made yet

VARIABLE
    call         \* the last call: [fn, in, result], or NoCall

INIT_SIZE == 256                      \* int size = 256
Crash == [len |-> 0, good |-> -1]     \* no result: the process died
Text(n) == [len |-> n, good |-> n]    \* the whole text of length n
Empty == Text(0)                      \* return {}

-----------------------------------------------------------------------------
(* vsnprintf(&ret[0], size, fmt, ap) returns the length n of the whole     *)
(* text (or < 0) and writes its first size - 1 characters, when ap is     *)
(* "fresh" from va_start().  A va_list already walked by an earlier        *)
(* vsnprintf() without va_copy() is undefined: where va_list is passed by  *)
(* value (AArch64) the call formats the same arguments again; where it is  *)
(* an array passed as a pointer (x86-64) it reads the words after them:   *)
(* a text of any length, an encoding error, or a crash.                   *)
Vsnprintf(n, size, ap) ==
    {[crash |-> FALSE, ret |-> n, good |-> Min({n, size - 1})]}
    \cup (IF ap = "fresh" THEN {}
          ELSE {[crash |-> FALSE, ret |-> m, good |-> 0] : m \in Lengths}
               \cup {[crash |-> TRUE, ret |-> 0, good |-> 0]})

(* the for (;;) loop of format() and vformat(): ap is the va_list of the   *)
(* first turn, next that of the later turns                                *)
RECURSIVE FormatLoop(_, _, _, _)

\* mutant of FormatLoop: no test of n < 0
FormatLoopNoErrorTest(n, size, ap, next) ==
    UNION { IF o.crash THEN {Crash}
            ELSE IF o.ret < size
                 THEN {[len |-> o.ret, good |-> o.good]}
            ELSE FormatLoop(n, o.ret + 1, next, next)
          : o \in Vsnprintf(n, size, ap) }

FormatLoop(n, size, ap, next) ==
    UNION { IF o.crash THEN {Crash}
            ELSE IF o.ret < 0 THEN {Empty}
            ELSE IF o.ret < size
                 THEN {[len |-> o.ret, good |-> o.good]}  \* ret.erase(n)
            ELSE FormatLoop(n, o.ret + 1, next, next)     \* size = n + 1
          : o \in Vsnprintf(n, size, ap) }

\* mutant of format: va_start() once, before the loop
formatNoVaStart(n) == FormatLoop(n, INIT_SIZE, "fresh", "consumed")

(* format(fmt, ...): va_start()/va_end() around every vsnprintf()          *)
format(n) == FormatLoop(n, INIT_SIZE, "fresh", "fresh")

(* vformat(fmt, ap): the caller's ap, handed to every vsnprintf()          *)
vformat(n) == FormatLoop(n, INIT_SIZE, "fresh", "consumed")

-----------------------------------------------------------------------------
Digits == <<"0", "1", "2", "3", "4", "5", "6", "7", "8", "9">>
TrueStr == <<"t", "r", "u", "e">>
FalseStr == <<"f", "a", "l", "s", "e">>

(* the character codes of the characters the model's strings use          *)
Ascii == [c \in {"0", "1", "2", "3", "4", "5", "6", "7", "8", "9"} |->
              47 + SelectInSeq(Digits, LAMBDA x : x = c)]
         @@ [c \in {" "} |-> 32] @@ [c \in {"-"} |-> 45] @@ [c \in {"+"} |-> 43]
         @@ [c \in {"a", "e", "f", "l", "r", "s", "t", "u"} |-> 97]

Digit(c) == SelectInSeq(Digits, LAMBDA x : x = c) - 1

(* the integer types of the explicit instantiations                       *)
Width(T) == IF T \in {"int8_t", "uint8_t"} THEN 8 ELSE 16
Signed(T) == T \in {"int8_t", "int16_t"}
MinOf(T) == IF Signed(T) THEN -(2^(Width(T) - 1)) ELSE 0
MaxOf(T) == IF Signed(T) THEN 2^(Width(T) - 1) - 1 ELSE 2^Width(T) - 1

(* operator>>'s sentry skips the leading white space                      *)
SkipWs(s) ==
    LET k == SelectInSeq(s, LAMBDA c : c # " ")
    IN  IF k = 0 THEN <<>> ELSE SubSeq(s, k, Len(s))

ReadDigits(neg, d) ==
    [digits |-> d # <<>>, neg |-> neg,
     mag |-> FoldLeft(LAMBDA a, c : 10 * a + Digit(c), 0, d)]

(* num_get::_M_extract_int on the text t left by the sentry: an optional  *)
(* sign, then the leading digits                                           *)
ExtractDigits(t, sign, r) ==
    LET k == SelectInSeq(r, LAMBDA c : ~Contains(Digits, c))
    IN  ReadDigits(sign /\ Head(t) = "-", IF k = 0 THEN r ELSE SubSeq(r, 1, k - 1))

ExtractSigned(t, sign) == ExtractDigits(t, sign, IF sign THEN Tail(t) ELSE t)

ExtractInt(s) ==
    LET t == SkipWs(s)
    IN  ExtractSigned(t, t # <<>> /\ Head(t) \in {"+", "-"})

(* s >> t for a t of type T, as libstdc++ does it: [fail, value].  bool    *)
(* without std::boolalpha reads an integer, 0 or 1; int8_t and uint8_t are *)
(* characters, one is read; a short is read as a long and set to the       *)
(* limit, with failbit, outside its range; an unsigned short takes a       *)
(* negative number modulo 2^16 and fails above its maximum.                *)
StreamGetOf(x, t, T) ==
    LET v == IF x.neg THEN -x.mag ELSE x.mag
    IN  CASE T = "bool" ->
               [fail |-> ~x.digits \/ v \notin {0, 1}, value |-> v = 1]
          [] Width(T) = 8 ->
               [fail |-> t = <<>>, value |-> IF t = <<>> THEN 0 ELSE Ascii[Head(t)]]
          [] ~x.digits -> [fail |-> TRUE, value |-> 0]
          [] Signed(T) /\ v < MinOf(T) -> [fail |-> TRUE, value |-> MinOf(T)]
          [] Signed(T) /\ v > MaxOf(T) -> [fail |-> TRUE, value |-> MaxOf(T)]
          [] ~Signed(T) /\ x.mag > MaxOf(T) -> [fail |-> TRUE, value |-> MaxOf(T)]
          [] OTHER -> [fail |-> FALSE,
                       value |-> IF Signed(T) THEN v ELSE v % (2^Width(T))]

StreamGet(s, T) == StreamGetOf(ExtractInt(s), SkipWs(s), T)

StreamBool(s) == StreamGet(s, "bool")

(* is<bool>(str)                                                           *)
isBool(s) ==
    IF s = TrueStr THEN TRUE
    ELSE IF s = FalseStr THEN FALSE
    ELSE ~StreamBool(s).fail

(* the result of to<T>(): throw ArgError when the extraction failed       *)
ThrowIfFailed(r) == [threw |-> r.fail, value |-> r.value]
NoThrow(r) == [threw |-> FALSE, value |-> r.value]

\* mutant of to: the value returned when the extraction failed
toNoThrow(s, T) == NoThrow(StreamGet(s, T))

(* to<T>(str): the value read, or throw ArgError                           *)
to(s, T) == ThrowIfFailed(StreamGet(s, T))

toBool(s) == to(s, "bool")

(* decimal digits of n >= 0                                                 *)
RECURSIVE Dec(_)
Dec(n) == IF n < 10 THEN <<Digits[n + 1]>> ELSE Dec(n \div 10) \o <<Digits[(n % 10) + 1]>>

(* to<T>(t) for an integer t: ostringstream << t (digits, '-' if negative) *)
ToText(n) == IF n < 0 THEN <<"-">> \o Dec(-n) ELSE Dec(n)

-----------------------------------------------------------------------------
(* str.find_first_of(delim, lastPos) as a 1-based index, 0 for npos        *)
FindFirstOf(str, delim, lastPos) ==
    SelectInSubSeq(str, lastPos + 1, Len(str), LAMBDA c : c \in delim)

(* the while loop of tokenize(), from lastPos on                           *)
RECURSIVE TokenizeFrom(_, _, _, _)

\* mutant of TokenizeFrom: while (lastPos < length)
TokenizeFromShort(str, delim, trimEmpty, lastPos) ==
    IF lastPos >= Len(str) THEN <<>>
    ELSE LET f   == FindFirstOf(str, delim, lastPos)
             pos == IF f = 0 THEN Len(str) ELSE f - 1
         IN  (IF pos # lastPos \/ ~trimEmpty
              THEN << SubSeq(str, lastPos + 1, pos) >> ELSE <<>>)
             \o TokenizeFrom(str, delim, trimEmpty, pos + 1)

TokenizeFrom(str, delim, trimEmpty, lastPos) ==
    IF lastPos >= Len(str) + 1 THEN <<>>
    ELSE LET f   == FindFirstOf(str, delim, lastPos)
             pos == IF f = 0 THEN Len(str) ELSE f - 1
         IN  (IF pos # lastPos \/ ~trimEmpty
              THEN << SubSeq(str, lastPos + 1, pos) >> ELSE <<>>)
             \o TokenizeFrom(str, delim, trimEmpty, pos + 1)

(* tokenize(str, tokens, delim, trimEmpty): tokens after the call          *)
tokenize(str, tokens, delim, trimEmpty) ==
    tokens \o TokenizeFrom(str, delim, trimEmpty, 0)

-----------------------------------------------------------------------------
(* Reference: the fields of str between the characters of delim, the       *)
(* empty ones dropped when trimEmpty                                       *)
RECURSIVE Fields(_, _)
Fields(str, delim) ==
    IF str = <<>> THEN << <<>> >>
    ELSE LET rest == Fields(Tail(str), delim)
         IN  IF Head(str) \in delim THEN << <<>> >> \o rest
             ELSE [rest EXCEPT ![1] = <<Head(str)>> \o @]

Split(str, delim, trimEmpty) ==
    IF trimEmpty THEN SelectSeq(Fields(str, delim), LAMBDA t : t # <<>>)
    ELSE Fields(str, delim)

(* what a format call should return for a text of length n                 *)
Expected(n) == IF n < 0 THEN Empty ELSE Text(n)

-----------------------------------------------------------------------------
Init == call = NoCall

(* a caller splits a string: tokenize(str, tokens, delim, trimEmpty)       *)
callTokenize ==
    /\ call = NoCall
    /\ \E str \in SeqOf(Chars, MaxStrLen), delim \in SUBSET Chars,
          trimEmpty \in BOOLEAN, tokens \in Befores :
          call' = [fn |-> "tokenize", in |-> <<str, delim, trimEmpty, tokens>>,
                   result |-> tokenize(str, tokens, delim, trimEmpty)]

(* a caller formats a text of length n with format(fmt, ...)               *)
callFormat ==
    /\ call = NoCall
    /\ \E n \in Lengths : \E r \in format(n) :
          call' = [fn |-> "format", in |-> n, result |-> r]

(* a variadic function of a caller formats a text of length n with         *)
(* vformat(fmt, ap), ap from its own va_start()                            *)
callVformat ==
    /\ call = NoCall
    /\ \E n \in Lengths : \E r \in vformat(n) :
          call' = [fn |-> "vformat", in |-> n, result |-> r]

(* a caller tests a string with is<bool>()                                 *)
callIs ==
    /\ call = NoCall
    /\ \E s \in BoolStrs : call' = [fn |-> "is", in |-> s, result |-> isBool(s)]

(* a caller converts a string with to<bool>()                              *)
callTo ==
    /\ call = NoCall
    /\ \E s \in BoolStrs : call' = [fn |-> "to", in |-> s, result |-> toBool(s)]

(* a caller converts a string with to<T>() for an integer type T: the     *)
(* text of a number (to<T>(t) of a wider type), or a string without one   *)
callToInt ==
    /\ call = NoCall
    /\ \E T \in IntTypes :
          \/ \E n \in TestInts :
                call' = [fn |-> "toint",
                         in |-> [type |-> T, num |-> TRUE, n |-> n, text |-> ToText(n)],
                         result |-> to(ToText(n), T)]
          \/ \E str \in NoNumbers :
                call' = [fn |-> "toint",
                         in |-> [type |-> T, num |-> FALSE, n |-> 0, text |-> str],
                         result |-> to(str, T)]

(* the call returns                                                        *)
Return ==
    /\ call # NoCall
    /\ call' = NoCall

Next ==
    \/ callTokenize \/ callFormat \/ callVformat \/ callIs \/ callTo \/ callToInt
    \/ Return

Spec == Init /\ [][Next]_call

-----------------------------------------------------------------------------
TypeOK ==
    call = NoCall
    \/ /\ call.fn \in {"tokenize", "format", "vformat"}
       /\ call.fn = "tokenize" => call.result \in Seq(Seq(Chars))
       /\ call.fn # "tokenize" =>
             call.result \in [len : Nat, good : Nat] \cup {Crash}
    \/ /\ call.fn = "is"
       /\ call.result \in BOOLEAN
    \/ /\ call.fn = "to"
       /\ call.result \in [threw : BOOLEAN, value : BOOLEAN]
    \/ /\ call.fn = "toint"
       /\ call.result \in [threw : BOOLEAN, value : Int]

(* tokenize() appends to tokens, after what it held, the fields of str     *)
(* between the characters of delim, in order, the empty ones only when     *)
(* trimEmpty is false: the first and last (possibly empty) field included, *)
(* for every string, every delimiter set and both values of trimEmpty.     *)
TokenizeSplits ==
    call # NoCall /\ call.fn = "tokenize" =>
        LET str == call.in[1]  delim == call.in[2]  trim == call.in[3]
        IN  call.result = call.in[4] \o Split(str, delim, trim)

(* format() returns the whole formatted text whatever its length, in       *)
(* particular around the first buffer size (255 and 256 characters), and   *)
(* the empty string on an encoding error.                                  *)
FormatComplete ==
    call # NoCall /\ call.fn = "format" => call.result = Expected(call.in)

(* to<T>(str) for int16_t and uint16_t returns the number the text of a   *)
(* number holds when T can hold it, at its limits too, and throws ArgError *)
(* above the maximum, below the minimum of int16_t, and on a string with   *)
(* no number.  (A negative number given to uint16_t is taken modulo 2^16, *)
(* as strtoul() does; the property leaves that case out.)                 *)
IntConversion ==
    call # NoCall /\ call.fn = "toint" /\ Width(call.in.type) = 16 =>
        LET T == call.in.type  n == call.in.n IN
        \/ ~call.in.num /\ call.result.threw
        \/ call.in.num /\ n \in MinOf(T)..MaxOf(T)
           /\ call.result = [threw |-> FALSE, value |-> n]
        \/ call.in.num /\ (n > MaxOf(T) \/ Signed(T)) /\ n \notin MinOf(T)..MaxOf(T)
           /\ call.result.threw
        \/ call.in.num /\ ~Signed(T) /\ n < 0

(* The twin helpers of Tools.cpp agree: vformat(fmt, ap) returns what      *)
(* format(fmt, ...) returns for the same arguments, past the first buffer  *)
(* size too; to<bool>() converts exactly the strings is<bool>() accepts;  *)
(* and to<int8_t>() and to<uint8_t>() convert the text of a number they   *)
(* can hold to that number, as to<int16_t>() and to<uint16_t>() do.       *)
SiblingsAgree ==
    call # NoCall =>
        /\ call.fn = "vformat" => call.result = Expected(call.in)
        /\ call.fn = "to" => (call.result.threw = ~isBool(call.in))
        /\ (call.fn = "toint" /\ Width(call.in.type) = 8 /\ call.in.num
            /\ call.in.n \in MinOf(call.in.type)..MaxOf(call.in.type))
              => call.result = [threw |-> FALSE, value |-> call.in.n]
=============================================================================
