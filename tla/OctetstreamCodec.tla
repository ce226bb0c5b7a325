-------------------------- MODULE OctetstreamCodec --------------------------
(* The codec of application/octet-stream: numbers, booleans and strings as   *)
(* bytes, according to the type of the schema and the parameters length,     *)
(* signed and byteorder of the content type. A value is a pair of its kind   *)
(* and its content; bytes are a sequence of numbers, the bytes of a string   *)
(* in a charset or those of a floating point number. A byte has Bits bits,   *)
(* eight in the code, so that one to four of them fit the integers of a      *)
(* checker too.                                                              *)
EXTENDS Integers, Sequences, SequencesExt

CONSTANT Bits                     \* bits of a byte
ASSUME BitsAssumption == Bits \in 2 .. 8

Radix == 2 ^ Bits
NaN == -1                         \* +undefined / 8, the width of "short"

Fails == <<"error">>
Undefined == <<"undefined">>
Null == <<"null">>
Number(n) == <<"number", n>>
Boolean(b) == <<"boolean", b>>
Octets(b) == <<"octets", b>>
Encoded(string, charset) == <<"text", string, charset>>
Text(string) == Encoded(string, "utf8")
Float(n, length, big) == <<"float", n, length, big>>
Empty == Octets(<<>>)

Given(parameters, name, default) ==
    IF name \in DOMAIN parameters THEN parameters[name] ELSE default

(* The names that a buffer knows for a charset.                              *)
Charset(name) ==
    CASE name \in {"utf8", "utf-8"} -> "utf8"
      [] name \in {"utf16le", "ucs2", "ucs-2"} -> "utf16le"
      [] name \in {"latin1", "binary"} -> "latin1"
      [] name \in {"ascii", "base64", "hex"} -> name
      [] OTHER -> "unknown"

CharsetOf(parameters) == Charset(Given(parameters, "charset", "utf8"))

(* A buffer refuses a charset that it does not know; the characters that     *)
(* another charset makes of the bytes are not looked at.                     *)
Characters(bytes, charset) ==
    CASE bytes = Empty -> <<"string", "">>
      [] bytes # Empty /\ charset = "unknown" -> Fails
      [] bytes # Empty /\ bytes[1] = "text" /\ bytes[3] = charset -> bytes[2]
      [] bytes # Empty /\ bytes[1] = "json" /\ charset = "utf8" ->
            <<"printed", bytes[2]>>
      [] OTHER -> <<"raw", bytes>>

(* Types that name their sign, their kind and their width. The width of a    *)
(* name without one is not a number.                                         *)
Typed ==
    [int8 |-> <<TRUE, "int", 1>>, uint8 |-> <<FALSE, "int", 1>>,
     int16 |-> <<TRUE, "int", 2>>, uint16 |-> <<FALSE, "int", 2>>,
     int32 |-> <<TRUE, "int", 4>>, uint32 |-> <<FALSE, "int", 4>>,
     short |-> <<TRUE, "short", NaN>>, byte |-> <<TRUE, "byte", NaN>>,
     float16 |-> <<TRUE, "float", 2>>, float32 |-> <<TRUE, "float", 4>>]

(* Sign, kind and length a codec works with: those the type names, or those  *)
(* of the parameters.                                                        *)
Shape(type, signed, length) ==
    IF type \in DOMAIN Typed THEN Typed[type] ELSE <<signed, type, length>>

InRange(n, length, signed) ==
    IF signed
    THEN n \in -(Radix ^ length \div 2) .. Radix ^ length \div 2 - 1
    ELSE n \in 0 .. Radix ^ length - 1

(* 1 << count, of a word of four bytes.                                      *)
Shifted(count) == 2 ^ (count % (4 * Bits))

-----------------------------------------------------------------------------
(* The length that is checked is the one of the parameters, and the bound    *)
(* is the one of unsigned numbers for both signs: the buffer refuses the     *)
(* rest. A value of another length than 1, 2 or 4 is written byte by byte as *)
(* signed bytes of a quotient that keeps its fraction.                       *)
WriteOther(n, length, signed, big) ==
    LET unsigned == IF signed /\ n < 0 THEN n + Shifted(Bits * length) ELSE n
        refused(i) == unsigned % Radix ^ (i + 1)
                        > (Radix \div 2 - 1) * Radix ^ i
        bytes == [i \in 1 .. length |->
                    (unsigned \div Radix ^ (length - i)) % Radix]
    IN  IF \E i \in 0 .. length - 1 : refused(i) THEN Fails
        ELSE Octets(IF big THEN bytes ELSE Reverse(bytes))

WriteInteger(n, length, signed, big) ==
    LET limit == Radix ^ length - 1
        unsigned == n % Radix ^ length
        bytes == [i \in 1 .. length |->
                    (unsigned \div Radix ^ (length - i)) % Radix]
    IN  IF \/ length = NaN \/ n >= limit
           \/ n < (IF signed THEN -limit ELSE 0)
        THEN Fails
        ELSE IF length \notin {1, 2, 4}
        THEN WriteOther(n, length, signed, big)
        ELSE IF ~InRange(n, length, signed) THEN Fails
        ELSE Octets(IF big THEN bytes ELSE Reverse(bytes))

Truthy(value) ==
    value \notin {Undefined, Null, Number(0), Boolean(FALSE), <<"string", "">>}

StringOf(value) ==
    IF value[1] \in {"string", "printed", "raw"} THEN value
    ELSE <<"printed", value>>

(* Numbers of a type without a length are written with four or eight bytes,  *)
(* and a string in utf8, whatever its charset is to be.                      *)
ValueToBytes(value, type, parameters) ==
    LET big == Given(parameters, "bigendian", TRUE)
        shape == Shape(type, Given(parameters, "signed", TRUE),
                       Given(parameters, "length", 0))
        length == shape[3]
    IN  CASE value = Undefined -> Fails
          [] value # Undefined /\ shape[2] = "boolean" ->
                IF length = 0 THEN Fails
                ELSE Octets([i \in 1 .. length |->
                               IF Truthy(value) THEN Radix - 1 ELSE 0])
          [] value # Undefined /\ shape[2] \in {"byte", "short", "int", "integer"} ->
                IF value[1] # "number" THEN Fails
                ELSE WriteInteger(value[2], IF length = 0 THEN 4 ELSE length,
                                  shape[1], big)
          [] value # Undefined /\ shape[2] \in {"float", "number"} ->
                IF value[1] # "number" \/ length \notin {0, 2, 4, 8} THEN Fails
                ELSE Float(value[2], IF length = 0 THEN 8 ELSE length, big)
          [] value # Undefined /\ shape[2] = "string" -> Text(StringOf(value))
          [] value # Undefined /\ shape[2] \in {"array", "object"} -> Fails
          [] OTHER -> Null

-----------------------------------------------------------------------------
Accumulated(bytes) ==
    LET sum[i \in 0 .. Len(bytes)] == IF i = 0 THEN 0 ELSE sum[i - 1] * Radix + bytes[i]
    IN  sum[Len(bytes)]

Int32(n) ==
    LET word == Radix ^ 4
    IN  IF n % word < word \div 2 THEN n % word ELSE (n % word) - word

(* prev << 8 + curr shifts by the sum of 8 and the next byte.                *)
ReadOther(bytes, length, signed, big) ==
    LET ordered == IF big THEN bytes ELSE Reverse(bytes)
        sign == IF big THEN 1 ELSE length
        result == FoldLeft(LAMBDA prev, curr : Int32(prev * Shifted(Bits + curr)),
                           Head(ordered), Tail(ordered))
    IN  IF bytes = <<>> \/ sign \notin 1 .. Len(bytes) THEN Fails
        ELSE Number(IF signed /\ bytes[sign] >= Radix \div 2
                    THEN result - Shifted(IF length = NaN THEN 0 ELSE Bits * length)
                    ELSE result)

(* The byte order of the content type is not looked at.                      *)
ReadIntegerBigEndian(bytes, length, signed, big) ==
    LET n == Accumulated(SubSeq(bytes, 1, length))
    IN  IF length \notin {1, 2, 4} \/ Len(bytes) < length THEN Fails
        ELSE Number(IF signed /\ n >= Radix ^ length \div 2
                    THEN n - Radix ^ length ELSE n)

ReadInteger(bytes, length, signed, big) ==
    LET read == SubSeq(bytes, 1, length)
        n == Accumulated(IF big THEN read ELSE Reverse(read))
    IN  IF length \notin {1, 2, 4} THEN ReadOther(bytes, length, signed, big)
        ELSE IF Len(bytes) < length THEN Fails
        ELSE Number(IF signed /\ n >= Radix ^ length \div 2
                    THEN n - Radix ^ length ELSE n)

(* A number in other bytes or in the other order is another number.          *)
ReadFloat(bytes, length, big) ==
    IF bytes[1] # "float" \/ length \notin {2, 4, 8} THEN Fails
    ELSE IF bytes[3] = length /\ bytes[4] = big THEN Number(bytes[2])
    ELSE <<"another">>

LengthOf(bytes) ==
    CASE bytes[1] = "octets" -> Len(bytes[2])
      [] bytes[1] = "float" -> bytes[3]
      [] OTHER -> 1               \* the bytes of a string, whatever they are

(* Unlike valueToBytes(), numbers without a parameter are unsigned.          *)
BytesToValue(bytes, type, parameters) ==
    LET big == Given(parameters, "bigendian", TRUE)
        shape == Shape(type, Given(parameters, "signed", FALSE), LengthOf(bytes))
        refused == "length" \in DOMAIN parameters
                     /\ parameters.length # LengthOf(bytes)
    IN  CASE refused -> Fails
          [] ~refused /\ shape[2] = "boolean" ->
                Boolean(\E i \in DOMAIN bytes[2] : bytes[2][i] # 0)
          [] ~refused /\ shape[2] \in {"byte", "short", "int", "integer"} ->
                ReadInteger(bytes[2], shape[3], shape[1], big)
          [] ~refused /\ shape[2] \in {"float", "double", "number"} ->
                ReadFloat(bytes, shape[3], big)
          [] ~refused /\ shape[2] = "string" ->
                Characters(bytes, CharsetOf(parameters))
          [] ~refused /\ shape[2] \in {"array", "object"} -> Fails
          [] ~refused /\ shape[2] = "null" -> Null
          [] OTHER -> Undefined
=============================================================================
