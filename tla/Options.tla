------------------------------- MODULE Options -------------------------------
(***************************************************************************)
(* Socket options: how setsockopt, getsockopt and the accessors of         *)
(* lib/index.js convert a JavaScript value to what libzmq keeps and back.  *)
(* binding.cc chooses the C type from the number of the option, by sets    *)
(* that depend on the version of libzmq it is built for; libzmq refuses a  *)
(* value that has not the size of its own type.                            *)
(*                                                                         *)
(* An option is its number.  The widths of int, int64_t, the SOCKET of the *)
(* platform and the mantissa of a JavaScript number are parameters.        *)
(***************************************************************************)
EXTENDS Integers, Sequences, FiniteSetsExt

CONSTANTS IntBits, LongBits, SocketBits, Mantissa

ASSUME OptionsAssumption ==
  /\ {IntBits, LongBits, Mantissa} \subseteq Nat \ {0}
  /\ IntBits < Mantissa /\ Mantissa < LongBits - 1
  /\ SocketBits \in {IntBits, LongBits}

VARIABLE version     \* the major version of libzmq that binding.cc is built for

Versions == {2, 3, 4}
Option == 1 .. 66

Number(n, fraction) == [of |-> "number", n |-> n, fraction |-> fraction]
Bytes(kind, s) == [of |-> kind, s |-> s]

-----------------------------------------------------------------------------
(* The names that lib/index.js gives to options of sockets.                *)
longOptions == {1} \cup 3 .. 25 \cup {27, 28} \cup 31 .. 50 \cup {55}

(* The sets of Initialize.                                                 *)
opts_int(v) ==
  {14} \cup 16 .. 19 \cup {21} \cup 23 .. 25 \cup 27 .. 31 \cup 33 .. 37 \cup 39 .. 42
    \cup (IF v >= 3 THEN {8, 9, 11, 12, 13, 15} ELSE {})
    \cup (IF v >= 4 THEN {43, 44, 47, 51, 66} ELSE {})
opts_uint32(v) == IF v >= 3 THEN {} ELSE {15}
opts_int64(v) == {3, 8, 10, 20, 22} \cup (IF v >= 3 THEN {} ELSE {9, 13})
opts_uint64(v) == {1, 4} \cup (IF v >= 3 THEN {} ELSE {11, 12})
opts_binary(v) ==
  5 .. 7 \cup {32, 38} \cup (IF v >= 4 THEN {45, 46, 48, 49, 50, 55} ELSE {})

(* libzmq: the types its documentation gives for the options of versions   *)
(* 2.x, 3.2 and 4.x, and what it can be asked for.  It lets only a caller  *)
(* with room for exactly one of their two forms read the keys of CURVE, 48 *)
(* to 50.                                                                  *)
LibraryType(v, opt) ==
  CASE opt = 14 -> "SOCKET"
    [] opt \in {16, 17, 18, 19, 21, 27, 28} -> "int"
    [] opt = 4 -> "uint64"
    [] opt \in 5 .. 7 -> "binary"
    [] v = 2 /\ opt \in {1, 11, 12} -> "uint64"
    [] v = 2 /\ opt \in {3, 8, 9, 10, 13, 20} -> "int64"
    [] v = 2 /\ opt = 15 -> "uint32"
    [] v >= 3 /\ opt \in {8, 9, 11, 12, 13, 15, 23, 24, 25, 31} -> "int"
    [] v >= 3 /\ opt \in 33 .. 37 \cup {39, 40} -> "int"
    [] v >= 3 /\ opt = 22 -> "int64"
    [] v >= 3 /\ opt \in {32, 38} -> "binary"
    [] v >= 4 /\ opt \in 41 .. 44 \cup {47, 51, 52, 53, 54, 66} -> "int"
    [] v >= 4 /\ opt \in {45, 46, 48, 49, 50, 55} -> "binary"
    [] OTHER -> "none"
ReadOnly == {13, 14, 15, 16, 32, 43}
WriteOnly == {6, 7, 33, 38, 40, 41, 48, 49, 50, 51, 52, 53, 54}

(* Mistake: the larger type is looked for first.                           *)
WidestType(v, opt) ==
  IF opt \in opts_int64(v) THEN "int64"
  ELSE IF opt \in opts_uint64(v) THEN "uint64"
  ELSE IF opt \in opts_int(v) THEN "int"
  ELSE IF opt \in opts_uint32(v) THEN "uint32"
  ELSE IF opt \in opts_binary(v) THEN "binary"
  ELSE "none"

(* The type of GetSockOpt, which looks in this order.                      *)
Type(v, opt) ==
  IF opt \in opts_int(v) THEN "int"
  ELSE IF opt \in opts_uint32(v) THEN "uint32"
  ELSE IF opt \in opts_int64(v) THEN "int64"
  ELSE IF opt \in opts_uint64(v) THEN "uint64"
  ELSE IF opt \in opts_binary(v) THEN "binary"
  ELSE "none"

(* SetSockOpt uses int64_t for the options of opts_uint64.                 *)
SetType(v, opt) == IF Type(v, opt) = "uint64" THEN "int64" ELSE Type(v, opt)

Bits(type) ==
  CASE type \in {"int", "uint32"} -> IntBits
    [] type = "SOCKET" -> SocketBits
    [] OTHER -> LongBits

(* 0 is any size, -1 none.                                                 *)
Size(type) == IF type = "binary" THEN 0 ELSE IF type = "none" THEN -1 ELSE Bits(type)

Lowest(type) == IF type \in {"uint32", "uint64"} THEN 0 ELSE -(2 ^ (Bits(type) - 1))
Highest(type) == Lowest(type) + 2 ^ Bits(type) - 1

-----------------------------------------------------------------------------
(* The number that has the bits of n in a type.                            *)
Wrapped(n, type) == Lowest(type) + ((n - Lowest(type)) % (2 ^ Bits(type)))

(* Nan::To<T> of the whole part of a Number: an int is wrapped, an int64_t *)
(* is the nearest one.                                                     *)
To(n, type) ==
  IF Bits(type) = IntBits
    THEN Wrapped(n, type)
    ELSE Min({Highest(type), Max({Lowest(type), n})})

(* The Number nearest to n: a multiple of the unit of its last place, an   *)
(* even one of two that are as near.                                       *)
Abs(n) == IF n < 0 THEN -n ELSE n
Rounded(n) ==
  LET unit == Min({u \in {2 ^ e : e \in 0 .. LongBits} : Abs(n) < u * 2 ^ Mantissa})
      below == n \div unit
      rest == n % unit
      up == 2 * rest > unit \/ (2 * rest = unit /\ (below % 2) = 1)
  IN unit * (IF up THEN below + 1 ELSE below)

(* Bytes are told apart as characters, as what is no UTF-8, and as U+FFFD, *)
(* which that is decoded to.  A string ends at the first zero byte.        *)
zero == 0
character == 1
malformed == 2
replacement == 3
CString(s) ==
  LET zeros == {i \in DOMAIN s : s[i] = zero}
  IN IF zeros = {} THEN s ELSE SubSeq(s, 1, Min(zeros) - 1)
Decoded(s) == [i \in DOMAIN s |-> IF s[i] = malformed THEN replacement ELSE s[i]]

(* What SetSockOpt makes libzmq keep of a value.                           *)
Kept(v, opt, val) ==
  IF Type(v, opt) = "binary"
    THEN val.s
    ELSE Wrapped(To(val.n, SetType(v, opt)), LibraryType(v, opt))

(* Mistake: an unsigned value is read as a signed one.                     *)
ReadSigned(v, opt, kept) ==
  IF Type(v, opt) = "binary"
    THEN Bytes("string", Decoded(CString(kept)))
    ELSE Number(Rounded(Wrapped(kept, SetType(v, opt))), FALSE)

(* What GetSockOpt makes of what libzmq keeps.                             *)
Read(v, opt, kept) ==
  IF Type(v, opt) = "binary"
    THEN Bytes("string", Decoded(CString(kept)))
    ELSE Number(Rounded(kept), FALSE)

-----------------------------------------------------------------------------
(* The values a program may give: Numbers beyond both widths, some with a  *)
(* fraction, and strings and buffers.                                      *)
Doubles ==
  {Number(n, fraction) : n \in {m \in -(2 ^ (LongBits + 1)) .. 2 ^ (LongBits + 1) : Rounded(m) = m},
                         fraction \in BOOLEAN}
Texts == {<<a, b>> : a, b \in {zero, character, malformed, replacement}}
            \cup {<<>>, <<character, zero, character>>}
Values ==
  {val \in Doubles : val.fraction => Abs(val.n) < 2 ^ (Mantissa - 1)}
    \cup {Bytes("buffer", s) : s \in Texts}
    \cup {Bytes("string", s) : s \in {t \in Texts : \A i \in DOMAIN t : t[i] # malformed}}

(* The setters turn strings to Buffers, setsockopt does not.               *)
Converted(val, accessor) ==
  IF accessor /\ val.of = "string" THEN Bytes("buffer", val.s) ELSE val

(* Has the value the right kind, and libzmq the option, for writing, in the*)
(* size it is given in?  It may still refuse the value by a rule of its own*)
(* for the option.                                                         *)
Takes(v, opt, val) ==
  LET type == SetType(v, opt)
  IN /\ type # "none" /\ val.of = (IF type = "binary" THEN "buffer" ELSE "number")
     /\ opt \notin ReadOnly /\ Size(LibraryType(v, opt)) = Size(type)

-----------------------------------------------------------------------------
OptionsInit == version \in Versions

OptionsSpec == OptionsInit /\ [][FALSE]_version

-----------------------------------------------------------------------------
(* The options that libzmq has in a version and that binding.cc has in a   *)
(* set, or lib/index.js a name for, with another size than libzmq's.       *)
Misfits == [v \in Versions |->
  {opt \in Option :
     /\ opt \in longOptions \/ Type(v, opt) # "none"
     /\ LibraryType(v, opt) # "none"
     /\ {Size(Type(v, opt)), Size(SetType(v, opt))} # {Size(LibraryType(v, opt))}}]

(* No option is refused, nor memory read or written, with a wrong size,    *)
(* whatever the version, and no name is unknown.  The exception is ZMQ_FD  *)
(* where a SOCKET is wider than an int: it cannot be read from JavaScript. *)
RightSize == Misfits[version] = IF SocketBits = IntBits THEN {} ELSE {14}

InRange(type, n) == n \in Lowest(type) .. Highest(type)

(* The values that should read as they were given: whole numbers that both *)
(* the type and int64_t have, and, for an option of 64 bits, the first     *)
(* number beyond int64_t; texts of UTF-8 without a zero byte.              *)
Faithful(v, opt, val) ==
  LET type == LibraryType(v, opt)
  IN IF type = "binary"
       THEN \A i \in DOMAIN val.s : val.s[i] \notin {zero, malformed}
       ELSE /\ ~val.fraction
            /\ \/ InRange(type, val.n) /\ InRange("int64", val.n)
               \/ Bits(type) = LongBits /\ val.n = Highest("int64") + 1

Same(val, answer) ==
  IF val.of = "number" THEN answer = val ELSE answer.s = val.s

(* The options of which the claim below is wrong, for some value.          *)
Exceptions == [v \in Versions |->
  {opt \in Option \ WriteOnly : \E value \in Values, accessor \in BOOLEAN :
     LET val == Converted(value, accessor)
     IN /\ Takes(v, opt, val)
        /\ Same(val, Read(v, opt, Kept(v, opt, val))) # Faithful(v, opt, val)}]

(* A value that libzmq took is read as it was given exactly when it is     *)
(* Faithful.                                                               *)
ReadsBack == Exceptions[version] = {}

=============================================================================
