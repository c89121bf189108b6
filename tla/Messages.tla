------------------------------ MODULE Messages -------------------------------
(***************************************************************************)
(* The bytes of a message: messages.c of the PC application, of which the  *)
(* firmware has a copy in main.cpp, and the 16-bit fields of the messages  *)
(* of homework 10.  A message is its type and its fields, a field a number *)
(* of as many bytes as it is wide.  (That a double is its number is left   *)
(* to memcpy.)                                                             *)
(***************************************************************************)
EXTENDS Integers, Sequences, SequencesExt

CONSTANTS
  BYTE,              \* values of a byte, 256 in the code
  DOUBLE,            \* bytes of a double, 8 in the code
  STARTUP_MSG_LEN    \* 9 in the code

(* The order of the enumeration message_type.  Homework 10 has its two     *)
(* messages where MSG_COMPUTE is, here they have numbers of their own.     *)
TypeNames == <<"MSG_OK", "MSG_ERROR", "MSG_ABORT", "MSG_DONE", "MSG_GET_VERSION",
               "MSG_VERSION", "MSG_STARTUP", "MSG_SET_COMPUTE", "MSG_COMPUTE",
               "MSG_COMPUTE_DATA", "MSG_ENHANCE_BAUD", "HW10_COMPUTE", "HW10_DATA">>

(* The widths of the fields, in the order they are stored.                 *)
Fields(type) ==
  CASE type = "MSG_VERSION" -> <<1, 1, 1>>
    [] type = "MSG_STARTUP" -> [i \in 1 .. STARTUP_MSG_LEN |-> 1]
    [] type = "MSG_SET_COMPUTE" -> <<DOUBLE, DOUBLE, DOUBLE, DOUBLE, 1>>
    [] type = "MSG_COMPUTE" -> <<1, DOUBLE, DOUBLE, 1, 1>>
    [] type = "MSG_COMPUTE_DATA" -> <<1, 1, 1, 1>>
    [] type = "HW10_COMPUTE" -> <<2, 2>>
    [] type = "HW10_DATA" -> <<2, 2, 1>>
    [] OTHER -> << >>

get_message_size(type) ==
  CASE type = "MSG_STARTUP" -> 2 + STARTUP_MSG_LEN
    [] type = "MSG_VERSION" -> 2 + 3
    [] type = "MSG_SET_COMPUTE" -> 2 + 4 * DOUBLE + 1
    [] type = "MSG_COMPUTE" -> 2 + 1 + 2 * DOUBLE + 2
    [] type = "MSG_COMPUTE_DATA" -> 2 + 4
    [] type = "HW10_COMPUTE" -> 2 + 2 * 2
    [] type = "HW10_DATA" -> 2 + 2 * 2 + 1
    [] OTHER -> 2

(* What the constants must be; assumed where there is an instance.  The    *)
(* number of a type fits into a byte.                                      *)
MessagesAssumption ==
  /\ BYTE \in Nat /\ BYTE >= Len(TypeNames)
  /\ DOUBLE \in Nat /\ STARTUP_MSG_LEN \in Nat

-----------------------------------------------------------------------------
(* What is left of a value without its i lowest bytes.                     *)
Shifted(value, width) ==
  LET rest[i \in 0 .. width] == IF i = 0 THEN value ELSE rest[i - 1] \div BYTE
  IN  rest

(* memcpy on a machine that stores the low byte first, and the shifts of   *)
(* homework 10, which send the high byte first.                            *)
HighFirst(type) == type \in {"HW10_COMPUTE", "HW10_DATA"}

ToBytes(value, width, type) ==
  LET low == [i \in 1 .. width |-> Shifted(value, width)[i - 1] % BYTE]
  IN  IF HighFirst(type) THEN Reverse(low) ELSE low

FromBytes(bytes, type) ==
  LET high == IF HighFirst(type) THEN bytes ELSE Reverse(bytes)
      value[i \in 0 .. Len(bytes)] == IF i = 0 THEN 0 ELSE value[i - 1] * BYTE + high[i]
  IN  value[Len(bytes)]

Total(numbers) ==
  LET sum[i \in 0 .. Len(numbers)] == IF i = 0 THEN 0 ELSE sum[i - 1] + numbers[i]
  IN  sum[Len(numbers)]

SumOf(bytes) == Total(bytes) % BYTE

(* Where the k-th field is in the buffer, whose first byte is the type.    *)
At(type, k) == 1 + Total(SubSeq(Fields(type), 1, k - 1))

Index(type) == CHOOSE i \in DOMAIN TypeNames : TypeNames[i] = type

fill_message_buf(msg) ==
  LET body == <<Index(msg.type) - 1>> \o FlattenSeq(
                [k \in DOMAIN msg.data |->
                   ToBytes(msg.data[k], Fields(msg.type)[k], msg.type)])
  IN  Append(body, (BYTE - 1) - SumOf(body))

Refused == [type |-> "refused"]

(* A plausible slip: the checksum is not tested.                           *)
AcceptsUnsummed(buf) ==
  /\ buf[1] + 1 \in DOMAIN TypeNames
  /\ Len(buf) = get_message_size(TypeNames[buf[1] + 1])

(* The sum of all bytes, the type and the size of the type.                *)
Accepts(buf) ==
  /\ SumOf(buf) = BYTE - 1
  /\ buf[1] + 1 \in DOMAIN TypeNames
  /\ Len(buf) = get_message_size(TypeNames[buf[1] + 1])

parse_message_buf(buf) ==
  IF ~Accepts(buf) THEN Refused
  ELSE LET type == TypeNames[buf[1] + 1]
       IN  [type |-> type,
            data |-> [k \in DOMAIN Fields(type) |->
                        LET at == At(type, k)
                        IN  FromBytes(SubSeq(buf, at + 1, at + Fields(type)[k]), type)]]

-----------------------------------------------------------------------------
(* What one side sends the other reads: tables of sizes, places of fields  *)
(* and the order of the bytes agree.  A byte that arrives as another is    *)
(* noticed, whichever it is.                                               *)
ReadAsSentOrRefused(msg) ==
  LET buf == fill_message_buf(msg)
  IN  /\ parse_message_buf(buf) = msg
      /\ \A i \in DOMAIN buf, b \in 0 .. BYTE - 1 :
           b # buf[i] => parse_message_buf([buf EXCEPT ![i] = b]) = Refused
=============================================================================
