------------------------------- MODULE Codec --------------------------------
(***************************************************************************)
(* src/frama_c/codec.rs and transport.rs: a payload on the socket is a     *)
(* frame, a letter that says how many digits follow, the length in those   *)
(* digits and the payload.  The socket gives the bytes in any portions;    *)
(* Transport keeps what is not yet a frame, over timeouts too.             *)
(*                                                                         *)
(* The base of the digits is 16 in the code and their numbers 3, 7 and 15; *)
(* smaller ones put all the limits within reach.  Payloads are strings of  *)
(* one byte, which is also a digit: nothing else marks where they begin.   *)
(***************************************************************************)
EXTENDS Naturals, Sequences, SequencesExt

CONSTANTS
  Base,          \* of the digits
  Digits,        \* the number of them after each letter
  PayloadLengths \* the lengths of the payloads that are sent

\* So many numbers have so many digits.
Power(digits) ==
  LET power[i \in 0..digits] == IF i = 0 THEN 1 ELSE Base * power[i - 1]
  IN power[digits]

ASSUME CodecAssumption ==
  /\ Base \in Nat \ {0, 1} /\ PayloadLengths \subseteq Nat
  /\ Digits \in [1..3 -> Nat \ {0}]
  /\ \A length \in PayloadLengths : length < Power(Digits[3])

\* The letters S, L and W are the bytes after the digits.
Letter(i) == Base + i

Payload(length) == [i \in 1..length |-> 1]

\* A number in at least so many digits, and in more if it takes them: what is
\* left of it without the last ones gives the next.
Hex(number, digits) ==
  LET left[i \in 0..digits + number] == IF i = 0 THEN number ELSE left[i - 1] \div Base
      width == CHOOSE w \in digits..digits + number :
                 left[w] = 0 /\ \A v \in digits..w - 1 : left[v] # 0
  IN [k \in 1..width |-> left[width - k] % Base]

\* from_str_radix.
Number(digits) ==
  LET number[k \in 0..Len(digits)] == IF k = 0 THEN 0 ELSE number[k - 1] * Base + digits[k]
  IN number[Len(digits)]

\* Mutant: one more than the digits can say.
OneTooMany(i) == Power(Digits[i])

\* 0xFFF and 0xFFF_FFFF.
Largest(i) == Power(Digits[i]) - 1

Width(length) ==
  IF length <= Largest(1) THEN 1 ELSE IF length <= Largest(2) THEN 2 ELSE 3

Encode(payload) ==
  LET i == Width(Len(payload))
  IN <<Letter(i)>> \o Hex(Len(payload), Digits[i]) \o payload

\* decode_frame: a frame and the bytes it takes, or why there is none.
Decode(buffer) ==
  IF buffer = <<>> THEN [result |-> "incomplete"]
  ELSE IF Head(buffer) \notin {Letter(i) : i \in 1..3} THEN [result |-> "malformed"]
  ELSE LET header == 1 + Digits[Head(buffer) - Base]
           digits == SubSeq(buffer, 2, header)
           total  == header + Number(digits)
       IN IF Len(buffer) < header THEN [result |-> "incomplete"]
          ELSE IF \E digit \in ToSet(digits) : digit >= Base THEN [result |-> "malformed"]
          ELSE IF Len(buffer) < total THEN [result |-> "incomplete"]
          ELSE [result |-> "frame", payload |-> SubSeq(buffer, header + 1, total), consumed |-> total]

\* recv_frame: the buffer is advanced by what a frame takes.
RecvFrame(state) ==
  LET decoded == Decode(state.buffer) IN
  IF state.result = "frame" /\ decoded.result = "frame"
    THEN [payloads |-> Append(state.payloads, decoded.payload),
          buffer |-> SubSeq(state.buffer, decoded.consumed + 1, Len(state.buffer)),
          result |-> "frame"]
    ELSE [state EXCEPT !.result = decoded.result]

\* It is called until it waits for more bytes or fails.
Receive(bytes) ==
  LET state[call \in 0..Len(bytes) + 1] ==
        IF call = 0 THEN [payloads |-> <<>>, buffer |-> bytes, result |-> "frame"]
        ELSE RecvFrame(state[call - 1])
  IN state[Len(bytes) + 1]

Sent(payloads) == FlattenSeq([i \in DOMAIN payloads |-> Encode(payloads[i])])

\* Whatever part of the frames has arrived, what is received are the payloads
\* that have arrived whole and nothing else, nothing is malformed, and what is
\* kept is the part of the next.
ReceiveInverts(payloads) ==
  LET bytes    == Sent(payloads)
      Bytes(k) == Len(Sent(SubSeq(payloads, 1, k)))
  IN \A arrived \in 0..Len(bytes) :
       LET received == Receive(SubSeq(bytes, 1, arrived))
           whole    == CHOOSE k \in 0..Len(payloads) :
                         Bytes(k) <= arrived /\ (k = Len(payloads) \/ Bytes(k + 1) > arrived)
       IN /\ received.result = "incomplete"
          /\ received.payloads = SubSeq(payloads, 1, whole)
          /\ received.buffer = SubSeq(bytes, Bytes(whole) + 1, arrived)

\* It is so for any two frames.
DecodeInvertsEncode ==
  \A m, n \in PayloadLengths : ReceiveInverts(<<Payload(m), Payload(n)>>)
=============================================================================
