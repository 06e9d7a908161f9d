------------------------------- MODULE HttpParse -------------------------------
(***************************************************************************)
(* parse_response of src/http.rs: how the body of a response is found and  *)
(* decoded, from whatever part of the response LmeSession::receive had     *)
(* when it returned Ok: the connection may end after any byte.             *)
(*                                                                         *)
(* A byte is a number.  Those below Base are the digits of a chunk's size, *)
(* and nothing keeps a body from containing digits and line ends as well.  *)
(* Of the header the model keeps the empty line that ends it and what is   *)
(* announced of the body; status line and challenge are in Activation.     *)
(***************************************************************************)
EXTENDS Integers, Sequences, FiniteSets

CONSTANTS
  Base,     \* the base of chunk sizes (16)
  MaxBody,  \* length of HttpResponse.body (HTTP_MAX_BODY)
  Bytes,    \* bytes of a body
  MaxLen    \* bound: length of a body

CR == Base
LF == Base + 1
Text == Base + 2  \* a byte of the header's lines

ASSUME ParseAssumption ==
  /\ Base \in Nat \ {0, 1}
  /\ MaxBody \in Nat \ {0}
  /\ Bytes \subseteq Nat /\ MaxLen \in Nat

VARIABLES
  sent,      \* the body of the ME's response
  chunked,   \* Transfer-Encoding: chunked
  declared,  \* Content-Length, 0 when there is none
  raw,       \* what was received of the response
  came,      \* bytes of the body in raw
  torn,      \* raw ends between the CR and the LF of a chunk's size
  pc,        \* where parse_response is
  src,       \* bytes of raw behind the parser
  chunkSize, hasDigits,
  body       \* resp.body up to body_len

input == <<sent, chunked, declared, raw, came, torn>>
size  == <<chunkSize, hasDigits>>
vars  == <<input, pc, src, size, body>>

-----------------------------------------------------------------------------
(* The web server of the ME (external).  Each byte of a response goes with *)
(* what it is part of.                                                     *)

Marked(s, part) == [i \in 1 .. Len(s) |-> [byte |-> s[i], part |-> part]]

Header == Marked(<<Text, CR, LF, CR, LF>>, "header")

Bodies == UNION {[1 .. n -> Bytes] : n \in 0 .. MaxLen}

(* The digits of a size, most significant first.                           *)
Power[k \in Nat] == IF k = 0 THEN 1 ELSE Base * Power[k - 1]

Width(n) == CHOOSE k \in 1 .. n : Power[k - 1] <= n /\ n < Power[k]

Digits(n) == [i \in 1 .. Width(n) |-> (n \div Power[Width(n) - i]) % Base]

Chunk(data) ==
  Marked(Digits(Len(data)) \o <<CR, LF>>, "size")
    \o Marked(data, "data") \o Marked(<<CR, LF>>, "end")

(* A body in chunks that end at the positions in cuts: what of it is left   *)
(* behind each of them.                                                    *)
After(cuts, p) == CHOOSE q \in cuts : q > p /\ \A r \in cuts : r > p => q <= r

Tails(b, cuts) ==
  LET From[p \in {0} \cup cuts] ==
        IF p = Len(b) THEN Marked(<<0, CR, LF, CR, LF>>, "end")
        ELSE Chunk(SubSeq(b, p + 1, After(cuts, p))) \o From[After(cuts, p)]
  IN From

Chunks(b, cuts) == Tails(b, cuts)[0]

Cuts(b) == {c \cup ({Len(b)} \ {0}) : c \in SUBSET (1 .. Len(b) - 1)}

Response(b, cuts) ==
  Header \o (IF chunked THEN Chunks(b, cuts) ELSE Marked(b, "data"))

(* The first n bytes of a response are received.                           *)
Received(wire, n) ==
  /\ raw = [i \in 1 .. n |-> wire[i].byte] /\ raw \in Seq(Nat)
  /\ came = Cardinality({i \in 1 .. n : wire[i].part = "data"})
  /\ torn = (n > 0 /\ wire[n].part = "size" /\ wire[n].byte = CR)

Init ==
  /\ sent \in Bodies /\ chunked \in BOOLEAN
  /\ declared \in IF chunked THEN {0} ELSE {0, Len(sent)}
  /\ \E cuts \in IF chunked THEN Cuts(sent) ELSE {{}} :
       \E n \in 0 .. Len(Response(sent, cuts)) : Received(Response(sent, cuts), n)
  /\ pc = "header" /\ src = 0 /\ body = <<>>
  /\ chunkSize = 0 /\ hasDigits = FALSE

-----------------------------------------------------------------------------
(* parse_response.                                                         *)

Least(a, b) == IF a < b THEN a ELSE b

(* ascii_find: where the needle begins, counted from zero.                 *)
Places(s, needle) ==
  {p \in 0 .. Len(s) - Len(needle) : SubSeq(s, p + 1, p + Len(needle)) = needle}

EmptyLine == <<CR, LF, CR, LF>>

Found == Places(raw, EmptyLine)

FindBody ==
  /\ pc = "header"
  /\ \/ Found = {} /\ src' = Len(raw)
     \/ \E p \in Found : (\A q \in Found : p <= q) /\ src' = p + Len(EmptyLine)
  /\ pc' = IF chunked THEN "chunk" ELSE "plain"
  /\ UNCHANGED <<input, size, body>>

(* Without chunks: what is there, up to the content length, if any, and to *)
(* the end of the buffer.                                                  *)
Announced(n) == IF declared > 0 THEN Least(declared, n) ELSE n

CopyPlain ==
  /\ pc = "plain"
  /\ body' = SubSeq(raw, src + 1,
                    src + Least(Announced(Len(raw) - src), MaxBody - 1))
  /\ pc' = "done"
  /\ UNCHANGED <<input, src, size>>

More == src < Len(raw)

NextChunk ==
  /\ pc = "chunk"
  /\ pc' = IF More /\ Len(body) < MaxBody - 1 THEN "size" ELSE "done"
  /\ chunkSize' = 0 /\ hasDigits' = FALSE
  /\ UNCHANGED <<input, src, body>>

AtDigit == More /\ raw[src + 1] < Base

ReadDigitAlone ==
  /\ pc = "size" /\ AtDigit
  /\ chunkSize' = raw[src + 1]
  /\ hasDigits' = TRUE
  /\ src' = src + 1
  /\ UNCHANGED <<input, pc, body>>

ReadDigit ==
  /\ pc = "size" /\ AtDigit
  /\ chunkSize' = Base * chunkSize + raw[src + 1]
  /\ hasDigits' = TRUE
  /\ src' = src + 1
  /\ UNCHANGED <<input, pc, body>>

SkippedBlindly(p) == p + 2

(* A line end is skipped when all of it is there.                          *)
Skipped(p) ==
  IF p + 1 < Len(raw) /\ raw[p + 1] = CR /\ raw[p + 2] = LF THEN p + 2 ELSE p

EndSizeAtZero ==
  /\ pc = "size" /\ ~AtDigit
  /\ IF hasDigits /\ chunkSize = 0
     THEN pc' = "done" /\ UNCHANGED src
     ELSE pc' = "copy" /\ src' = Skipped(src)
  /\ UNCHANGED <<input, size, body>>

(* The last chunk, or no chunk at all, ends the body.                      *)
EndSize ==
  /\ pc = "size" /\ ~AtDigit
  /\ IF ~hasDigits \/ chunkSize = 0
     THEN pc' = "done" /\ UNCHANGED src
     ELSE pc' = "copy" /\ src' = Skipped(src)
  /\ UNCHANGED <<input, size, body>>

(* What is there of the chunk, up to the end of the buffer; the parser     *)
(* goes on behind all that was announced.                                  *)
CopyLength ==
  Least(Least(chunkSize, Len(raw) - src), MaxBody - 1 - Len(body))

CopyChunk ==
  /\ pc = "copy"
  /\ body' = body \o SubSeq(raw, src + 1, src + CopyLength)
  /\ src' = Skipped(src + chunkSize)
  /\ pc' = "chunk"
  /\ UNCHANGED <<input, size>>

Returned == pc = "done" /\ UNCHANGED vars

Parse == FindBody \/ CopyPlain \/ NextChunk \/ ReadDigit \/ EndSize \/ CopyChunk

Next == Parse \/ Returned

Spec == Init /\ [][Next]_vars

FairSpec == Spec /\ WF_vars(Parse)

-----------------------------------------------------------------------------
(* The types of the variables, and the bounds of every slice the code      *)
(* takes: src is within what was received where bytes are copied from it,  *)
(* and one byte of HttpResponse.body is left for the zero.                 *)
TypeOK ==
  /\ raw \in Seq(Nat) /\ chunked \in BOOLEAN /\ declared \in Nat
  /\ pc \in {"header", "plain", "chunk", "size", "copy", "done"}
  /\ src \in Nat /\ chunkSize \in Nat /\ hasDigits \in BOOLEAN
  /\ pc \in {"plain", "size", "copy"} => src <= Len(raw)
  /\ body \in Seq(Nat) /\ Len(body) <= MaxBody - 1

(* The body that is returned is all that came of the body that was sent,   *)
(* as far as the buffer holds it, wherever the response broke off and      *)
(* whatever the body contains: sizes and line ends in it are not taken for *)
(* those of the encoding.  Only a response that broke off between the CR   *)
(* and the LF behind a size leaves the CR in the body.                     *)
BodyIsWhatCame ==
  pc = "done" =>
    body = SubSeq(sent, 1, Least(came, MaxBody - 1))
             \o (IF torn /\ came < MaxBody - 1 THEN <<CR>> ELSE <<>>)

(* parse_response returns, for every response and every cut.               *)
ParseReturns == <>(pc = "done")
=============================================================================
