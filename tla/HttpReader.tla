----------------------------- MODULE HttpReader -----------------------------
(***************************************************************************)
(* One exchange of the sender's HTTP client (common/net/dsh_http.c): the   *)
(* answer's headers and body come in pieces cut anywhere, under one of     *)
(* three framings, and the webserver may fall silent at any point.  The    *)
(* pieces are tokens: a part of the headers, the blank line that ends      *)
(* them, the digits of a chunk size, a line end, a byte of the body.       *)
(***************************************************************************)
EXTENDS Integers, Sequences, SequencesExt

CONSTANTS HttpBody,       \* the body the webserver sends, a sequence of numbers
          HttpMaxHeader,  \* DSH_HTTP_MAX_HEADER, in tokens
          HttpMaxBody     \* DSH_HTTP_MAX_BODY, in tokens

ASSUME HttpAssumption ==
  HttpBody \in Seq(Nat) /\ HttpMaxHeader \in Nat /\ HttpMaxBody \in Nat

VARIABLES
  framing,   \* "chunked", "length" or "close"
  incoming,  \* what the webserver has still to send
  silent,    \* it closed, or sends nothing for 15 s
  reading,   \* "headers", "body", "done" (request returned 0), "failed"
  raw,       \* body tokens that are not yet in out
  out

httpVars == <<framing, incoming, silent, reading, raw, out>>

Size(n) == [kind |-> "size", n |-> n]
Byte(n) == [kind |-> "byte", n |-> n]
Mark(k) == [kind |-> k, n |-> 0]
LineEnd == Mark("line end")

Bytes(s) == [i \in DOMAIN s |-> Byte(s[i])]
Numbers(t) == [i \in DOMAIN t |-> t[i].n]

\* The body in one chunk, in two cut anywhere, and the chunk that ends them.
Chunk(s) == <<Size(Len(s)), LineEnd>> \o Bytes(s) \o <<LineEnd>>
Chunked ==
  LET n == Len(HttpBody)
  IN  {Chunk(HttpBody) \o <<Size(0), LineEnd>>}
        \cup {Chunk(SubSeq(HttpBody, 1, k)) \o Chunk(SubSeq(HttpBody, k + 1, n))
                \o <<Size(0), LineEnd>> : k \in 1 .. n - 1}

Headers(len) == [i \in 1 .. len |-> Mark("header")] \o <<Mark("blank line")>>

HttpTypeOK ==
  /\ framing \in {"chunked", "length", "close"} /\ silent \in BOOLEAN
  /\ reading \in {"headers", "body", "done", "failed"}
  /\ \A t \in Range(incoming) \cup Range(raw) :
       t.kind \in {"header", "blank line", "size", "line end", "byte"}
  /\ \A i \in DOMAIN out : out[i] \in Range(HttpBody)

HttpInit ==
  /\ framing \in {"chunked", "length", "close"}
  /\ \E len \in 1 .. HttpMaxHeader + 1 :
     \E sent \in IF framing = "chunked" THEN Chunked ELSE {Bytes(HttpBody)} :
       incoming = Headers(len) \o sent
  /\ silent = FALSE /\ reading = "headers" /\ raw = <<>> /\ out = <<>>

-----------------------------------------------------------------------------
\* decode_chunked: what the chunks that are complete hold, and whether the one
\* that ends them has come.
Decoded(t) ==
  LET from[p \in 1 .. Len(t) + 1] ==
        \* The line ends between two chunks have been passed over.
        IF p <= Len(t) /\ t[p].kind = "line end" THEN from[p + 1]
        ELSE IF p + 1 > Len(t) THEN [whole |-> FALSE, out |-> <<>>]
        ELSE IF t[p].n = 0 THEN [whole |-> TRUE, out |-> <<>>]
        ELSE LET last == p + 1 + t[p].n
             IN  IF last > Len(t) THEN [whole |-> FALSE, out |-> <<>>]
                 ELSE LET rest == from[last + 1]
                      IN  [rest EXCEPT !.out = Numbers(SubSeq(t, p + 2, last)) \o @]
  IN  from[1]

\* Mutant: each pass appends to what the pass before it found.
AppendChunks(all) ==
  LET d == Decoded(all)
  IN  /\ raw' = all /\ out' = out \o d.out
      /\ reading' = IF d.whole THEN "done" ELSE "body"

\* read_body, chunked: decoded anew from the first byte at every pass.
ReadChunks(all) ==
  LET d == Decoded(all)
  IN  /\ raw' = all /\ out' = d.out
      /\ reading' = IF reading = "body" /\ Len(all) > HttpMaxBody THEN "failed"
                    ELSE IF d.whole THEN "done" ELSE "body"

\* read_body, Content-Length.
ReadLength(all) ==
  LET want == Len(HttpBody)
  IN  IF want > HttpMaxBody THEN reading' = "failed" /\ UNCHANGED <<raw, out>>
      ELSE IF Len(all) >= want
      THEN reading' = "done" /\ raw' = <<>> /\ out' = Numbers(SubSeq(all, 1, want))
      ELSE reading' = "body" /\ raw' = all /\ UNCHANGED out

\* read_body without framing: what came with the headers is kept for the end.
KeepForTheEnd(all) == reading' = "body" /\ raw' = all /\ UNCHANGED out

ReadToEnd(piece) ==
  /\ out' = out \o Numbers(piece)
  /\ reading' = IF Len(out') > HttpMaxBody THEN "failed" ELSE "body"
  /\ UNCHANGED raw

\* read_headers: everything up to the blank line; what came with it is body, and
\* is looked at before more is received.
ReadHeaders(all) ==
  LET end  == {i \in DOMAIN all : all[i].kind = "blank line"}
      body == LET i == CHOOSE i \in end : TRUE IN SubSeq(all, i + 1, Len(all))
  IN  IF end = {} THEN
        /\ reading' = IF Len(all) > HttpMaxHeader THEN "failed" ELSE "headers"
        /\ raw' = all /\ UNCHANGED out
      ELSE CASE framing = "chunked" -> ReadChunks(body)
             [] framing = "length"  -> ReadLength(body)
             [] framing = "close"   -> KeepForTheEnd(body)

\* recv returns any part of what has been sent.
Receive(n) ==
  /\ reading \in {"headers", "body"} /\ ~silent
  /\ LET piece == SubSeq(incoming, 1, n)
         all   == raw \o piece
     IN  CASE reading = "headers" -> ReadHeaders(all)
           [] OTHER -> CASE framing = "chunked" -> ReadChunks(all)
                         [] framing = "length"  -> ReadLength(all)
                         [] framing = "close"   -> ReadToEnd(piece)
  /\ incoming' = SubSeq(incoming, n + 1, Len(incoming))
  /\ UNCHANGED <<framing, silent>>

GoSilent == ~silent /\ silent' = TRUE /\ UNCHANGED <<framing, incoming, reading, raw, out>>

\* recv returns nothing: a failure in the headers and between chunks, the end of
\* the body otherwise, however much of it has come.
Ends ==
  /\ silent /\ reading \in {"headers", "body"}
  /\ IF reading = "headers" \/ framing = "chunked"
     THEN reading' = "failed" /\ UNCHANGED <<raw, out>>
     ELSE reading' = "done" /\ raw' = <<>> /\ out' = out \o Numbers(raw)
  /\ UNCHANGED <<framing, incoming, silent>>

HttpNext == GoSilent \/ Ends \/ \E n \in 1 .. Len(incoming) : Receive(n)

HttpSpec == HttpInit /\ [][HttpNext]_httpVars

-----------------------------------------------------------------------------
\* Properties.

\* However a framed answer is cut, what is returned is its body from the start:
\* all of it if it was chunked (read_body, decode_chunked).
FramedBody ==
  reading = "done" =>
    /\ framing = "chunked" => out = HttpBody
    /\ framing = "length" => IsPrefix(out, HttpBody)
=============================================================================
