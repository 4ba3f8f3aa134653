------------------------------- MODULE LtAsn1 -------------------------------
(***************************************************************************)
(* asn1der_find_object, which takes the chip's public key STPUB out of its *)
(* certificate.  The parser looks at every byte once, so the stream is     *)
(* chosen while it is read: one step is the header of one object and what  *)
(* parse_object does with it.  The recursion is a stack of the ends of the *)
(* sequences that are open.  A range of bytes is <<first index, length>>.  *)
(***************************************************************************)
EXTENDS Integers, Sequences

CONSTANTS
  StreamLens,     \* lengths of the stream
  BufLens,        \* lengths of the caller's buffer
  Lengths,        \* the lengths of objects in their encoding, <<form, length>>
  MaxObjects      \* bound: objects of a stream

ASSUME Asn1Assumption ==
  /\ \A n \in StreamLens : n \in Nat /\ n < 65536
  /\ BufLens \subseteq 1..255
  /\ \A l \in Lengths : /\ l[1] \in {"short", "one", "two", "unsupported"}
                        /\ l[2] \in Nat /\ l[2] < 65536
  /\ MaxObjects \in Nat

VARIABLES
  len, sbuf_len, crop_prefix,     \* parameters of the call
  past,                           \* bytes consumed
  ends,                           \* start + len of the open sequences, innermost last
  sample_next, found,
  rv,                             \* "parsing", or what the call returned
  out,                            \* the bytes that were copied to the caller
  objs                            \* history: the objects that were met

ctx == <<past, ends, sample_next, found, rv, out>>
params == <<len, sbuf_len, crop_prefix>>
vars == <<params, ctx, objs>>

\* The tags parse_object tells apart: a primitive may be sampled, the others are
\* dropped.
Tags == {"SEQUENCE", "OBJECT_IDENTIFIER", "primitive", "other"}

\* What the first byte of a length and the bytes it announces can say: a length
\* below 0x7f (0x80 is another zero), one of one byte, one of two bytes.  0x7f
\* itself counts as more than two bytes.
Says(form, n) ==
  CASE form = "short" -> n < 127
    [] form = "one" -> n < 256
    [] form = "two" -> n < 65536
    [] form = "unsupported" -> n >= 127

\* Tag, first byte of the length, and the bytes it announces.
header(form) == CASE form = "one" -> 3 [] form = "two" -> 4 [] OTHER -> 2

Init ==
  /\ len \in StreamLens /\ sbuf_len \in BufLens /\ crop_prefix \in BOOLEAN
  /\ past = 0 /\ ends = <<>> /\ sample_next = FALSE /\ found = FALSE
  /\ rv = "parsing" /\ out = <<0, 0>> /\ objs = <<>>

Return(r) == rv' = r /\ UNCHANGED <<past, ends, sample_next, found, out>>

\* consume_bytes: n bytes, if the stream has them.
consume_bytes(n, then) ==
  IF n > len THEN Return("LT_CERT_STORE_INVALID") ELSE past' = n /\ then

Keep == UNCHANGED <<ends, sample_next, found, rv, out>>

\* The loop of the innermost open sequence, or of asn1der_find_object, goes on.
InLoop == past < (IF ends = <<>> THEN len ELSE ends[Len(ends)]) - 1

\* The content of an OBJECT_IDENTIFIER; its first three bytes are ctx->obj_id or
\* not.  One shorter than three bytes is not consumed.
object_identifier(start, n, match) ==
  IF n < 3 THEN past' = start /\ Keep
  ELSE consume_bytes(start + n, /\ sample_next' = (sample_next \/ match)
                                /\ UNCHANGED <<ends, found, rv, out>>)

\* A variant for mutation: prefix and suffix are confused.
sampled_swapped(start, sample_len) ==
  IF sbuf_len >= sample_len THEN <<start, sample_len>>
  ELSE IF crop_prefix THEN <<start, sbuf_len>>
  ELSE <<start + sample_len - sbuf_len, sbuf_len>>

\* The range that is copied: a part of the object if the buffer is smaller.
sampled(start, sample_len) ==
  IF sbuf_len >= sample_len THEN <<start, sample_len>>
  ELSE IF crop_prefix THEN <<start + sample_len - sbuf_len, sbuf_len>>
  ELSE <<start, sbuf_len>>

\* A primitive after the identifier is sampled, once.  sample_len is a uint8_t.
primitive(start, n) ==
  IF sample_next /\ ~found
    THEN LET sample_len == n % 256
         IN consume_bytes(start + sample_len,
                          /\ out' = sampled(start, sample_len)
                          /\ sample_next' = FALSE /\ found' = TRUE
                          /\ UNCHANGED <<ends, rv>>)
    ELSE consume_bytes(start + n, Keep)

parse_object(tag, form, n, match) ==
  LET start == past + header(form)
  IN /\ rv = "parsing" /\ InLoop /\ Len(objs) < MaxObjects
     /\ Says(form, n) /\ (match => tag = "OBJECT_IDENTIFIER" /\ n >= 3)
     /\ objs' = Append(objs, [tag |-> tag, head |-> past, start |-> start, len |-> n,
                              match |-> match])
     /\ IF past + 2 > len THEN Return("LT_CERT_STORE_INVALID")
        ELSE IF form = "unsupported" THEN Return("LT_CERT_UNSUPPORTED")
        ELSE IF start > len THEN Return("LT_CERT_STORE_INVALID")
        ELSE CASE tag = "SEQUENCE" ->
                    /\ past' = start /\ ends' = Append(ends, start + n)
                    /\ UNCHANGED <<sample_next, found, rv, out>>
               [] tag = "OBJECT_IDENTIFIER" -> object_identifier(start, n, match)
               [] tag = "primitive" -> primitive(start, n)
               [] tag = "other" -> consume_bytes(start + n, Keep)
     /\ UNCHANGED params

\* A variant for mutation: the end of a sequence is not compared with its length.
sequence_unchecked ==
  /\ ends' = SubSeq(ends, 1, Len(ends) - 1)
  /\ UNCHANGED <<past, sample_next, found, rv, out>>

\* The test after the loop over a sequence.
sequence_ends ==
  IF past = ends[Len(ends)]
    THEN /\ ends' = SubSeq(ends, 1, Len(ends) - 1)
         /\ UNCHANGED <<past, sample_next, found, rv, out>>
    ELSE Return("LT_CERT_STORE_INVALID")

leave_sequence ==
  /\ rv = "parsing" /\ ~InLoop /\ ends # <<>>
  /\ sequence_ends /\ UNCHANGED <<params, objs>>

asn1der_find_object ==
  /\ rv = "parsing" /\ ~InLoop /\ ends = <<>>
  /\ Return(IF found THEN "LT_OK" ELSE "LT_CERT_ITEM_NOT_FOUND")
  /\ UNCHANGED <<params, objs>>

Next ==
  \/ \E tag \in Tags, l \in Lengths, match \in BOOLEAN :
       parse_object(tag, l[1], l[2], match)
  \/ leave_sequence \/ asn1der_find_object

Spec == Init /\ [][Next]_vars

(***************************************************************************)
(* Properties.                                                             *)
(***************************************************************************)
\* Object p is the first primitive behind an identifier that matches, such as m.
Target(m, p) ==
  /\ m < p /\ objs[p].tag = "primitive"
  /\ objs[m].match
  /\ \A j \in 1..(p - 1) : objs[j].tag = "primitive" =>
       \A k \in 1..(j - 1) : ~objs[k].match

\* The caller was given the content of object p: all of it, or as much of its start
\* or of its end as the buffer takes.
Given(p) ==
  LET o == objs[p]
      copied == IF o.len < sbuf_len THEN o.len ELSE sbuf_len
  IN /\ out = <<IF crop_prefix THEN o.start + o.len - copied ELSE o.start, copied>>
     /\ out[1] + out[2] <= len

\* LT_OK says that the first primitive object behind the first identifier that
\* matches was found, whatever surrounds it, and the caller has its content, cropped
\* as asked, if the object has at most 255 bytes.
FoundObject ==
  rv = "LT_OK" =>
    \E m, p \in DOMAIN objs : Target(m, p) /\ (objs[p].len < 256 => Given(p))

end(j) == objs[j].start + objs[j].len

\* The same for every object that lies in the stream, as lt_asn1_der.h documents
\* crop_kind: what is cropped depends on the "length of the object being sampled".
FoundAnyLength ==
  rv = "LT_OK" =>
    \E m, p \in DOMAIN objs : Target(m, p) /\ (end(p) <= len => Given(p))

\* Identifiers shorter than three bytes, and the sampled object if it has 256 bytes
\* or more: the parser reads what it did not consume of them as objects again.
skipped(j) ==
  \/ objs[j].tag = "OBJECT_IDENTIFIER" /\ objs[j].len < 3
  \/ objs[j].len >= 256 /\ \E m \in 1..(j - 1) : Target(m, j)

\* Where the object after object j has to begin: in a sequence, or behind j.
follower(j) == IF objs[j].tag = "SEQUENCE" THEN objs[j].start ELSE end(j)

\* When parsing succeeds, the objects make up the stream without gaps: the first is
\* at its start and each begins where the last one ends or, in a sequence, where its
\* content begins.  They lie inside the stream and none crosses the end of a
\* sequence it begins in.  All this but for the objects that are skipped.
WellNested ==
  rv \in {"LT_OK", "LT_CERT_ITEM_NOT_FOUND"} =>
    /\ objs # <<>> => objs[1].head = 0
    /\ \A j \in 1..(Len(objs) - 1) : skipped(j) \/ objs[j + 1].head = follower(j)
    /\ \A j \in DOMAIN objs : skipped(j) \/ end(j) <= len
    /\ \A j \in DOMAIN objs : \A k \in (j + 1)..Len(objs) :
         objs[j].tag = "SEQUENCE" /\ objs[k].head < end(j) => skipped(k) \/ end(k) <= end(j)

(***************************************************************************)
(* The inductive invariants behind the properties (LtCertificates_proofs). *)
(***************************************************************************)
\* Every variable has its type.
TypeOK ==
  /\ len \in Nat /\ sbuf_len \in Nat /\ crop_prefix \in BOOLEAN
  /\ past \in Nat /\ ends \in Seq(Nat)
  /\ sample_next \in BOOLEAN /\ found \in BOOLEAN
  /\ objs \in Seq([tag : Tags, head : Nat, start : Nat, len : Nat, match : BOOLEAN])

\* No error so far.
Parsed == rv \in {"parsing", "LT_OK", "LT_CERT_ITEM_NOT_FOUND"}

\* The flags tell what was met: an identifier that matches, and the first
\* primitive behind one, the target, which was sampled.
FlagInv ==
  /\ rv = "LT_OK" => found
  /\ ~found =>
       /\ \A j \in DOMAIN objs : objs[j].tag = "primitive" =>
            \A k \in 1..(j - 1) : ~objs[k].match
       /\ sample_next <=> \E m \in DOMAIN objs : objs[m].match
  /\ found => \E m, p \in DOMAIN objs : Target(m, p) /\ (objs[p].len < 256 => Given(p))

\* Object j is behind the parser.
Behind(j) == skipped(j) \/ end(j) <= past

\* Sequence j is open at depth s, and object k, met later, is behind the parser
\* or open further inside.
OpenAround(j, k, s) ==
  /\ ends[s] = end(j)
  /\ Behind(k) \/ \E t \in (s + 1)..Len(ends) : ends[t] = end(k)

\* Where each object ends, relative to the parser and to the sequences still open.
PlaceInv ==
  /\ past <= len
  /\ rv # "parsing" => ends = <<>>
  /\ \A j \in DOMAIN objs :
       Behind(j) \/ (objs[j].tag = "SEQUENCE" /\ \E s \in DOMAIN ends : ends[s] = end(j))

\* The parser goes on where the last object says.
ChainInv ==
  /\ past = 0 \/ objs # <<>>
  /\ objs # <<>> => objs[1].head = 0 /\ (skipped(Len(objs)) \/ past = follower(Len(objs)))
  /\ \A j \in 1..(Len(objs) - 1) : skipped(j) \/ objs[j + 1].head = follower(j)

NestInv ==
  \A j \in DOMAIN objs : \A k \in (j + 1)..Len(objs) :
    objs[j].tag = "SEQUENCE" =>
      \/ objs[k].head >= end(j) \/ skipped(k) \/ end(k) <= end(j)
      \/ \E s \in DOMAIN ends : OpenAround(j, k, s)

ParseInv == Parsed => FlagInv /\ PlaceInv /\ ChainInv /\ NestInv
=============================================================================
