--------------------------- MODULE MCCertificates ---------------------------
(***************************************************************************)
(* Certificates: LtCertStore, which reads them, and LtAsn1, which finds the*)
(* public key in one.  The two share no state; part says which of them a   *)
(* behaviour is about, while the other stays in one initial state.         *)
(* The lengths of LtAsn1 fit into each other: an identifier of three bytes *)
(* and a primitive fill a sequence of twelve, an empty object one of two;  *)
(* each encoding of a length; an object longer than 255 bytes; a length of *)
(* 127.                                                                    *)
(***************************************************************************)
EXTENDS LtCertStore, LtAsn1

CONSTANT Parts

SomeLengths ==
  {<<"short", 0>>, <<"short", 2>>, <<"short", 12>>, <<"one", 3>>, <<"two", 258>>,
   <<"unsupported", 127>>}

VARIABLE part

\* The first of a set of numbers.
Least(S) == CHOOSE n \in S : \A m \in S : n <= m

CertificatesInit ==
  /\ part \in Parts /\ StoreInit /\ Init
  /\ part = "store" => len = Least(StreamLens) /\ ~crop_prefix
  /\ part = "parser" => /\ \A c \in Kinds : lens[c] = Least(CertLens)
                        /\ \A c \in Kinds : buf_len[c] = Least(CertBufLens)
                        /\ valid

CertificatesNext ==
  \/ part = "store" /\ StoreNext /\ UNCHANGED <<part, vars>>
  \/ part = "parser" /\ Next /\ UNCHANGED <<part, storeVars>>

CertificatesSpec ==
  CertificatesInit /\ [][CertificatesNext]_<<part, storeVars, vars>>
=============================================================================
