--------------------------- MODULE CertificateChain ----------------------------
(***************************************************************************)
(* Certificates and chains of them: in which order an authority joins its  *)
(* certificate to its parent's chain, how a client takes a chain apart, and *)
(* what an authority trusts.  A certificate names its subject and its      *)
(* issuer with their keys; how long a path it allows below it is left out. *)
(***************************************************************************)
EXTENDS Naturals, Sequences, FiniteSets, SequencesExt

\* Variant: the order of the other setting.
ConcatSwapped(chain, cert, parentFirst) ==
    IF parentFirst THEN <<cert>> \o chain ELSE chain \o <<cert>>

\* Variant: the certificate itself is left out.
ConcatParent(chain, cert, parentFirst) == chain

\* concatChain
Concat(chain, cert, parentFirst) ==
    IF parentFirst THEN chain \o <<cert>> ELSE <<cert>> \o chain

\* The authority key id is the subject key id.
SelfSigned(cert) == cert.signer = cert.key

\* Variant: the last certificate of a chain is not looked at.
IntermediatesButLast(chain) == {cert \in ToSet(Front(chain)) : ~SelfSigned(cert)}

\* storeCAChain: what goes into cacerts and into intermediatecerts, where the
\* order means nothing
Roots(chain) == {cert \in ToSet(chain) : SelfSigned(cert)}
Intermediates(chain) == {cert \in ToSet(chain) : ~SelfSigned(cert)}

IssuedBy(cert, authority) == cert.issuer = authority.subject /\ cert.signer = authority.key

\* Who trusts the roots trusts these certificates.
Trusts(trusted, roots, intermediates) ==
    /\ roots \subseteq trusted
    /\ \A c \in intermediates : (\E t \in trusted : IssuedBy(c, t)) => c \in trusted

\* A path of certificates leads from cert through intermediates to a root: one
\* of the least set that is trusted with the roots has issued it.
Anchored(roots, intermediates, cert) ==
    \A trusted \in SUBSET (roots \cup intermediates) :
        Trusts(trusted, roots, intermediates) => \E t \in trusted : IssuedBy(cert, t)

\* VerifyCertificate and getVerifyOptions: the first of the chain is the root,
\* and the Verify they call accepts the root itself as well.
Accepts(chain, cert) ==
    /\ chain # <<>>
    /\ cert = Head(chain) \/ Anchored({Head(chain)}, ToSet(Tail(chain)), cert)
=============================================================================
