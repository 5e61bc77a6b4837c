----------------------------- MODULE HsmInvariant -----------------------------
(***************************************************************************)
(* The inductive invariant of Hsm, from which HsmProofs derives its safety *)
(* properties.                                                             *)
(***************************************************************************)
EXTENDS Hsm

\* A name is a sequence of an id and the times it was rotated at; files have the
\* names of generated keys only.
IsName(name) == Len(name) \in Nat \ {0} /\ name = [i \in 1..Len(name) |-> name[i]]

NameInv ==
    /\ IsFiniteSet(DOMAIN keys) /\ IsFiniteSet(DOMAIN files)
    /\ \A name \in DOMAIN keys \cup DOMAIN files : IsName(name)
    /\ masterKey = Configured

\* The default keys are generated in order, in a store with no readable key.
GenerateInv ==
    pc = "generate" =>
        /\ \E n \in 0 .. Len(DefaultKeys) - 1 : DOMAIN keys = {<<DefaultKeys[i]>> : i \in 1..n}
        /\ signed = {} /\ sealed = {} /\ DOMAIN published = {}

\* A public key of the default key `name' that is known outside belongs to the
\* readable file of that name ...
Stands(name, public) ==
    /\ name \in DefaultNames \cap Loadable(Configured)
    /\ files[name].pair.public = public

OutsideInv ==
    /\ \A sig \in signed : Stands(sig.name, sig.public)
    /\ \A name \in DOMAIN published : Stands(name, published[name])
    /\ sealed # {} => <<"user_encryption">> \in Loadable(Configured)
    /\ sealed \subseteq {Configured}

\* ... which a start has loaded, and nothing takes out of memory.
LoadedInv ==
    pc \in {"sync", "serving"} => DefaultNames \cap Loadable(Configured) \subseteq DOMAIN keys

\* No key pair has two names, be it in memory or in readable files, and what was
\* deleted is in neither.
PairOf(name) == keys[name].public
SavedPair(name) == files[name].pair.public

UniqueInv ==
    /\ \A n, m \in DOMAIN keys : PairOf(n) = PairOf(m) => n = m
    /\ \A n, m \in Loadable(Configured) : SavedPair(n) = SavedPair(m) => n = m
    /\ \A n \in DOMAIN keys, m \in Loadable(Configured) : PairOf(n) = SavedPair(m) => n = m
    /\ \A n \in DOMAIN keys : PairOf(n) \in 1..drawn \ deleted
    /\ \A n \in Loadable(Configured) : SavedPair(n) \in 1..drawn \ deleted

IInv == /\ TypeOK /\ NameInv /\ GenerateInv /\ OutsideInv /\ LoadedInv /\ UniqueInv
        /\ MemoryIsSaved /\ SignedAndSealedSurvive /\ PublishedIsUsed /\ DeletedStaysDeleted
=============================================================================
