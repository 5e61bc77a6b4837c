--------------------------------- MODULE Hsm ---------------------------------
(***************************************************************************)
(* The software HSM (internal/hsm/hsm.go): RSA key pairs in memory, their  *)
(* encrypted files in the key store, and the public keys that              *)
(* HSMKeyService publishes in table hsm_keys when the server starts        *)
(* (internal/services/hsm_key_service.go).                                 *)
(*                                                                         *)
(* One mutex makes every operation atomic for the others; what interrupts  *)
(* one is a crash, or a file operation that fails.  A key pair is a        *)
(* number, drawn anew each time; the name of a rotated key is the name of  *)
(* the old one with the time in seconds appended.  GenerateKeyPair,        *)
(* DeleteKey and RotateKeys have no caller but the tests; the model lets   *)
(* an operator call them.                                                  *)
(* Definitions named X_Something are mutants of X.                         *)
(***************************************************************************)
EXTENDS Integers, FiniteSets, SequencesExt

CONSTANTS
    OtherIds,      \* ids an operator generates and deletes keys under
    DerivedKeys,   \* encryption keys Argon2 may derive
    Configured,    \* the one it derives from the configured key and salt
    Lifetime,      \* life of a key pair (365 days)
    MaxTime, MaxPairs    \* bounds on the clock and on key pairs, for TLC

DefaultKeys == <<"card_signing", "transaction_signing", "user_encryption">>
SigningKeys == {"card_signing", "transaction_signing"}
DefaultNames == {<<DefaultKeys[i]>> : i \in DOMAIN DefaultKeys}

ASSUME HsmAssumption ==
    /\ \A i \in DOMAIN DefaultKeys : DefaultKeys[i] \notin OtherIds
    /\ Configured \in DerivedKeys /\ "torn" \notin DerivedKeys
    /\ Lifetime \in Nat /\ MaxTime \in Nat /\ MaxPairs \in Nat

VARIABLES
    pc,          \* where the server is: down, starting, serving
    masterKey,   \* what files are encrypted and decrypted with
    keys,        \* map keys: from names to key pairs
    files,       \* the key store, from names to what their file holds
    published,   \* table hsm_keys, from names to public keys
    drawn,       \* number of key pairs generated so far
    signed,      \* signatures handed out, but for those of deleted keys
    sealed,      \* master keys under which EncryptCardData has sealed cards
    deleted,     \* key pairs DeleteKey has reported deleted
    now

history == <<signed, sealed, deleted>>
vars == <<pc, masterKey, keys, files, published, drawn, history, now>>

PCs == {"down", "generate", "sync", "serving"}

\* A file cut short, which decryptWithMasterKey refuses.
Torn == [sealed |-> "torn"]

Over(f, g) == [x \in DOMAIN f \cup DOMAIN g |-> IF x \in DOMAIN f THEN f[x] ELSE g[x]]
With(f, x, y) == Over([z \in {x} |-> y], f)
Without(f, x) == Restrict(f, DOMAIN f \ {x})

Init ==
    /\ pc = "down" /\ masterKey = Configured
    /\ keys = <<>> /\ files = <<>> /\ published = <<>>
    /\ drawn = 0 /\ now = 0
    /\ signed = {} /\ sealed = {} /\ deleted = {}

-----------------------------------------------------------------------------
(* Starting. *)

\* InitHSM derives the encryption key, always from the same salt (a mutant:
\* from a random one).
Derives_RandomSalt(key) == TRUE

Derives(key) == key = Configured

\* loadKeys skips what it cannot decrypt.
Loadable(key) == {name \in DOMAIN files : files[name].sealed = key}

\* Defaults are generated only if no key at all was loaded.
Start ==
    /\ pc = "down"
    /\ \E key \in DerivedKeys :
          /\ Derives(key)
          /\ masterKey' = key
          /\ keys' = [name \in Loadable(key) |-> files[name].pair]
          /\ pc' = IF Loadable(key) = {} THEN "generate" ELSE "sync"
    /\ UNCHANGED <<files, published, drawn, history, now>>

NewPair_OffByOne == [public |-> drawn, expires |-> now + Lifetime, active |-> TRUE]

NewPair == [public |-> drawn + 1, expires |-> now + Lifetime, active |-> TRUE]

\* saveKeyToDisk: os.WriteFile truncates the file and then writes it.
SaveKeyToDisk_ErrorIgnored(name, pair) ==
    files' \in {With(files, name, [sealed |-> masterKey, pair |-> pair]),
               With(files, name, Torn)}

SaveKeyToDisk(name, pair) ==
    files' = With(files, name, [sealed |-> masterKey, pair |-> pair])

SaveFails(name) == files' \in {files, With(files, name, Torn)}

\* GenerateKeyPair, under the mutex: nobody sees the key before it is saved.
GenerateKeyPair(name, next) ==
    /\ name \notin DOMAIN keys
    /\ drawn < MaxPairs /\ drawn' = drawn + 1
    /\ keys' = With(keys, name, NewPair)
    /\ SaveKeyToDisk(name, NewPair)
    /\ pc' = next
    /\ UNCHANGED <<masterKey, published, history, now>>

\* The save fails: the key is taken out of the map again.
GenerateFails_KeepsKey(name) ==
    /\ name \notin DOMAIN keys
    /\ drawn < MaxPairs /\ drawn' = drawn + 1
    /\ SaveFails(name)
    /\ keys' = With(keys, name, NewPair)
    /\ UNCHANGED <<pc, masterKey, published, history, now>>

GenerateFails(name) ==
    /\ name \notin DOMAIN keys
    /\ drawn < MaxPairs /\ drawn' = drawn + 1
    /\ SaveFails(name)
    /\ UNCHANGED <<pc, masterKey, keys, published, history, now>>

\* generateDefaultKeys: one after the other.  An error ends the process, with
\* the effect of Crash.
GenerateDefaultKeys ==
    LET i == Cardinality(DOMAIN keys) + 1
    IN  /\ pc = "generate"
        /\ GenerateKeyPair(<<DefaultKeys[i]>>,
                           IF i = Len(DefaultKeys) THEN "sync" ELSE "generate")

\* GetPublicKey refuses a key that is missing or inactive.
HasPublicKey(name) == name \in DOMAIN keys /\ keys[name].active

\* SyncKeysToDatabase upserts the default keys in order, up to the first that
\* GetPublicKey or the database refuses; the server starts all the same.
SyncKeysToDatabase ==
    /\ pc = "sync"
    /\ \E n \in 0..Len(DefaultKeys) :
          LET synced == {<<DefaultKeys[i]>> : i \in 1..n}
          IN  /\ \A name \in synced : HasPublicKey(name)
              /\ published' = Over([name \in synced |-> keys[name].public], published)
    /\ pc' = "serving"
    /\ UNCHANGED <<masterKey, keys, files, drawn, history, now>>

\* The server stops at any point: memory is lost, and a key that is being
\* saved leaves half a file.
Saving == CASE pc = "generate" -> {<<DefaultKeys[Cardinality(DOMAIN keys) + 1]>>}
            [] pc = "serving"  -> {<<id>> : id \in OtherIds} \ DOMAIN keys
            [] OTHER           -> {}

Crash ==
    /\ pc # "down"
    /\ pc' = "down" /\ keys' = <<>>
    /\ \/ UNCHANGED files
       \/ \E name \in Saving : files' = With(files, name, Torn)
    /\ UNCHANGED <<masterKey, published, drawn, history, now>>

-----------------------------------------------------------------------------
(* Serving. *)

\* SignData for a card or a transaction; an inactive key refuses.
Sign ==
    /\ pc = "serving"
    /\ \E id \in SigningKeys :
          /\ <<id>> \in DOMAIN keys /\ keys[<<id>>].active
          /\ signed' = signed \cup {[name |-> <<id>>, public |-> keys[<<id>>].public]}
    /\ UNCHANGED <<pc, masterKey, keys, files, published, drawn, sealed, deleted, now>>

\* VerifySignature takes an inactive key too.
Verifies(sig) ==
    sig.name \in DOMAIN keys /\ keys[sig.name].public = sig.public

\* EncryptData, for card data: the named key must be there, active or not, but
\* it is the master key that encrypts.
EncryptCardData ==
    /\ pc = "serving"
    /\ <<"user_encryption">> \in DOMAIN keys
    /\ sealed' = sealed \cup {masterKey}
    /\ UNCHANGED <<pc, masterKey, keys, files, published, drawn, signed, deleted, now>>

\* DecryptData of what was sealed under a master key.
Opens(key) == <<"user_encryption">> \in DOMAIN keys /\ key = masterKey

GenerateOther ==
    /\ pc = "serving"
    /\ \E id \in OtherIds : GenerateKeyPair(<<id>>, pc) \/ GenerateFails(<<id>>)

\* DeleteKey: out of the map first, then its file; what is left after an error
\* of os.Remove comes back with the next start.
DeleteFile_ErrorIgnored(name) ==
    /\ \/ files' = Without(files, name)
       \/ UNCHANGED files
    /\ deleted' = deleted \cup {keys[name].public}

DeleteFile(name) ==
    \/ /\ files' = Without(files, name)
       /\ deleted' = deleted \cup {keys[name].public}
    \/ UNCHANGED <<files, deleted>>

DeleteKey ==
    /\ pc = "serving"
    /\ \E id \in OtherIds :
          /\ <<id>> \in DOMAIN keys
          /\ keys' = Without(keys, <<id>>)
          /\ DeleteFile(<<id>>)
          /\ signed' = {s \in signed : s.name # <<id>>}
    /\ UNCHANGED <<pc, masterKey, published, drawn, sealed, now>>

\* RotateKeys: a new key for each one that has expired or is inactive, in
\* memory only.  The new ones are numbered in some order.
Due == {name \in DOMAIN keys : keys[name].expires < now \/ ~keys[name].active}

RotateKeys ==
    /\ pc = "serving" /\ Due # {}
    /\ drawn + Cardinality(Due) <= MaxPairs
    /\ drawn' = drawn + Cardinality(Due)
    /\ LET number == CHOOSE f \in [Due -> drawn + 1 .. drawn'] : IsInjective(f)
           Replacement(name) == Append(name, now)
           Fresh == [new \in {Replacement(old) : old \in Due} |->
                        [NewPair EXCEPT !.public = number[Front(new)]]]
           Old == [old \in Due |-> [keys[old] EXCEPT !.active = FALSE]]
       IN  keys' = Over(Fresh, Over(Old, keys))
    /\ UNCHANGED <<pc, masterKey, files, published, history, now>>

Tick ==
    /\ now < MaxTime /\ now' = now + 1
    /\ UNCHANGED <<pc, masterKey, keys, files, published, drawn, history>>

Next == \/ Start \/ GenerateDefaultKeys \/ SyncKeysToDatabase \/ Crash
        \/ Sign \/ EncryptCardData \/ GenerateOther \/ DeleteKey \/ RotateKeys \/ Tick

Spec == Init /\ [][Next]_vars

-----------------------------------------------------------------------------
(* Properties. *)

Pair == [public : 1..MaxPairs, expires : Nat, active : BOOLEAN]
IsMap(f, Elements) == \A name \in DOMAIN f : name # <<>> /\ f[name] \in Elements

\* Every variable has its type.
TypeOK ==
    /\ pc \in PCs /\ masterKey \in DerivedKeys
    /\ IsMap(keys, Pair)
    /\ IsMap(files, [sealed : DerivedKeys, pair : Pair] \cup {Torn})
    /\ IsMap(published, 1..MaxPairs)
    /\ drawn \in 0..MaxPairs
    /\ \A s \in signed : s.name \in DefaultNames /\ s.public \in 1..drawn
    /\ sealed \subseteq DerivedKeys /\ deleted \subseteq 1..drawn
    /\ now \in Nat

Generated(name) == Len(name) = 1

\* A key that can sign is one a restart brings back: every generated key in the
\* map has its readable file, wherever earlier saves failed or were cut short.
MemoryIsSaved ==
    \A name \in DOMAIN keys : Generated(name) =>
        /\ name \in DOMAIN files
        /\ files[name].sealed = masterKey
        /\ files[name].pair.public = keys[name].public

\* Over any number of crashes and restarts, a signature handed out verifies and
\* card data sealed once can be opened, whenever the server serves: the keys they
\* were made with, and the master key, outlive the process.
SignedAndSealedSurvive ==
    pc = "serving" => /\ \A sig \in signed : Verifies(sig)
                      /\ \A key \in sealed : Opens(key)

\* The public key in hsm_keys belongs to the private key that signs, even if
\* some synchronisations failed or stopped half way.
PublishedIsUsed ==
    pc = "serving" => \A name \in DOMAIN published \cap DOMAIN keys :
                          published[name] = keys[name].public

\* A key DeleteKey has reported deleted does not come back with a restart.
DeletedStaysDeleted ==
    \A name \in DOMAIN keys : keys[name].public \notin deleted
=============================================================================
