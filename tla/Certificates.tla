---------------------------- MODULE Certificates ----------------------------
(***************************************************************************)
(* The certificate manager: certificates in memory and in the database,    *)
(* generation, renewal, replacement and deletion over the API, and the     *)
(* selection of a certificate in a TLS handshake, which also fills the     *)
(* memory from the database.                                               *)
(*                                                                         *)
(* A certificate has a key (fresh for every certificate), the domain it is *)
(* filed under and its names (Metadata.SANs).  Names are DNS names or IP   *)
(* addresses: a certificate that is read back from the database knows only *)
(* its DNS names (ToCertificate).  Memory and database are written one     *)
(* after the other without a common lock.                                  *)
(***************************************************************************)
EXTENDS Naturals, Sequences, FiniteSets

CONSTANTS DnsNames, IpNames,  \* the local names certificates are made for
          CertOps,            \* API requests
          Handshakes,         \* TLS handshakes
          MaxKeys,            \* bound on certificates made
          MaxCertFaults       \* bound on failing database writes

ASSUME CertificatesAssumption == MaxKeys \in Nat /\ MaxCertFaults \in Nat

CertNames == DnsNames \cup IpNames

VARIABLES certs,       \* Manager.certs
          certRows,    \* table certificates
          expiredKeys, \* keys of expired certificates
          nextKey,
          certOps,     \* requests in progress and their answers
          hellos,      \* handshakes that look further than the memory
          repairs,     \* reasons of the repair_required messages sent to all
          contended,   \* domains that two of these worked on at once, or lost a write
          certFaults

certVars == <<certs, certRows, expiredKeys, nextKey, certOps, hellos, repairs,
              contended, certFaults>>

NoCert == [key |-> 0, domain |-> "", names |-> <<>>]
NoOp == [pc |-> "idle", kind |-> "generate", domain |-> "", cert |-> NoCert, ok |-> FALSE]
NoHello == [pc |-> "idle", domain |-> "", cert |-> NoCert]
NameLists == {<<a>> : a \in CertNames} \cup {<<a, b>> : a, b \in CertNames}
DnsLists == {<<>>} \cup {<<a>> : a \in DnsNames}
Cert == [key : 0..MaxKeys, domain : CertNames \cup {""}, names : NameLists \cup {<<>>}]

CertificatesTypeOK ==
    /\ certs \in [CertNames -> Cert] /\ certRows \in [CertNames -> Cert]
    /\ expiredKeys \subseteq 1..MaxKeys
    /\ nextKey \in 1..(MaxKeys + 1)
    /\ certOps \in [CertOps ->
          [pc : {"idle", "make", "persist", "row", "done"},
           kind : {"generate", "renew", "replace", "delete"},
           domain : CertNames \cup {""}, cert : Cert, ok : BOOLEAN]]
    /\ hellos \in [Handshakes -> [pc : {"idle", "storage", "cache"},
                                  domain : CertNames \cup {""}, cert : Cert]]
    /\ repairs \subseteq {"certificate_rotated", "certificate_replaced", "certificate_deleted"}
    /\ contended \subseteq CertNames
    /\ certFaults \in 0..MaxCertFaults

CertificatesInit ==
    /\ certs = [d \in CertNames |-> NoCert]
    /\ certRows = [d \in CertNames |-> NoCert]
    /\ expiredKeys = {}
    /\ nextKey = 1
    /\ certOps = [r \in CertOps |-> NoOp]
    /\ hellos = [h \in Handshakes |-> NoHello]
    /\ repairs = {}
    /\ contended = {}
    /\ certFaults = 0

Has(table, d) == table[d].key # 0
IsExpired(cert) == cert.key \in expiredKeys
Usable(table, d) == Has(table, d) /\ ~IsExpired(table[d])

\* ToCertificate: only the DNS names are read back from the certificate.  A list
\* has at most two names, so that one is left when some are DNS names and some not.
ToCertificate(row) ==
    LET dns == {i \in DOMAIN row.names : row.names[i] \in DnsNames}
    IN  [row EXCEPT !.names = IF dns = {} THEN <<>>
                              ELSE IF dns = DOMAIN row.names THEN row.names
                              ELSE <<row.names[CHOOSE i \in dns : TRUE]>>]

\* Domains that some request or handshake is in the middle of writing.
InWrite(d) == \/ \E r \in CertOps : /\ certOps[r].pc \in {"persist", "row"}
                                  /\ d \in {certOps[r].domain, certOps[r].cert.domain}
            \/ \E h \in Handshakes : hellos[h].pc \in {"storage", "cache"} /\ hellos[h].domain = d
Touch(d) == contended' = IF InWrite(d) THEN contended \cup {d} ELSE contended

---------------------------------------------------------------------------
(* Making certificates *)

\* Generate: the certificate is filed under its first name and kept in memory.
\* The validator of the handler lets local names and IP addresses through.
InMemory(r, kind, d, cert) ==
    /\ nextKey <= MaxKeys
    /\ nextKey' = nextKey + 1
    /\ certs' = [certs EXCEPT ![cert.domain] = cert]
    /\ certOps' = [certOps EXCEPT ![r] =
          [pc |-> "persist", kind |-> kind, domain |-> d, cert |-> cert, ok |-> FALSE]]
    /\ Touch(cert.domain)

HandleGenerate(r) ==
    /\ certOps[r].pc \in {"idle", "done"}
    /\ \E names \in NameLists :
          InMemory(r, "generate", names[1],
                   [key |-> nextKey, domain |-> names[1], names |-> names])
    /\ UNCHANGED <<certRows, expiredKeys, hellos, repairs, certFaults>>

\* Replace: a certificate of the user's is filed under the domain of the
\* request, whatever names it has.
HandleReplace(r) ==
    /\ certOps[r].pc \in {"idle", "done"}
    /\ \E d \in CertNames, names \in DnsLists :
          InMemory(r, "replace", d, [key |-> nextKey, domain |-> d, names |-> names])
    /\ UNCHANGED <<certRows, expiredKeys, hellos, repairs, certFaults>>

\* Renew reads the certificate from memory or from the database ...
RenewReads(r) ==
    /\ certOps[r].pc \in {"idle", "done"}
    /\ \E d \in CertNames :
          /\ Has(certs, d) \/ Has(certRows, d)
          /\ certOps' = [certOps EXCEPT ![r] =
                [pc |-> "make", kind |-> "renew", domain |-> d, ok |-> FALSE,
                 cert |-> IF Has(certs, d) THEN certs[d] ELSE ToCertificate(certRows[d])]]
    /\ UNCHANGED <<certs, certRows, expiredKeys, nextKey, hellos, repairs,
                   contended, certFaults>>

\* ... and generates one for the names it has; without names it fails.
RenewGenerates(r) ==
    /\ certOps[r].pc = "make"
    /\ LET names == certOps[r].cert.names
       IN  IF names = <<>>
           THEN /\ certOps' = [certOps EXCEPT ![r].pc = "done"]
                /\ UNCHANGED <<certs, nextKey, contended>>
           ELSE InMemory(r, "renew", certOps[r].domain,
                         [key |-> nextKey, domain |-> names[1], names |-> names])
    /\ UNCHANGED <<certRows, expiredKeys, hellos, repairs, certFaults>>

\* What the devices are told: a key is fresh, so a renewal always changes it;
\* a replacement does when there was a certificate before.
Announced(op) ==
    CASE op.kind = "renew" -> {"certificate_rotated"}
      [] op.kind = "replace" -> {"certificate_replaced"}
      [] OTHER -> {}

\* StoreCertificate is an upsert; its error is logged and the request succeeds.
Persist(r) ==
    /\ certOps[r].pc = "persist"
    /\ certOps' = [certOps EXCEPT ![r].pc = "done", ![r].ok = TRUE]
    /\ \/ /\ certRows' = [certRows EXCEPT ![certOps[r].cert.domain] = certOps[r].cert]
          /\ UNCHANGED <<contended, certFaults>>
       \/ /\ certFaults < MaxCertFaults /\ certFaults' = certFaults + 1
          /\ contended' = contended \cup {certOps[r].cert.domain}
          /\ UNCHANGED certRows
    /\ \/ repairs' = repairs \cup Announced(certOps[r])
       \/ certOps[r].kind = "replace" /\ UNCHANGED repairs
    /\ UNCHANGED <<certs, expiredKeys, nextKey, hellos>>

---------------------------------------------------------------------------
(* Deleting a certificate *)

\* GetFirstAvailableCertificate: any certificate that is not expired, those in
\* memory first; IsActiveCertificate compares its names with the domain.
FirstAvailable ==
    LET inMemory == {certs[d] : d \in {x \in CertNames : Usable(certs, x)}}
        stored == {ToCertificate(certRows[d]) : d \in {x \in CertNames : Usable(certRows, x)}}
    IN  IF inMemory # {} THEN inMemory ELSE stored
MayBeActive(d) == \E c \in FirstAvailable : \E i \in DOMAIN c.names : c.names[i] = d
MayBeInactive(d) ==
    \/ FirstAvailable = {}
    \/ \E c \in FirstAvailable : \A i \in DOMAIN c.names : c.names[i] # d

\* The handler refuses to delete the active certificate when it is the only one.
DeletionAllowed(d) ==
    \/ MayBeInactive(d)
    \/ MayBeActive(d) /\ Cardinality({x \in CertNames : Has(certs, x)}) > 1

\* Mutant: the certificate stays in memory.
MemoryAfterDeleteKept(d) == certs

\* Delete takes the certificate out of the memory ...
MemoryAfterDelete(d) == [certs EXCEPT ![d] = NoCert]

HandleDelete(r) ==
    /\ certOps[r].pc \in {"idle", "done"}
    /\ \E d \in CertNames :
          /\ DeletionAllowed(d)
          /\ certs' = MemoryAfterDelete(d)
          /\ certOps' = [certOps EXCEPT ![r] =
                [pc |-> "row", kind |-> "delete", domain |-> d, cert |-> certs[d], ok |-> FALSE]]
          /\ Touch(d)
    /\ UNCHANGED <<certRows, expiredKeys, nextKey, hellos, repairs, certFaults>>

\* ... and then out of the database, which fails when there is no such row.
DeleteRow(r) ==
    /\ certOps[r].pc = "row"
    /\ LET d == certOps[r].domain
       IN  /\ certRows' = [certRows EXCEPT ![d] = NoCert]
           /\ certOps' = [certOps EXCEPT ![r].pc = "done", ![r].ok = Has(certRows, d)]
           /\ repairs' = IF Has(certRows, d) /\ certOps[r].cert.key # 0
                         THEN repairs \cup {"certificate_deleted"} ELSE repairs
    /\ UNCHANGED <<certs, expiredKeys, nextKey, hellos, contended, certFaults>>

---------------------------------------------------------------------------
(* A TLS handshake: GetCertificate *)

\* A certificate in memory that is not expired is served without further steps.
HelloLooksUp(h, d) ==
    /\ hellos[h].pc = "idle" /\ ~Usable(certs, d)
    /\ hellos' = [hellos EXCEPT ![h] = [pc |-> "storage", domain |-> d, cert |-> NoCert]]
    /\ Touch(d)
    /\ UNCHANGED <<certs, certRows, expiredKeys, nextKey, certOps, repairs, certFaults>>

\* Without a row the static certificate or the first available one is served.
HelloReadsStorage(h) ==
    /\ hellos[h].pc = "storage"
    /\ LET d == hellos[h].domain
       IN  hellos' = [hellos EXCEPT ![h] =
              IF Usable(certRows, d)
              THEN [pc |-> "cache", domain |-> d, cert |-> ToCertificate(certRows[d])]
              ELSE NoHello]
    /\ UNCHANGED <<certs, certRows, expiredKeys, nextKey, certOps, repairs,
                   contended, certFaults>>

HelloCaches(h) ==
    /\ hellos[h].pc = "cache"
    /\ certs' = [certs EXCEPT ![hellos[h].domain] = hellos[h].cert]
    /\ hellos' = [hellos EXCEPT ![h] = NoHello]
    /\ UNCHANGED <<certRows, expiredKeys, nextKey, certOps, repairs, contended, certFaults>>

---------------------------------------------------------------------------

CertificateExpires(k) ==
    /\ k < nextKey /\ k \notin expiredKeys
    /\ expiredKeys' = expiredKeys \cup {k}
    /\ UNCHANGED <<certs, certRows, nextKey, certOps, hellos, repairs, contended, certFaults>>

\* LoadCertificates skips expired certificates.
LoadCertificates ==
    [d \in CertNames |-> IF Usable(certRows, d) THEN ToCertificate(certRows[d]) ELSE NoCert]

CertificatesRestart ==
    /\ certs # LoadCertificates \/ \E r \in CertOps : certOps[r].pc # "idle"
    /\ certs' = LoadCertificates
    /\ certOps' = [r \in CertOps |-> NoOp]
    /\ hellos' = [h \in Handshakes |-> NoHello]
    /\ contended' = {}
    /\ UNCHANGED <<certRows, expiredKeys, nextKey, repairs, certFaults>>

CertificatesNext ==
    \/ \E r \in CertOps :
          \/ HandleGenerate(r) \/ HandleReplace(r) \/ RenewReads(r) \/ RenewGenerates(r)
          \/ Persist(r) \/ HandleDelete(r) \/ DeleteRow(r)
    \/ \E h \in Handshakes :
          \/ \E d \in CertNames : HelloLooksUp(h, d)
          \/ HelloReadsStorage(h) \/ HelloCaches(h)
    \/ \E k \in 1..MaxKeys : CertificateExpires(k)
    \/ CertificatesRestart

CertificatesSpec == CertificatesInit /\ [][CertificatesNext]_certVars

---------------------------------------------------------------------------
(* Properties *)

\* What clients pin survives a restart: unless requests and handshakes overlapped
\* on a domain or a database write failed, the key in memory is the one in the
\* database whenever nothing is under way, through renewals that file the new
\* certificate under another name, deletions, handshakes and restarts.
MemoryIsPersisted ==
    \A d \in CertNames :
        d \notin contended /\ ~InWrite(d) /\ Usable(certs, d) => certs[d].key = certRows[d].key
=============================================================================
