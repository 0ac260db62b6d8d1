----------------------------- MODULE SecretApi ------------------------------
(***************************************************************************)
(* Secrets, image registries and certificates: three families of requests  *)
(* over one table.  A label of the row says which of the three it is, but  *)
(* a request of any family takes a row of any kind by its name.  Data is a *)
(* function from keys to values; what a response hides, "" stands for.     *)
(* Who mounts a row, and so whether it may be deleted, is the matter of    *)
(* Resources: here a row that is not mounted is deleted.                   *)
(***************************************************************************)
EXTENDS Calls

CONSTANTS
  Names,  \* of rows
  Values, \* of keys, passwords, certificates ...; a certificate and its key are the same value
  Descs   \* descriptions

VARIABLE db

Init == db = [x \in {} |-> 0]

-----------------------------------------------------------------------------
(* The views of a row.                                                     *)

Value(data, key) == IF key \in DOMAIN data THEN data[key] ELSE ""

FromSecretToView(s) == [data |-> s.data, desc |-> s.desc]
FromSecretToRegistry(s) ==
  [address |-> Value(s.data, "address"), username |-> Value(s.data, "username"),
   password |-> Value(s.data, "password"), desc |-> s.desc]
\* info stands for what is shown of the certificate: issuer, times, fingerprint ...
FromSecretToCertificate(s) ==
  [key |-> Value(s.data, "key"), certificate |-> Value(s.data, "certificate"),
   info |-> Value(s.data, "info"), desc |-> s.desc]

SecretToSecret(v) == [label |-> "config", data |-> v.data, desc |-> v.desc]
RegistryToSecret(v) ==
  [label |-> "registry", desc |-> v.desc,
   data |-> [address |-> v.address, username |-> v.username, password |-> v.password]]
CertificateToSecret(v) ==
  [label |-> "certificate", desc |-> v.desc,
   data |-> [key |-> v.key, certificate |-> v.certificate, info |-> v.info]]

\* Lists show the rows with the label of the family only.
ListSecret == {x \in DOMAIN db : db[x].label = "config"}
ListRegistry == {x \in DOMAIN db : db[x].label = "registry"}
ListCertificate == {x \in DOMAIN db : db[x].label = "certificate"}

hidePwd(v) == [v EXCEPT !.password = ""]
hideCertKey(v) == [v EXCEPT !.key = ""]

ValidateRegistryModel(v) == v.address # "" /\ v.username # "" /\ v.password # ""

\* X509KeyPair: the key belongs to the certificate.
KeyPair(v) == v.certificate # "" /\ v.key = v.certificate
ParseCertInfo(v) == [v EXCEPT !.info = v.certificate]

-----------------------------------------------------------------------------
(* The requests.  One that is refused changes nothing.                     *)

Free(x) == x \notin DOMAIN db
Set(x, s) == db' = Put(db, x, s)

CreateSecret(x, v) == Free(x) /\ Set(x, SecretToSecret(v))

\* The family is not checked: a registry or certificate becomes a secret.
UpdateSecret(x, v) ==
  /\ ~Free(x) /\ FromSecretToView(db[x]) # v
  /\ Set(x, SecretToSecret(v))

DeleteSecret(x) == ~Free(x) /\ db' = Drop(db, x)

CreateRegistry(x, v) == Free(x) /\ ValidateRegistryModel(v) /\ Set(x, RegistryToSecret(v))

\* Only the description is taken from the request.
Described(s, v) == [FromSecretToRegistry(s) EXCEPT !.desc = v.desc]
UpdateRegistry(x, v) ==
  /\ ~Free(x) /\ v.desc # db[x].desc
  /\ ValidateRegistryModel(Described(db[x], v))
  /\ Set(x, RegistryToSecret(Described(db[x], v)))

\* Mutant: not validated.
RefreshRegistryPassword_NotValidated(x, v) ==
  ~Free(x) /\ Set(x, RegistryToSecret([FromSecretToRegistry(db[x]) EXCEPT !.password = v.password]))

RefreshRegistryPassword(x, v) ==
  LET new == [FromSecretToRegistry(db[x]) EXCEPT !.password = v.password]
  IN /\ ~Free(x) /\ ValidateRegistryModel(new)
     /\ Set(x, RegistryToSecret(new))

CreateCertificate(x, v) ==
  Free(x) /\ KeyPair(v) /\ Set(x, CertificateToSecret(ParseCertInfo(v)))

\* Without a key the stored key and certificate are kept, whatever the request says.
Renewed(s, v) ==
  LET sd == FromSecretToCertificate(s)
      kept == [sd EXCEPT !.desc = v.desc]
  IN IF v.key = "" THEN kept ELSE [kept EXCEPT !.key = v.key, !.certificate = v.certificate]
UpdateCertificate(x, v) ==
  /\ ~Free(x) /\ (v.key # "" => v.certificate # "")
  /\ LET new == Renewed(db[x], v)
     IN /\ new # FromSecretToCertificate(db[x])
        /\ KeyPair(new)
        /\ Set(x, CertificateToSecret(ParseCertInfo(new)))

\* Bodies of requests: a value, or none.
Given == Values \cup {""}
Secrets == [data : [{"a"} -> Values] \cup [{"address", "username"} -> Values], desc : Descs]
Registries == [address : Given, username : Given, password : Given, desc : Descs]
Certificates == [key : Given, certificate : Given, info : {""}, desc : Descs]

Next ==
  \E x \in Names :
    \/ \E v \in Secrets : CreateSecret(x, v) \/ UpdateSecret(x, v)
    \/ \E v \in Registries : CreateRegistry(x, v) \/ UpdateRegistry(x, v) \/ RefreshRegistryPassword(x, v)
    \/ \E v \in Certificates : CreateCertificate(x, v) \/ UpdateCertificate(x, v)
    \/ DeleteSecret(x)

Spec == Init /\ [][Next]_db

-----------------------------------------------------------------------------
\* What is listed as a registry has its address, user name and password, and what is
\* listed as a certificate has the key that belongs to it and shows that certificate's
\* own issuer, times and fingerprint, whatever family of requests the row came from.
\* A client that sends back what it was shown, without the password or the key, changes
\* neither.
CredentialsWhole ==
  /\ ListSecret \cup ListRegistry \cup ListCertificate = DOMAIN db
  /\ \A x \in ListRegistry :
       LET v == FromSecretToRegistry(db[x])
           echo == hidePwd(v)
       IN ValidateRegistryModel(v) /\ Described(db[x], echo) = v
  /\ \A x \in ListCertificate :
       LET v == FromSecretToCertificate(db[x])
           echo == hideCertKey(v)
       IN KeyPair(v) /\ v.info = v.certificate /\ Renewed(db[x], echo) = v
=============================================================================
