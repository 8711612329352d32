--------------------------- MODULE AdaptersProofs ---------------------------
(***************************************************************************)
(* What the retry loop and the router rely on when a Chat of an adapter    *)
(* fails; that Bedrock accepts what Sign signs for a model of a plain id;  *)
(* that all backends are asked the same; and that their answers mean the   *)
(* same: for all requests, credentials, statuses and generations.          *)
(***************************************************************************)
EXTENDS Adapters, FiniteSetTheorems, SequenceInduction

(***************************************************************************)
(* ErrorsAreFair is inductive with this: there is a body from Build on and *)
(* an answer from the moment it was read to its end.                       *)
(***************************************************************************)
Underway ==
    /\ pc \in {"build", "send", "read", "decode"}
    /\ body = NoBody <=> pc = "build"
    /\ pc \in {"build", "send", "read"} => ~Arrived
    /\ pc = "decode" => Arrived

FairInv == (pc # "done" => Underway) /\ ErrorsAreFair

\* A body that was built, and an answer that came, are told from none.
LEMMA BodiesShow ==
    ASSUME NEW req
    PROVE  MessagesBody(req) # NoBody /\ CompletionsBody(req) # NoBody
<1>1. "user" \in DOMAIN MessagesBody(req) /\ "user" \in DOMAIN CompletionsBody(req)
  BY DEF MessagesBody, CompletionsBody
<1>2. "user" \notin DOMAIN NoBody
  BY DEF NoBody
<1>3. QED
  BY <1>1, <1>2

LEMMA AnswersShow ==
    ASSUME NEW status, NEW json
    PROVE  [status |-> status, json |-> json] # NoAnswer
<1>1. "json" \in DOMAIN [status |-> status, json |-> json] /\ "json" \notin DOMAIN NoAnswer
  BY DEF NoAnswer
<1>2. QED
  BY <1>1

LEMMA FairStep ==
    ASSUME FairInv, [Next]_vars
    PROVE  FairInv'
<1>1. CASE Refuse
  <2>1. /\ pc' = "done" /\ result' = PlainError
        /\ body' = NoBody /\ ~Arrived'
    BY <1>1 DEF Refuse, Return, FairInv, Underway, Arrived
  <2>2. ErrorsAreFair'
    BY <2>1 DEF ErrorsAreFair, PlainError, IsRetryable
  <2>3. QED
    BY <2>1, <2>2 DEF FairInv
<1>2. CASE Build
  <2>1. /\ pc' = "send" /\ UNCHANGED <<ctx, answer>>
        /\ body' # NoBody
    BY <1>2, BodiesShow DEF Build
  <2>2. QED
    BY <1>2, <2>1 DEF Build, FairInv, Underway, Arrived, ErrorsAreFair
<1>3. CASE TransportFails
  <2>1. PICK cause \in {"none", "deadline"} \cup ({ctx} \ {"live"}) :
          pc' = "done" /\ result' = TransportError(cause)
    BY <1>3 DEF TransportFails, Return
  <2>2. body' # NoBody /\ ~Arrived' /\ ctx' = ctx
    BY <1>3 DEF TransportFails, FairInv, Underway, Arrived
  <2>3. cause = "canceled" => ctx' = "canceled"
    BY <2>1, <2>2
  <2>4. ErrorsAreFair'
    BY <2>1, <2>2, <2>3 DEF ErrorsAreFair, TransportError, IsRetryable
  <2>5. QED
    BY <2>1, <2>4 DEF FairInv
<1>4. CASE Respond
  BY <1>4 DEF Respond, FairInv, Underway, Arrived, ErrorsAreFair
<1>5. ASSUME NEW status \in Statuses, Read(status)
      PROVE  FairInv'
  <2>1. /\ pc = "read" /\ pc' = "decode" /\ UNCHANGED <<ctx, body>>
        /\ \E st, json : answer' = [status |-> st, json |-> json]
    BY <1>5 DEF Read
  <2>2. Arrived'
    BY <2>1, AnswersShow DEF Arrived
  <2>3. QED
    BY <2>1, <2>2 DEF FairInv, Underway, ErrorsAreFair
<1>6. CASE Decode
  <2>1. /\ pc' = "done" /\ UNCHANGED <<ctx, body, answer>>
        /\ body # NoBody /\ Arrived
    BY <1>6 DEF Decode, Return, FairInv, Underway
  <2>2. CASE answer.status # 200
    <3>1. result' = HTTPError(answer.status)
      BY <1>6, <2>2 DEF Decode, Return
    <3>2. IsRetryable(result') <=> answer.status \in Transient
      BY <3>1 DEF HTTPError, IsRetryable, RetryableStatus, Transient
    <3>3. /\ result'.kind = "http" /\ result'.cause = "none"
          /\ result'.status = answer.status
      BY <3>1 DEF HTTPError
    <3>4. ErrorsAreFair'
      BY <2>1, <2>2, <3>2, <3>3 DEF ErrorsAreFair, Arrived
    <3>5. QED
      BY <2>1, <3>4 DEF FairInv
  <2>3. CASE answer.status = 200 /\ result' = PlainError
    <3>1. ErrorsAreFair'
      BY <2>1, <2>3 DEF ErrorsAreFair, Arrived, PlainError, IsRetryable, Transient
    <3>2. QED
      BY <2>1, <3>1 DEF FairInv
  <2>4. CASE result' = Response(answer.json)
    <3>1. result'.kind = "ok"
      BY <2>4 DEF Response
    <3>2. QED
      BY <2>1, <3>1 DEF FairInv, ErrorsAreFair
  <2>5. QED
    BY <1>6, <2>2, <2>3, <2>4 DEF Decode, Return
<1>7. CASE EndContext
  BY <1>7 DEF EndContext, FairInv, Underway, Arrived, ErrorsAreFair
<1>8. CASE Done \/ UNCHANGED vars
  BY <1>8 DEF Done, vars, FairInv, Underway, Arrived, ErrorsAreFair
<1>9. QED
  BY <1>1, <1>2, <1>3, <1>4, <1>5, <1>6, <1>7, <1>8 DEF Next

(***************************************************************************)
(* Whatever a backend answers, wherever the transport fails and whenever   *)
(* the context ends: an error is retryable if and only if the backend was  *)
(* asked and its answer did not arrive whole or has one of six statuses;   *)
(* it blames the context only for an answer that did not arrive, and the   *)
(* caller only if he went away; it is a plain one if and only if nothing   *)
(* was asked or a 200 could not be decoded.                                *)
(***************************************************************************)
THEOREM ErrorsAreFairHolds == Spec => []ErrorsAreFair
<1>1. Init => FairInv
  BY DEF Init, FairInv, Underway, Arrived, ErrorsAreFair
<1>2. FairInv => ErrorsAreFair
  BY DEF FairInv
<1>3. QED
  BY <1>1, <1>2, FairStep, PTL DEF Spec
(***************************************************************************)
(* The errors of the adapters are no others than those that the router is  *)
(* modelled with: what a provider call may fail with in Router, while the  *)
(* context of its caller is in this state.                                 *)
(***************************************************************************)
FailureIsProvided ==
    pc = "done" /\ result.kind # "ok" =>
        result \in ProviderFailures(ctx, Statuses \ {200})

ProvidedInv ==
    /\ pc = "decode" => answer.status \in Statuses
    /\ FailureIsProvided

LEMMA ProvidedStep ==
    ASSUME ProvidedInv, [Next]_vars
    PROVE  ProvidedInv'
<1>1. ASSUME NEW err \in ProviderFailures(ctx, Statuses \ {200}), Return(err), ctx' = ctx
      PROVE  ProvidedInv'
  BY <1>1 DEF Return, ProvidedInv, FailureIsProvided
<1>2. CASE Refuse
  <2>1. PlainError \in ProviderFailures(ctx, Statuses \ {200})
    BY DEF ProviderFailures
  <2>2. QED
    BY <1>1, <1>2, <2>1 DEF Refuse
<1>3. CASE TransportFails
  <2>1. PICK cause \in {"none", "deadline"} \cup ({ctx} \ {"live"}) :
          Return(TransportError(cause))
    BY <1>3 DEF TransportFails
  <2>2. TransportError(cause) \in ProviderFailures(ctx, Statuses \ {200})
    BY <2>1 DEF ProviderFailures
  <2>3. QED
    BY <1>1, <1>3, <2>1, <2>2 DEF TransportFails
<1>4. ASSUME NEW status \in Statuses, Read(status)
      PROVE  ProvidedInv'
  BY <1>4 DEF Read, ProvidedInv, FailureIsProvided
<1>5. CASE Decode
  <2>1. CASE answer.status # 200
    <3>1. HTTPError(answer.status) \in ProviderFailures(ctx, Statuses \ {200})
      BY <1>5, <2>1 DEF ProviderFailures, Decode, ProvidedInv
    <3>2. QED
      BY <1>1, <1>5, <2>1, <3>1 DEF Decode
  <2>2. CASE Return(PlainError)
    <3>1. PlainError \in ProviderFailures(ctx, Statuses \ {200})
      BY DEF ProviderFailures
    <3>2. QED
      BY <1>1, <1>5, <2>2, <3>1 DEF Decode
  <2>3. CASE Return(Response(answer.json))
    BY <2>3 DEF Return, Response, ProvidedInv, FailureIsProvided
  <2>4. QED
    BY <1>5, <2>1, <2>2, <2>3 DEF Decode
<1>6. CASE Build \/ Respond \/ EndContext \/ Done \/ UNCHANGED vars
  BY <1>6 DEF Build, Respond, EndContext, Done, vars, ProvidedInv, FailureIsProvided
<1>7. QED
  BY <1>2, <1>3, <1>4, <1>5, <1>6 DEF Next

THEOREM FailuresAreProvided == Spec => []FailureIsProvided
<1>1. Init => ProvidedInv
  BY DEF Init, ProvidedInv, FailureIsProvided
<1>2. ProvidedInv => FailureIsProvided
  BY DEF ProvidedInv
<1>3. QED
  BY <1>1, <1>2, ProvidedStep, PTL DEF Spec
-----------------------------------------------------------------------------
(* Sign and the service.                                                   *)

\* ToSet of a concatenation.
LEMMA ElementsOfBoth ==
    ASSUME NEW S, NEW s \in Seq(S), NEW t \in Seq(S)
    PROVE  s \o t \in Seq(S) /\ ToSet(s \o t) = ToSet(s) \cup ToSet(t)
<1>1. /\ s \o t \in Seq(S) /\ Len(s \o t) = Len(s) + Len(t)
      /\ \A i \in 1 .. Len(s) + Len(t) :
             (s \o t)[i] = IF i <= Len(s) THEN s[i] ELSE t[i - Len(s)]
  BY ConcatProperties
<1>2. /\ DOMAIN s = 1 .. Len(s) /\ DOMAIN t = 1 .. Len(t)
      /\ DOMAIN (s \o t) = 1 .. Len(s) + Len(t)
      /\ Len(s) \in Nat /\ Len(t) \in Nat
  BY <1>1, LenProperties
<1>3. ASSUME NEW x \in ToSet(s) PROVE x \in ToSet(s \o t)
  <2>1. PICK i \in 1 .. Len(s) : x = s[i]
    BY <1>2, <1>3 DEF ToSet
  <2>2. i \in 1 .. Len(s) + Len(t) /\ (s \o t)[i] = x
    BY <1>1, <1>2, <2>1
  <2>3. QED
    BY <1>2, <2>2 DEF ToSet
<1>4. ASSUME NEW x \in ToSet(t) PROVE x \in ToSet(s \o t)
  <2>1. PICK i \in 1 .. Len(t) : x = t[i]
    BY <1>2, <1>4 DEF ToSet
  <2>2. Len(s) + i \in 1 .. Len(s) + Len(t) /\ (s \o t)[Len(s) + i] = x
    BY <1>1, <1>2, <2>1
  <2>3. QED
    BY <1>2, <2>2 DEF ToSet
<1>5. ASSUME NEW x \in ToSet(s \o t) PROVE x \in ToSet(s) \cup ToSet(t)
  <2>1. PICK i \in 1 .. Len(s) + Len(t) : x = (s \o t)[i]
    BY <1>2, <1>5 DEF ToSet
  <2>2. CASE i <= Len(s)
    BY <1>1, <1>2, <2>1, <2>2 DEF ToSet
  <2>3. CASE i > Len(s)
    <3>1. i - Len(s) \in 1 .. Len(t) /\ x = t[i - Len(s)]
      BY <1>1, <1>2, <2>1, <2>3
    <3>2. QED
      BY <1>2, <3>1 DEF ToSet
  <2>4. QED
    BY <1>2, <2>1, <2>2, <2>3
<1>6. QED
  BY <1>1, <1>3, <1>4, <1>5

\* One name is in the order if it is among the names.
LEMMA ElementOfOne ==
    ASSUME NEW S, NEW names, NEW name \in S
    PROVE  Among(names, name) \in Seq(S) /\ ToSet(Among(names, name)) = names \cap {name}
<1>1. CASE name \in names
  <2>1. Among(names, name) = <<name>>
    BY <1>1 DEF Among
  <2>2. <<name>> \in Seq(S) /\ DOMAIN <<name>> = {1} /\ <<name>>[1] = name
    OBVIOUS
  <2>3. ToSet(<<name>>) = {name}
    BY <2>2 DEF ToSet
  <2>4. QED
    BY <1>1, <2>1, <2>2, <2>3
<1>2. CASE name \notin names
  <2>1. Among(names, name) = <<>>
    BY <1>2 DEF Among
  <2>2. <<>> \in Seq(S) /\ DOMAIN <<>> = {}
    OBVIOUS
  <2>3. ToSet(<<>>) = {}
    BY <2>2 DEF ToSet
  <2>4. QED
    BY <1>2, <2>1, <2>2, <2>3
<1>3. QED
  BY <1>1, <1>2

CanBeSigned == {"content-type", "host"} \cup AmzHeaders

\* Sorting loses no name.
LEMMA SortedNames ==
    ASSUME NEW names \in SUBSET CanBeSigned
    PROVE  ToSet(InByteOrder(names)) = names
<1> DEFINE one   == Among(names, "content-type")
           two   == Among(names, "host")
           three == Among(names, "x-amz-content-sha256")
           four  == Among(names, "x-amz-date")
           five  == Among(names, "x-amz-security-token")
<1>1. /\ one \in Seq(CanBeSigned)   /\ ToSet(one) = names \cap {"content-type"}
      /\ two \in Seq(CanBeSigned)   /\ ToSet(two) = names \cap {"host"}
      /\ three \in Seq(CanBeSigned) /\ ToSet(three) = names \cap {"x-amz-content-sha256"}
      /\ four \in Seq(CanBeSigned)  /\ ToSet(four) = names \cap {"x-amz-date"}
      /\ five \in Seq(CanBeSigned)  /\ ToSet(five) = names \cap {"x-amz-security-token"}
  <2>1. /\ "content-type" \in CanBeSigned /\ "host" \in CanBeSigned
        /\ "x-amz-content-sha256" \in CanBeSigned /\ "x-amz-date" \in CanBeSigned
        /\ "x-amz-security-token" \in CanBeSigned
    BY DEF CanBeSigned, AmzHeaders
  <2>2. QED
    BY <2>1, ElementOfOne, Zenon
<1>2. InByteOrder(names) = one \o two \o three \o four \o five
  BY DEF InByteOrder
<1> HIDE DEF one, two, three, four, five
<1> DEFINE first2 == one \o two
<1>3. first2 \in Seq(CanBeSigned) /\ ToSet(first2) = ToSet(one) \cup ToSet(two)
  BY <1>1, ElementsOfBoth
<1> HIDE DEF first2
<1> DEFINE first3 == first2 \o three
<1>4. first3 \in Seq(CanBeSigned) /\ ToSet(first3) = ToSet(first2) \cup ToSet(three)
  <2>1. first2 \in Seq(CanBeSigned) /\ three \in Seq(CanBeSigned)
    BY <1>1, <1>3
  <2>2. QED
    BY <2>1, ElementsOfBoth
<1> HIDE DEF first3
<1> DEFINE first4 == first3 \o four
<1>5. first4 \in Seq(CanBeSigned) /\ ToSet(first4) = ToSet(first3) \cup ToSet(four)
  BY <1>1, <1>4, ElementsOfBoth
<1> HIDE DEF first4
<1>6. ToSet(first4 \o five) = ToSet(first4) \cup ToSet(five)
  BY <1>1, <1>5, ElementsOfBoth
<1>7. InByteOrder(names) = first4 \o five
  BY <1>2 DEF first4, first3, first2
<1>8. QED
  BY <1>1, <1>3, <1>4, <1>5, <1>6, <1>7 DEF CanBeSigned, AmzHeaders

\* Whatever the order in which the names are found, all of them are.
LEMMA OrderFindsAll ==
    ASSUME NEW S, IsFiniteSet(S), NEW found \in SetToSeqs(S)
    PROVE  ToSet(found) = S
<1> DEFINE D == 1 .. Cardinality(S)
<1>1. Cardinality(S) \in Nat
  BY FS_CardinalityType
<1>2. IsFiniteSet(D) /\ Cardinality(D) = Cardinality(S)
  BY <1>1, FS_Interval
<1>3. found \in [D -> S] /\ \A i, j \in D : i # j => found[i] # found[j]
  BY DEF SetToSeqs
<1> HIDE DEF D
<1>4. found \in Injection(D, S)
  <2>1. found \in [D -> S] /\ \A i, j \in D : found[i] = found[j] => i = j
    BY <1>3
  <2>2. QED
    BY <2>1 DEF Injection, IsInjective
<1>5. found \in Surjection(D, S)
  BY <1>2, <1>4, FS_Injection
<1>6. DOMAIN found = D /\ \A x \in S : \E k \in D : found[k] = x
  BY <1>3, <1>5 DEF Surjection
<1>7. QED
  BY <1>3, <1>6 DEF ToSet

\* As many names as can be signed.
LEMMA FewAreFinite ==
    ASSUME NEW a, NEW b, NEW c, NEW d, NEW e
    PROVE  IsFiniteSet({a, b} \cup {c, d, e})
<1>1. /\ IsFiniteSet({a}) /\ IsFiniteSet({b}) /\ IsFiniteSet({c})
      /\ IsFiniteSet({d}) /\ IsFiniteSet({e})
  BY FS_Singleton
<1>2. IsFiniteSet(({a} \cup {b}) \cup (({c} \cup {d}) \cup {e}))
  BY <1>1, FS_Union
<1>3. ({a} \cup {b}) \cup (({c} \cup {d}) \cup {e}) = {a, b} \cup {c, d, e}
  OBVIOUS
<1>4. QED
  BY <1>2, <1>3

\* What Header.Set leaves.
LEMMA SetFacts ==
    ASSUME NEW given, NEW name, NEW value
    PROVE  /\ DOMAIN Set(given, name, value) = DOMAIN given \cup {name}
           /\ Set(given, name, value)[name] = value
           /\ \A n \in DOMAIN given \ {name} : Set(given, name, value)[n] = given[n]
BY DEF Set

\* What Sign has set by the time it signs.
LEMMA StampedFacts ==
    ASSUME NEW given, NEW creds, NEW host, NEW payload, NEW time
    PROVE  LET stamped == Stamped(given, creds, host, payload, time)
           IN  /\ {"host", "x-amz-date", "x-amz-content-sha256"} \subseteq DOMAIN stamped
               /\ stamped["host"] = host
               /\ stamped["x-amz-date"] = time
               /\ stamped["x-amz-content-sha256"] = Hash(payload)
<1> DEFINE hosted == Set(given, "host", host)
           dated  == Set(hosted, "x-amz-date", time)
           keyed  == IF creds.session = "" THEN dated
                     ELSE Set(dated, "x-amz-security-token", creds.session)
           hashed == Set(keyed, "x-amz-content-sha256", Hash(payload))
<1>1. "host" \in DOMAIN hosted /\ hosted["host"] = host
  BY DEF Set
<1>2. /\ {"host", "x-amz-date"} \subseteq DOMAIN dated
      /\ dated["host"] = host /\ dated["x-amz-date"] = time
  <2> HIDE DEF hosted
  <2>1. QED
    BY <1>1 DEF Set
<1>3. /\ {"host", "x-amz-date"} \subseteq DOMAIN keyed
      /\ keyed["host"] = host /\ keyed["x-amz-date"] = time
  <2> HIDE DEF dated
  <2>1. QED
    BY <1>2 DEF Set
<1>4. /\ {"host", "x-amz-date", "x-amz-content-sha256"} \subseteq DOMAIN hashed
      /\ hashed["host"] = host /\ hashed["x-amz-date"] = time
      /\ hashed["x-amz-content-sha256"] = Hash(payload)
  <2> HIDE DEF keyed
  <2>1. QED
    BY <1>3 DEF Set
<1>5. Stamped(given, creds, host, payload, time) = hashed
  BY DEF Stamped
<1> HIDE DEF hashed
<1>6. QED
  BY <1>4, <1>5, Zenon

\* The service recomputes the signature of every request that was signed with a
\* secret it knows, whatever headers the request had, if it makes of the path what
\* Sign did.
LEMMA SignedIsAccepted ==
    ASSUME NEW secretOf, NEW hs, NEW creds, secretOf[creds.id] = creds.secret,
           NEW host, NEW region, NEW payload, NEW time,
           NEW path, EncodedAgain(path) = CanonicalURI(path),
           NEW signed \in Signatures(hs, creds, host, region, path, payload, time)
    PROVE  Accepts(secretOf, host, region, path, signed, payload)
<1> DEFINE stamped == Stamped(hs, creds, host, payload, time)
           scope   == Scope(time.day, region)
           Text(names) ==
               StringToSign(time, scope,
                   CanonicalRequest(CanonicalURI(path), stamped, names, payload))
           Authorization(names) ==
               [id |-> creds.id, scope |-> scope, signed |-> names,
                signature |-> Hmac(SigningKey(creds.secret, scope), Text(names))]
<1>1. PICK found \in SetToSeqs(Signable(stamped)) :
        signed = Set(stamped, "authorization", Authorization(CanonicalNames(found)))
  BY DEF Signatures
<1> DEFINE names == CanonicalNames(found)
           auth  == signed["authorization"]
<1>2. /\ {"host", "x-amz-date", "x-amz-content-sha256"} \subseteq DOMAIN stamped
      /\ stamped["host"] = host
      /\ stamped["x-amz-date"] = time
      /\ stamped["x-amz-content-sha256"] = Hash(payload)
  BY StampedFacts
<1> HIDE DEF stamped
<1>3. /\ DOMAIN signed = DOMAIN stamped \cup {"authorization"}
      /\ \A n \in DOMAIN stamped \ {"authorization"} : signed[n] = stamped[n]
      /\ auth = Authorization(names)
  BY <1>1 DEF Set
<1>4. /\ auth.id = creds.id /\ auth.scope = scope /\ auth.signed = names
      /\ auth.signature = Hmac(SigningKey(creds.secret, scope), Text(names))
  BY <1>3
<1>5. ToSet(found) = Signable(stamped)
  <2>1. Signable(stamped) \in SUBSET CanBeSigned
    BY DEF Signable, CanBeSigned
  <2>2. IsFiniteSet(CanBeSigned)
    BY FewAreFinite, Zenon DEF CanBeSigned, AmzHeaders
  <2>3. IsFiniteSet(Signable(stamped))
    BY <2>1, <2>2, FS_Subset
  <2>4. QED
    BY <2>3, OrderFindsAll
<1>6. {"host"} \cup ToSet(found) \in SUBSET CanBeSigned
  BY <1>5 DEF Signable, CanBeSigned
<1>7. ToSet(names) = {"host"} \cup Signable(stamped)
  BY <1>5, <1>6, SortedNames DEF CanonicalNames
<1>8. InByteOrder(ToSet(auth.signed)) = names
  BY <1>4, <1>5, <1>7 DEF CanonicalNames
<1>9. ToSet(names) \subseteq DOMAIN stamped \ {"authorization"}
  BY <1>2, <1>7 DEF Signable, AmzHeaders
<1>10. CanonicalRequest(EncodedAgain(path), signed, names, payload)
         = CanonicalRequest(CanonicalURI(path), stamped, names, payload)
  <2>1. \A i \in DOMAIN names : signed[names[i]] = stamped[names[i]]
    BY <1>3, <1>9 DEF ToSet
  <2>2. QED
    BY <2>1 DEF CanonicalRequest
<1>11. /\ signed["host"] = host
       /\ signed["x-amz-date"] = time
       /\ signed["x-amz-content-sha256"] = Hash(payload)
  BY <1>2, <1>3
<1>12. {"host"} \cup (AmzHeaders \cap DOMAIN signed) \subseteq ToSet(auth.signed)
  BY <1>3, <1>4, <1>7 DEF Signable, AmzHeaders
<1>13. auth.signature =
         Hmac(SigningKey(secretOf[auth.id], scope),
              StringToSign(time, scope,
                  CanonicalRequest(EncodedAgain(path), signed, names, payload)))
  BY <1>4, <1>10
<1> HIDE DEF names, auth, scope
<1>14. QED
  BY <1>4, <1>8, <1>11, <1>12, <1>13 DEF Accepts, scope, auth

(***************************************************************************)
(* SignatureIsAccepted speaks of the service and is not inductive: what is *)
(* kept from Build to the sending is that the headers are among those that *)
(* Sign makes for this body.                                               *)
(***************************************************************************)
SignedInv ==
    pc = "send" /\ backend = "bedrock" => headers \in Signed(body)

LEMMA SignedStep ==
    ASSUME SignedInv, [Next]_vars
    PROVE  SignedInv'
<1>1. CASE Build
  <2>1. UNCHANGED <<backend, request>> /\ (backend = "bedrock" => headers' \in Signed(body'))
    BY <1>1 DEF Build
  <2>2. QED
    BY <2>1 DEF SignedInv, Signed
<1>2. CASE EndContext \/ Done \/ UNCHANGED vars
  BY <1>2 DEF EndContext, Done, vars, SignedInv, Signed
<1>3. CASE \/ Refuse \/ TransportFails \/ Respond \/ Decode
           \/ \E status \in Statuses : Read(status)
  <2>1. pc' # "send"
    BY <1>3 DEF Refuse, TransportFails, Respond, Read, Decode, Return
  <2>2. QED
    BY <2>1 DEF SignedInv
<1>4. QED
  BY <1>1, <1>2, <1>3 DEF Next

\* A key id has one secret.
LEMMA SecretIsKnown ==
    ASSUME NEW creds \in Credentials
    PROVE  SecretOf[creds.id] = creds.secret
<1>1. PICK known \in Credentials :
        known = (CHOOSE c \in Credentials : c.id = creds.id) /\ known.id = creds.id
  OBVIOUS
<1>2. known.secret = creds.secret
  BY <1>1, AdaptersAssumption
<1>3. creds.id \in {c.id : c \in Credentials}
  OBVIOUS
<1>4. QED
  BY <1>1, <1>2, <1>3 DEF SecretOf

\* The path of a model whose id has neither ":" nor "/" stays as it is, however
\* often it is encoded.
LEMMA PlainPathStays ==
    ASSUME NEW model \in Seq(STRING), PlainModel(model),
           \A i \in DOMAIN model : model[i] # "%2F"
    PROVE  EncodedAgain(Path(model)) = CanonicalURI(Path(model))
<1>1. model = [i \in DOMAIN model |-> model[i]]
  BY LenProperties
<1>2. PathEscape(model) = model
  <2>1. \A i \in DOMAIN model :
          (IF model[i] = "/" THEN "%2F" ELSE model[i]) = model[i]
    BY DEF PlainModel
  <2>2. QED
    BY <1>1, <2>1 DEF PathEscape
<1>3. Path(model) = << <<"model">>, model, <<"invoke">> >>
  BY <1>2 DEF Path
<1>4. CanonicalURI(Path(model)) = Path(model)
  BY <1>3 DEF CanonicalURI
<1> DEFINE Again(segment) ==
               [i \in DOMAIN segment |->
                   IF segment[i] = ":" THEN "%3A"
                   ELSE IF segment[i] = "%2F" THEN "%252F"
                   ELSE segment[i]]
<1>5. Again(model) = model
  <2>1. \A i \in DOMAIN model :
          (IF model[i] = ":" THEN "%3A"
           ELSE IF model[i] = "%2F" THEN "%252F" ELSE model[i]) = model[i]
    BY DEF PlainModel
  <2>2. QED
    BY <1>1, <2>1
<1>6. Again(<<"model">>) = <<"model">> /\ Again(<<"invoke">>) = <<"invoke">>
  OBVIOUS
<1>7. \A path : EncodedAgain(path) = [s \in DOMAIN path |-> Again(path[s])]
  BY DEF EncodedAgain
<1> HIDE DEF Again
<1>8. [s \in DOMAIN << <<"model">>, model, <<"invoke">> >> |->
          Again(<< <<"model">>, model, <<"invoke">> >>[s])]
        = << <<"model">>, model, <<"invoke">> >>
  BY <1>5, <1>6
<1>9. QED
  BY <1>3, <1>4, <1>7, <1>8

(***************************************************************************)
(* Bedrock accepts the signature of every request for a model whose id has *)
(* neither ":" nor "/", for all bodies, credentials and times, in whatever *)
(* order the headers were found.                                           *)
(***************************************************************************)
THEOREM SignatureIsAcceptedHolds == Spec => []SignatureIsAccepted
<1>1. Init => SignedInv /\ request \in Requests
  BY DEF Init, SignedInv
<1>2. SignedInv /\ request \in Requests => SignatureIsAccepted
  <2> SUFFICES ASSUME SignedInv, request \in Requests, pc = "send", backend = "bedrock",
                      PlainModel(request.model)
               PROVE  Accepts(SecretOf, Host, Region, Path(request.model), headers, body)
    BY DEF SignatureIsAccepted, Accepted
  <2>1. PICK creds \in Credentials :
          headers \in Signatures(ContentHeaders, creds, Host, Region, Path(request.model),
                                 body, Time)
    BY DEF SignedInv, Signed
  <2>2. EncodedAgain(Path(request.model)) = CanonicalURI(Path(request.model))
    BY AdaptersAssumption, PlainPathStays
  <2>3. QED
    BY <2>1, <2>2, SecretIsKnown, SignedIsAccepted
<1>3. request \in Requests /\ [Next]_vars => (request \in Requests)'
  BY DEF Next, Refuse, Build, TransportFails, Respond, Read, Decode, EndContext, Done, vars
<1>4. QED
  BY <1>1, <1>2, <1>3, SignedStep, PTL DEF Spec
-----------------------------------------------------------------------------
(***************************************************************************)
(* What the loops over messages, parts and paragraphs pick, as functions.  *)
(***************************************************************************)
Message == [role : STRING \cup {"system"}, content : STRING]
Part    == [type : STRING, text : STRING]

SaidOf   == [p \in STRING |-> IF p = "" THEN <<>> ELSE <<p>>]
InlineOf == [m \in Message |-> IF IsSystem(m) THEN <<m.content>> ELSE <<>>]
TurnOf   == [m \in Message |-> IF IsSystem(m) THEN <<>> ELSE <<m>>]
TextIn   == [p \in Part |-> IF p.type = "text" THEN <<p.text>> ELSE <<>>]

\* The provers do not know that a literal is a STRING, so Message names the role
\* of the message that the system prompt becomes for the Chat Completions API.
LEMMA MessagesOfRequests ==
    ASSUME NEW req \in Requests
    PROVE  req.messages \in Seq(Message)
<1> DEFINE S  == [role : STRING, content : STRING]
           ms == req.messages
<1>1. ms \in Seq(S)
  BY AdaptersAssumption
<1>2. S \subseteq Message
  BY DEF Message
<1> HIDE DEF S, ms
<1>3. \A i \in DOMAIN ms : ms[i] \in Message
  BY <1>1, <1>2, LenProperties, ElementOfSeq
<1>4. Len(ms) \in Nat /\ ms \in [1 .. Len(ms) -> S] /\ DOMAIN ms = 1 .. Len(ms)
  BY <1>1, LenProperties
<1>5. ms \in [1 .. Len(ms) -> Message]
  BY <1>3, <1>4
<1>6. ms \in Seq(Message)
  BY <1>4, <1>5
<1>7. QED
  BY <1>6 DEF ms

LEMMA NoneOrOne ==
    \A S : <<>> \in Seq(S) /\ \A x \in S : <<x>> \in Seq(S)
OBVIOUS

LEMMA PickerTypes ==
    /\ SaidOf \in Pickers(STRING, STRING)
    /\ InlineOf \in Pickers(Message, STRING)
    /\ TurnOf \in Pickers(Message, Message)
    /\ TextIn \in Pickers(Part, STRING)
<1>1. SaidOf \in Pickers(STRING, STRING)
  <2>1. \A p \in STRING : (IF p = "" THEN <<>> ELSE <<p>>) \in Seq(STRING)
    BY NoneOrOne, Zenon
  <2>2. QED
    BY <2>1 DEF SaidOf, Pickers
<1>2. InlineOf \in Pickers(Message, STRING)
  <2>1. \A m \in Message : (IF IsSystem(m) THEN <<m.content>> ELSE <<>>) \in Seq(STRING)
    <3>1. \A m \in Message : m.content \in STRING
      BY DEF Message
    <3>2. QED
      BY <3>1, NoneOrOne, Zenon
  <2>2. QED
    BY <2>1 DEF InlineOf, Pickers
<1>3. TurnOf \in Pickers(Message, Message)
  <2>1. \A m \in Message : (IF IsSystem(m) THEN <<>> ELSE <<m>>) \in Seq(Message)
    BY NoneOrOne, Zenon
  <2>2. QED
    BY <2>1 DEF TurnOf, Pickers
<1>4. TextIn \in Pickers(Part, STRING)
  <2>1. \A p \in Part : (IF p.type = "text" THEN <<p.text>> ELSE <<>>) \in Seq(STRING)
    <3>1. \A p \in Part : p.text \in STRING
      BY DEF Part
    <3>2. QED
      BY <3>1, NoneOrOne, Zenon
  <2>2. QED
    BY <2>1 DEF TextIn, Pickers
<1>5. QED
  BY <1>1, <1>2, <1>3, <1>4

LEMMA PickedBy ==
    /\ \A text \in Seq(STRING) : Said(text) = Picked(SaidOf, text)
    /\ \A messages \in Seq(Message) :
         /\ Inline(messages) = Picked(InlineOf, messages)
         /\ Conversation(messages) = Picked(TurnOf, messages)
    /\ \A parts \in Seq(Part) : ConcatText(parts) = Picked(TextIn, parts)
<1>1. ASSUME NEW text \in Seq(STRING)
      PROVE  Said(text) = Picked(SaidOf, text)
  <2>1. \A i \in DOMAIN text : text[i] \in STRING
    BY LenProperties, ElementOfSeq
  <2>2. Picks(SaidOf, text) = [i \in DOMAIN text |-> IF text[i] = "" THEN <<>> ELSE <<text[i]>>]
    BY <2>1 DEF Picks, SaidOf
  <2>3. QED
    BY <2>2 DEF Said, Picked
<1>2. ASSUME NEW messages \in Seq(Message)
      PROVE  /\ Inline(messages) = Picked(InlineOf, messages)
             /\ Conversation(messages) = Picked(TurnOf, messages)
  <2>1. \A i \in DOMAIN messages : messages[i] \in Message
    BY LenProperties, ElementOfSeq
  <2>2. Picks(InlineOf, messages)
          = [i \in DOMAIN messages |->
                IF IsSystem(messages[i]) THEN <<messages[i].content>> ELSE <<>>]
    BY <2>1 DEF Picks, InlineOf
  <2>3. Picks(TurnOf, messages)
          = [i \in DOMAIN messages |->
                IF IsSystem(messages[i]) THEN <<>> ELSE <<messages[i]>>]
    BY <2>1 DEF Picks, TurnOf
  <2>4. QED
    BY <2>2, <2>3 DEF Inline, Conversation, Picked
<1>3. ASSUME NEW parts \in Seq(Part)
      PROVE  ConcatText(parts) = Picked(TextIn, parts)
  <2>1. \A i \in DOMAIN parts : parts[i] \in Part
    BY LenProperties, ElementOfSeq
  <2>2. Picks(TextIn, parts)
          = [i \in DOMAIN parts |->
                IF parts[i].type = "text" THEN <<parts[i].text>> ELSE <<>>]
    BY <2>1 DEF Picks, TextIn
  <2>3. QED
    BY <2>2 DEF ConcatText, Picked
<1>4. QED
  BY <1>1, <1>2, <1>3
-----------------------------------------------------------------------------
(***************************************************************************)
(* Answers.                                                                *)
(***************************************************************************)
\* The text of the parts is what was generated as text.
LEMMA TextIsConcat ==
    ASSUME NEW generation, generation.parts \in Seq(Part)
    PROVE  ConcatText(generation.parts) = TextOf(generation)
<1> DEFINE parts == generation.parts
           N     == Len(parts)
           ss    == Picks(TextIn, parts)
           Def(f) == f = [n \in 0 .. N |->
                             IF n = 0 THEN <<>>
                             ELSE IF parts[n].type = "text" THEN Append(f[n - 1], parts[n].text)
                             ELSE f[n - 1]]
           upTo == CHOOSE f : Def(f)
<1>1. /\ N \in Nat
      /\ \A n \in 1 .. N : parts[n] \in Part
  BY LenProperties, ElementOfSeq
<1>2. /\ ss \in Seq(Seq(STRING)) /\ Len(ss) = N
      /\ \A n \in 1 .. N : ss[n] = TextIn[parts[n]]
  BY PickerTypes, PicksFacts
<1>3. TextOf(generation) = upTo[N]
  BY DEF TextOf
<1> HIDE DEF ss, parts
<1>4. ASSUME NEW n \in 1 .. N, NEW text \in Seq(STRING)
      PROVE  text \o ss[n] = IF parts[n].type = "text" THEN Append(text, parts[n].text)
                              ELSE text
  <2>1. /\ parts[n].text \in STRING
        /\ ss[n] = IF parts[n].type = "text" THEN <<parts[n].text>> ELSE <<>>
    BY <1>1, <1>2 DEF TextIn, Part
  <2>2. Append(text, parts[n].text) = text \o <<parts[n].text>>
    BY <2>1, AppendIsConcat
  <2>3. text \o <<>> = text
    BY ConcatEmptySeq
  <2>4. QED
    BY <2>1, <2>2, <2>3
<1>5. PICK walk : IsWalk(Seq(STRING), <<>>, Appending(STRING, ss), Len(ss), walk)
  BY <1>2, AppendingWalks
<1>6. Def(walk)
  <2>1. /\ walk[0] = <<>>
        /\ \A n \in 1 .. N : walk[n - 1] \in Seq(STRING) /\ walk[n] = walk[n - 1] \o ss[n]
    <3>1. ss \in Seq(Seq(STRING))
      BY <1>2
    <3>2. /\ walk[0] = <<>>
          /\ \A n \in 1 .. Len(ss) :
                walk[n - 1] \in Seq(STRING) /\ walk[n] = walk[n - 1] \o ss[n]
      BY <1>5, <3>1, AppendingFacts, Zenon
    <3>3. QED
      BY <1>2, <3>2
  <2>2. walk = [n \in 0 .. N |-> walk[n]]
    BY <1>2, <1>5 DEF IsWalk
  <2>3. ASSUME NEW n \in 0 .. N
        PROVE  walk[n] = IF n = 0 THEN <<>>
                         ELSE IF parts[n].type = "text" THEN Append(walk[n - 1], parts[n].text)
                         ELSE walk[n - 1]
    <3>1. CASE n = 0
      BY <2>1, <3>1
    <3>2. CASE n # 0
      <4>1. n \in 1 .. N
        BY <1>1, <3>2
      <4>2. walk[n - 1] \in Seq(STRING) /\ walk[n] = walk[n - 1] \o ss[n]
        BY <2>1, <4>1
      <4>3. walk[n] = IF parts[n].type = "text" THEN Append(walk[n - 1], parts[n].text)
                      ELSE walk[n - 1]
        BY <1>4, <4>1, <4>2
      <4>4. QED
        BY <3>2, <4>3
    <3>3. QED
      BY <3>1, <3>2
  <2>4. QED
    BY <2>2, <2>3, Zenon
<1>7. Def(upTo)
  BY <1>6
<1> HIDE DEF upTo
<1>8. StepsAlike(Seq(STRING), <<>>, Appending(STRING, ss), N, upTo)
  <2>1. upTo[0] = <<>>
    BY <1>1, <1>7
  <2>2. ASSUME NEW n \in 1 .. N, upTo[n - 1] \in Seq(STRING)
        PROVE  upTo[n] = Appending(STRING, ss)[n][upTo[n - 1]]
    <3>1. Appending(STRING, ss)[n][upTo[n - 1]] = upTo[n - 1] \o ss[n]
      BY <1>2, <2>2 DEF Appending
    <3>2. upTo[n] = IF parts[n].type = "text" THEN Append(upTo[n - 1], parts[n].text)
                    ELSE upTo[n - 1]
      <4>1. n \in 0 .. N /\ n # 0
        BY <1>1
      <4>2. QED
        BY <1>7, <4>1
    <3>3. QED
      BY <1>4, <2>2, <3>1, <3>2
  <2>3. QED
    BY <2>1, <2>2 DEF StepsAlike
<1>9. upTo[N] = FlattenSeq(ss)
  BY <1>2, <1>8, AppendingFlattens
<1>10. ConcatText(parts) = FlattenSeq(ss)
  BY PickedBy DEF Picked, ss, parts
<1>11. QED
  BY <1>3, <1>9, <1>10 DEF parts

\* Each way of ending is spelled, by either API, as something that is read back as
\* the same reason.
LEMMA EndingsKeep ==
    ASSUME NEW ending \in Endings
    PROVE  /\ MapStopReason(SpelledByMessages[ending]) = Normalized[ending]
           /\ MapFinishReason(SpelledByCompletions[ending]) = Normalized[ending]
<1>1. MapStopReason(SpelledByMessages[ending]) = Normalized[ending]
  BY DEF Endings, MapStopReason, StopReasons, SpelledByMessages, Normalized
<1>2. MapFinishReason(SpelledByCompletions[ending]) = Normalized[ending]
  BY DEF Endings, MapFinishReason, FinishReasons, SpelledByCompletions, Normalized
<1>3. QED
  BY <1>1, <1>2

\* What the response to an answer says of the generation it answers with.
SaysWhat(response, generation) ==
    /\ response.content = TextOf(generation)
    /\ response.finish = Normalized[generation.ending]
    /\ response.usage = [input  |-> generation.usage.input,
                         output |-> generation.usage.output]

LEMMA ResponseSays ==
    ASSUME NEW generation \in Generations
    PROVE  SaysWhat(Response(AnswerTo(generation)), generation)
<1> DEFINE json == AnswerTo(generation)
<1>1. generation.parts \in Seq(Part) /\ generation.ending \in Endings
  BY AdaptersAssumption DEF Part
<1>2. CASE backend \in Messages
  <2>1. /\ json.content = generation.parts
        /\ json.stop_reason = SpelledByMessages[generation.ending]
        /\ json.usage.input_tokens = generation.usage.input
        /\ json.usage.output_tokens = generation.usage.output
    BY <1>2 DEF AnswerTo, MessagesAnswer
  <2> HIDE DEF json
  <2>2. Content(json) = TextOf(generation)
    BY <1>1, <1>2, <2>1, TextIsConcat DEF Content
  <2>3. FinishReason(json) = Normalized[generation.ending]
    BY <1>1, <1>2, <2>1, EndingsKeep DEF FinishReason
  <2>4. Usage(json) = [input  |-> generation.usage.input,
                       output |-> generation.usage.output]
    BY <1>2, <2>1 DEF Usage
  <2>5. QED
    BY <2>2, <2>3, <2>4 DEF Response, SaysWhat, json
<1>3. CASE backend \notin Messages
  <2> DEFINE choice == [content       |-> TextOf(generation),
                        finish_reason |-> SpelledByCompletions[generation.ending]]
  <2>1. /\ json.choices[1] = choice
        /\ json.usage.prompt_tokens = generation.usage.input
        /\ json.usage.completion_tokens = generation.usage.output
    BY <1>3 DEF AnswerTo, CompletionsAnswer
  <2>2. /\ json.choices[1].content = TextOf(generation)
        /\ json.choices[1].finish_reason = SpelledByCompletions[generation.ending]
    BY <2>1
  <2> HIDE DEF json
  <2>3. Content(json) = TextOf(generation)
    BY <1>3, <2>2 DEF Content
  <2>4. FinishReason(json) = Normalized[generation.ending]
    BY <1>1, <1>3, <2>2, EndingsKeep DEF FinishReason
  <2>5. Usage(json) = [input  |-> generation.usage.input,
                       output |-> generation.usage.output]
    BY <1>3, <2>1 DEF Usage
  <2>6. QED
    BY <2>3, <2>4, <2>5 DEF Response, SaysWhat, json
<1>4. QED
  BY <1>2, <1>3

(***************************************************************************)
(* AnswersMeanTheSame does not say where a response came from; the         *)
(* invariant does: it was read from the answer that the backend gave to    *)
(* what it had generated.                                                  *)
(***************************************************************************)
FromGeneration(json) == reply \in Generations /\ json = AnswerTo(reply)

AnswerInv ==
    /\ pc = "decode" /\ answer.status = 200 =>
         Undecodable(answer.json) \/ FromGeneration(answer.json)
    /\ result.kind = "ok" =>
         pc = "done" /\ reply \in Generations /\ SaysWhat(result, reply)

LEMMA AnswerStep ==
    ASSUME AnswerInv, [Next]_vars
    PROVE  AnswerInv'
<1>1. ASSUME NEW err, Return(err), err.kind # "ok"
      PROVE  AnswerInv'
  BY <1>1 DEF Return, AnswerInv
<1>2. CASE Refuse
  BY <1>1, <1>2 DEF Refuse, PlainError
<1>3. CASE TransportFails
  BY <1>1, <1>3 DEF TransportFails, TransportError
<1>4. ASSUME NEW status \in Statuses, Read(status)
      PROVE  AnswerInv'
  <2>1. UNCHANGED <<backend, result>> /\ result.kind # "ok"
    BY <1>4 DEF Read, AnswerInv
  <2>2. ASSUME NEW generation \in Generations,
               reply' = generation,
               answer' = [status |-> 200, json |-> AnswerTo(generation)]
        PROVE  AnswerInv'
    <3>1. AnswerTo(reply)' = AnswerTo(generation)
      BY <2>1, <2>2 DEF AnswerTo
    <3>2. answer'.json = AnswerTo(generation)
      BY <2>2
    <3>3. QED
      BY <2>1, <2>2, <3>1, <3>2 DEF AnswerInv, FromGeneration
  <2>3. ASSUME NEW json \in {Garbled, NoChoices},
               answer' = [status |-> status, json |-> json]
        PROVE  AnswerInv'
    <3>1. Undecodable(answer.json)'
      BY <2>3 DEF Undecodable
    <3>2. QED
      BY <2>1, <3>1 DEF AnswerInv
  <2>4. QED
    BY <1>4, <2>2, <2>3 DEF Read
<1>5. CASE Decode
  <2>1. CASE answer.status # 200
    BY <1>1, <1>5, <2>1 DEF Decode, HTTPError
  <2>2. CASE answer.status = 200 /\ Undecodable(answer.json)
    BY <1>1, <1>5, <2>2 DEF Decode, PlainError
  <2>3. CASE answer.status = 200 /\ ~Undecodable(answer.json)
    <3>1. /\ pc' = "done" /\ result' = Response(answer.json)
          /\ reply' = reply
      BY <1>5, <2>3 DEF Decode, Return
    <3>2. reply \in Generations /\ answer.json = AnswerTo(reply)
      BY <1>5, <2>3 DEF Decode, AnswerInv, FromGeneration
    <3>3. SaysWhat(result', reply)
      BY <3>1, <3>2, ResponseSays
    <3>4. SaysWhat(result, reply)'
      BY <3>1, <3>3 DEF SaysWhat, TextOf
    <3>5. QED
      BY <3>1, <3>2, <3>4 DEF AnswerInv
  <2>4. QED
    BY <2>1, <2>2, <2>3
<1>6. CASE Build \/ Respond \/ EndContext \/ Done \/ UNCHANGED vars
  <2>1. /\ UNCHANGED <<backend, reply, result, answer>>
        /\ pc' = "decode" => pc = "decode"
        /\ pc = "done" => pc' = "done"
    BY <1>6 DEF Build, Respond, EndContext, Done, vars
  <2>2. AnswerTo(reply)' = AnswerTo(reply)
    BY <2>1 DEF AnswerTo
  <2>3. SaysWhat(result, reply)' <=> SaysWhat(result, reply)
    BY <2>1
  <2>4. QED
    BY <2>1, <2>2, <2>3 DEF AnswerInv, FromGeneration
<1>7. QED
  BY <1>2, <1>3, <1>4, <1>5, <1>6 DEF Next

(***************************************************************************)
(* Whatever a backend generates, and in whichever of the two forms it      *)
(* answers, the response has all of its text and nothing else, why it      *)
(* ended and the tokens of either side, the same for all backends.         *)
(***************************************************************************)
THEOREM AnswersMeanTheSameHolds == Spec => []AnswersMeanTheSame
<1>1. Init => AnswerInv
  BY DEF Init, NotYet, AnswerInv
<1>2. AnswerInv => AnswersMeanTheSame
  <2> SUFFICES ASSUME AnswerInv, result.kind = "ok"
               PROVE  /\ result.content = TextOf(reply)
                      /\ result.finish = Normalized[reply.ending]
                      /\ result.usage = reply.usage
    BY DEF AnswersMeanTheSame
  <2>1. reply \in Generations /\ SaysWhat(result, reply)
    BY DEF AnswerInv
  <2>2. reply.usage \in [input : Nat, output : Nat]
    BY <2>1, AdaptersAssumption
  <2>3. QED
    BY <2>1, <2>2 DEF SaysWhat
<1>3. QED
  BY <1>1, <1>2, AnswerStep, PTL DEF Spec
-----------------------------------------------------------------------------
(***************************************************************************)
(* Requests.                                                               *)
(***************************************************************************)
LEMMA SaidFacts ==
    /\ Said(<<>>) = <<>>
    /\ \A text \in Seq(STRING) : Said(text) \in Seq(STRING)
    /\ \A c \in STRING : Said(<<c>>) = IF c = "" THEN <<>> ELSE <<c>>
<1>1. Said(<<>>) = <<>>
  <2>1. Picked(SaidOf, <<>>) = <<>>
    BY PickerTypes, PickedFacts
  <2>2. QED
    BY <2>1, NoneOrOne, PickedBy
<1>2. ASSUME NEW text \in Seq(STRING) PROVE Said(text) \in Seq(STRING)
  <2>1. Picked(SaidOf, text) \in Seq(STRING)
    BY PickerTypes, PickedFacts
  <2>2. QED
    BY <2>1, PickedBy
<1>3. ASSUME NEW c \in STRING PROVE Said(<<c>>) = IF c = "" THEN <<>> ELSE <<c>>
  <2>1. Picked(SaidOf, <<c>>) = SaidOf[c]
    BY PickerTypes, PickedFacts
  <2>2. Said(<<c>>) = Picked(SaidOf, <<c>>)
    BY NoneOrOne, PickedBy, Zenon
  <2>3. QED
    BY <2>1, <2>2 DEF SaidOf
<1>4. QED
  BY <1>1, <1>2, <1>3

LEMMA SaidConcat ==
    ASSUME NEW s \in Seq(STRING), NEW t \in Seq(STRING)
    PROVE  Said(s \o t) = Said(s) \o Said(t)
<1>1. s \o t \in Seq(STRING)
  BY ConcatProperties
<1>2. Picked(SaidOf, s \o t) = Picked(SaidOf, s) \o Picked(SaidOf, t)
  BY PickerTypes, PickedConcat
<1>3. QED
  BY <1>1, <1>2, PickedBy

LEMMA MessageFacts ==
    /\ Inline(<<>>) = <<>> /\ Conversation(<<>>) = <<>>
    /\ \A ms \in Seq(Message) :
         Inline(ms) \in Seq(STRING) /\ Conversation(ms) \in Seq(Message)
    /\ \A m \in Message :
         /\ Inline(<<m>>) = IF IsSystem(m) THEN <<m.content>> ELSE <<>>
         /\ Conversation(<<m>>) = IF IsSystem(m) THEN <<>> ELSE <<m>>
<1>1. Inline(<<>>) = <<>> /\ Conversation(<<>>) = <<>>
  <2>1. Picked(InlineOf, <<>>) = <<>> /\ Picked(TurnOf, <<>>) = <<>>
    BY PickerTypes, PickedFacts
  <2>2. QED
    BY <2>1, NoneOrOne, PickedBy
<1>2. ASSUME NEW ms \in Seq(Message)
      PROVE  Inline(ms) \in Seq(STRING) /\ Conversation(ms) \in Seq(Message)
  <2>1. Picked(InlineOf, ms) \in Seq(STRING) /\ Picked(TurnOf, ms) \in Seq(Message)
    BY PickerTypes, PickedFacts
  <2>2. QED
    BY <2>1, PickedBy
<1>3. ASSUME NEW m \in Message
      PROVE  /\ Inline(<<m>>) = IF IsSystem(m) THEN <<m.content>> ELSE <<>>
             /\ Conversation(<<m>>) = IF IsSystem(m) THEN <<>> ELSE <<m>>
  <2>1. Picked(InlineOf, <<m>>) = InlineOf[m] /\ Picked(TurnOf, <<m>>) = TurnOf[m]
    BY PickerTypes, PickedFacts
  <2>2. /\ Inline(<<m>>) = Picked(InlineOf, <<m>>)
        /\ Conversation(<<m>>) = Picked(TurnOf, <<m>>)
    BY NoneOrOne, PickedBy, Zenon
  <2>3. QED
    BY <2>1, <2>2 DEF InlineOf, TurnOf
<1>4. QED
  BY <1>1, <1>2, <1>3

LEMMA MessagesConcat ==
    ASSUME NEW s \in Seq(Message), NEW t \in Seq(Message)
    PROVE  /\ Inline(s \o t) = Inline(s) \o Inline(t)
           /\ Conversation(s \o t) = Conversation(s) \o Conversation(t)
<1>1. s \o t \in Seq(Message)
  BY ConcatProperties
<1>2. /\ Picked(InlineOf, s \o t) = Picked(InlineOf, s) \o Picked(InlineOf, t)
      /\ Picked(TurnOf, s \o t) = Picked(TurnOf, s) \o Picked(TurnOf, t)
  BY PickerTypes, PickedConcat
<1>3. QED
  BY <1>1, <1>2, PickedBy

\* The conversation has no system messages, and is its own conversation.
LEMMA ConversationIsPlain ==
    ASSUME NEW messages \in Seq(Message)
    PROVE  /\ Inline(Conversation(messages)) = <<>>
           /\ Conversation(Conversation(messages)) = Conversation(messages)
<1> DEFINE T == {ms \in Seq(Message) :
                    /\ Inline(Conversation(ms)) = <<>>
                    /\ Conversation(Conversation(ms)) = Conversation(ms)}
<1>1. <<>> \in T
  BY MessageFacts, EmptySeq
<1>2. ASSUME NEW ms \in T, NEW m \in Message
      PROVE  Append(ms, m) \in T
  <2> DEFINE C == Conversation(ms)
             c == Conversation(<<m>>)
  <2>1. ms \in Seq(Message) /\ <<m>> \in Seq(Message)
    BY NoneOrOne, Zenon
  <2>2. Append(ms, m) = ms \o <<m>> /\ Append(ms, m) \in Seq(Message)
    BY <2>1, AppendIsConcat, AppendProperties
  <2>3. Conversation(Append(ms, m)) = C \o c
    BY <2>1, <2>2, MessagesConcat
  <2>4. C \in Seq(Message) /\ c \in Seq(Message)
    BY <2>1, MessageFacts
  <2>5. Inline(C) = <<>> /\ Conversation(C) = C
    OBVIOUS
  <2>6. Inline(c) = <<>> /\ Conversation(c) = c
    BY MessageFacts
  <2> HIDE DEF C, c
  <2>7. Inline(C \o c) = <<>> \o <<>> /\ Conversation(C \o c) = C \o c
    <3>1. /\ Inline(C \o c) = Inline(C) \o Inline(c)
          /\ Conversation(C \o c) = Conversation(C) \o Conversation(c)
      BY <2>4, MessagesConcat
    <3>2. QED
      BY <2>5, <2>6, <3>1
  <2>8. <<>> \o <<>> = <<>>
    OBVIOUS
  <2>9. QED
    BY <2>2, <2>3, <2>7, <2>8
<1>3. T = Seq(Message)
  <2> HIDE DEF T
  <2>1. T \in SUBSET Seq(Message)
    BY DEF T
  <2>2. QED
    BY <1>1, <1>2, <2>1, SeqIsInductive
<1>4. QED
  BY <1>3

\* What is joined to a system prompt is said after it.
LEMMA JoinSays ==
    ASSUME NEW existing \in Seq(STRING), NEW m \in Message
    PROVE  /\ JoinSystem(existing, m) \in Seq(STRING)
           /\ Said(JoinSystem(existing, m)) = Said(existing) \o Said(<<m.content>>)
<1>1. m.content \in STRING
  BY DEF Message
<1> DEFINE c == m.content
<1>2. <<c>> \in Seq(STRING) /\ <<>> \in Seq(STRING)
  BY <1>1, NoneOrOne, Zenon
<1>3. Said(<<c>>) = (IF c = "" THEN <<>> ELSE <<c>>) /\ Said(<<c>>) \in Seq(STRING)
  BY <1>1, <1>2, SaidFacts
<1>4. CASE existing = <<>>
  <2>1. Said(existing) \o Said(<<c>>) = Said(<<c>>)
    BY <1>3, <1>4, SaidFacts, ConcatEmptySeq
  <2>2. JoinSystem(existing, m) = IF c = "" THEN <<>> ELSE <<c>>
    BY <1>4 DEF JoinSystem
  <2>3. Said(JoinSystem(existing, m)) = Said(<<c>>)
    BY <1>3, <2>2, SaidFacts
  <2>4. QED
    BY <1>2, <2>1, <2>2, <2>3
<1>5. CASE existing # <<>>
  <2>1. JoinSystem(existing, m) = existing \o <<c>>
    BY <1>1, <1>5, AppendIsConcat DEF JoinSystem
  <2>2. existing \o <<c>> \in Seq(STRING)
    BY <1>2, ConcatProperties
  <2>3. QED
    BY <1>2, <2>1, <2>2, SaidConcat
<1>6. QED
  BY <1>4, <1>5

(***************************************************************************)
(* The loop over the messages: what it has made of the system prompt and   *)
(* of the conversation after each message.                                 *)
(***************************************************************************)
Body == [system : Seq(STRING), messages : Seq(Message)]

TurnsTo(b, m) ==
    IF IsSystem(m)
    THEN [system |-> JoinSystem(b.system, m), messages |-> b.messages]
    ELSE [system |-> b.system, messages |-> Append(b.messages, m)]

Folding(messages) == [n \in 1 .. Len(messages) |-> [b \in Body |-> TurnsTo(b, messages[n])]]

LEMMA TurnsToBody ==
    ASSUME NEW b \in Body, NEW m \in Message
    PROVE  /\ TurnsTo(b, m) \in Body
           /\ TurnsTo(b, m).messages = b.messages \o Conversation(<<m>>)
           /\ Said(TurnsTo(b, m).system) = Said(b.system) \o Said(Inline(<<m>>))
<1>1. b.system \in Seq(STRING) /\ b.messages \in Seq(Message)
  BY DEF Body
<1>2. CASE IsSystem(m)
  <2>1. TurnsTo(b, m) = [system |-> JoinSystem(b.system, m), messages |-> b.messages]
    BY <1>2 DEF TurnsTo
  <2>2. Inline(<<m>>) = <<m.content>> /\ Conversation(<<m>>) = <<>>
    BY <1>2, MessageFacts
  <2>3. b.messages \o <<>> = b.messages
    BY <1>1, ConcatEmptySeq
  <2>4. /\ JoinSystem(b.system, m) \in Seq(STRING)
        /\ Said(JoinSystem(b.system, m)) = Said(b.system) \o Said(<<m.content>>)
    BY <1>1, JoinSays
  <2>5. TurnsTo(b, m) \in Body
    BY <1>1, <2>1, <2>4 DEF Body
  <2>6. TurnsTo(b, m).messages = b.messages \o Conversation(<<m>>)
    <3>1. TurnsTo(b, m).messages = b.messages
      BY <2>1
    <3>2. QED
      BY <2>2, <2>3, <3>1, Zenon
  <2>7. Said(TurnsTo(b, m).system) = Said(b.system) \o Said(Inline(<<m>>))
    <3>1. TurnsTo(b, m).system = JoinSystem(b.system, m)
      BY <2>1
    <3>2. QED
      BY <2>2, <2>4, <3>1, Zenon
  <2>8. QED
    BY <2>5, <2>6, <2>7
<1>3. CASE ~IsSystem(m)
  <2>1. TurnsTo(b, m) = [system |-> b.system, messages |-> Append(b.messages, m)]
    BY <1>3 DEF TurnsTo
  <2>2. Inline(<<m>>) = <<>> /\ Conversation(<<m>>) = <<m>>
    BY <1>3, MessageFacts
  <2>3. /\ Append(b.messages, m) = b.messages \o <<m>>
        /\ Append(b.messages, m) \in Seq(Message)
    BY <1>1, AppendIsConcat, AppendProperties
  <2>4. Said(b.system) \o Said(<<>>) = Said(b.system)
    BY <1>1, SaidFacts, ConcatEmptySeq
  <2>5. TurnsTo(b, m) \in Body
    BY <1>1, <2>1, <2>3 DEF Body
  <2>6. TurnsTo(b, m).messages = b.messages \o Conversation(<<m>>)
    <3>1. TurnsTo(b, m).messages = Append(b.messages, m)
      BY <2>1
    <3>2. QED
      BY <2>2, <2>3, <3>1, Zenon
  <2>7. Said(TurnsTo(b, m).system) = Said(b.system) \o Said(Inline(<<m>>))
    <3>1. TurnsTo(b, m).system = b.system
      BY <2>1
    <3>2. QED
      BY <2>2, <2>4, <3>1, Zenon
  <2>8. QED
    BY <2>5, <2>6, <2>7
<1>4. QED
  BY <1>2, <1>3

\* The recursion of Folded is a walk.
LEMMA FoldedIsWalk ==
    ASSUME NEW system \in Seq(STRING), NEW messages \in Seq(Message)
    PROVE  \E walk :
             /\ IsWalk(Body, [system |-> system, messages |-> <<>>],
                       Folding(messages), Len(messages), walk)
             /\ Folded(system, messages) = walk[Len(messages)]
<1> DEFINE N     == Len(messages)
           start == [system |-> system, messages |-> <<>>]
           Def(f) == f = [n \in 0 .. N |->
                IF n = 0 THEN start
                ELSE IF IsSystem(messages[n])
                THEN [system   |-> JoinSystem(f[n - 1].system, messages[n]),
                      messages |-> f[n - 1].messages]
                ELSE [system   |-> f[n - 1].system,
                      messages |-> Append(f[n - 1].messages, messages[n])]]
           after == CHOOSE f : Def(f)
<1>1. /\ N \in Nat
      /\ \A n \in 1 .. N : messages[n] \in Message
  BY LenProperties, ElementOfSeq
<1>2. start \in Body
  BY EmptySeq DEF Body
<1>3. Folding(messages) \in [1 .. N -> [Body -> Body]]
  <2> DEFINE row(n) == [b \in Body |-> TurnsTo(b, messages[n])]
  <2>1. ASSUME NEW n \in 1 .. N PROVE row(n) \in [Body -> Body]
    BY <1>1, TurnsToBody
  <2>2. Folding(messages) = [n \in 1 .. N |-> row(n)]
    BY DEF Folding
  <2> HIDE DEF row
  <2>3. QED
    BY <2>1, <2>2
<1>4. Folded(system, messages) = after[N]
  BY DEF Folded
<1> HIDE DEF N, start
<1>5. PICK walk : IsWalk(Body, start, Folding(messages), N, walk)
  BY <1>1, <1>2, <1>3, WalkExists
<1>6. \A f : Def(f) <=>
        f = [n \in 0 .. N |-> IF n = 0 THEN start ELSE TurnsTo(f[n - 1], messages[n])]
  BY DEF TurnsTo
<1>7. Def(walk)
  <2>1. /\ walk \in [0 .. N -> Body] /\ walk[0] = start
        /\ \A n \in 1 .. N : walk[n] = Folding(messages)[n][walk[n - 1]]
    BY <1>5 DEF IsWalk
  <2>2. ASSUME NEW n \in 1 .. N
        PROVE  walk[n] = TurnsTo(walk[n - 1], messages[n])
    <3>1. walk[n - 1] \in Body
      <4>1. n - 1 \in 0 .. N
        BY <1>1
      <4>2. QED
        BY <2>1, <4>1
    <3>2. QED
      BY <2>1, <3>1 DEF Folding, N
  <2>3. walk = [n \in 0 .. N |-> walk[n]]
    BY <2>1
  <2>4. ASSUME NEW n \in 0 .. N
        PROVE  walk[n] = IF n = 0 THEN start ELSE TurnsTo(walk[n - 1], messages[n])
    <3>1. CASE n = 0
      BY <2>1, <3>1
    <3>2. CASE n # 0
      <4>1. n \in 1 .. N
        BY <1>1, <3>2
      <4>2. QED
        BY <2>2, <3>2, <4>1
    <3>3. QED
      BY <3>1, <3>2
  <2> HIDE DEF Def
  <2>5. QED
    BY <1>6, <2>3, <2>4, Zenon
<1>8. Def(after)
  BY <1>7
<1> HIDE DEF after, Def
<1>9. after = [n \in 0 .. N |-> IF n = 0 THEN start ELSE TurnsTo(after[n - 1], messages[n])]
  BY <1>6, <1>8
<1>10. StepsAlike(Body, start, Folding(messages), N, after)
  <2>1. after[0] = start
    BY <1>1, <1>9
  <2>2. ASSUME NEW n \in 1 .. N, after[n - 1] \in Body
        PROVE  after[n] = Folding(messages)[n][after[n - 1]]
    <3>1. after[n] = TurnsTo(after[n - 1], messages[n])
      <4>1. n \in 0 .. N /\ n # 0
        BY <1>1
      <4>2. QED
        BY <1>9, <4>1
    <3>2. QED
      BY <2>2, <3>1 DEF Folding, N
  <2>3. QED
    BY <2>1, <2>2 DEF StepsAlike
<1>11. after[N] = walk[N]
  <2>1. N <= N
    BY <1>1
  <2>2. QED
    BY <1>1, <1>5, <1>10, <2>1, WalkIsOne
<1>12. QED
  BY <1>4, <1>5, <1>11 DEF N, start

LEMMA FoldingFacts ==
    ASSUME NEW system, NEW messages \in Seq(Message), NEW walk,
           IsWalk(Body, [system |-> system, messages |-> <<>>],
                  Folding(messages), Len(messages), walk)
    PROVE  /\ walk[0] = [system |-> system, messages |-> <<>>]
           /\ walk[Len(messages)] \in Body
           /\ \A n \in 1 .. Len(messages) :
                walk[n - 1] \in Body /\ walk[n] = TurnsTo(walk[n - 1], messages[n])
<1> DEFINE N == Len(messages)
<1>1. N \in Nat /\ N \in 0 .. N
  BY LenProperties
<1>2. /\ walk[0] = [system |-> system, messages |-> <<>>]
      /\ walk \in [0 .. N -> Body]
      /\ \A n \in 1 .. N : walk[n] = Folding(messages)[n][walk[n - 1]]
  BY DEF IsWalk
<1>3. ASSUME NEW n \in 1 .. N
      PROVE  walk[n - 1] \in Body /\ walk[n] = TurnsTo(walk[n - 1], messages[n])
  <2>1. walk[n - 1] \in Body
    <3>1. n - 1 \in 0 .. N
      BY <1>1
    <3>2. QED
      BY <1>2, <3>1
  <2>2. QED
    BY <1>2, <2>1 DEF Folding
<1> HIDE DEF N
<1>4. walk[N] \in Body
  BY <1>1, <1>2
<1>5. QED
  BY <1>2, <1>3, <1>4 DEF N

LEMMA FoldedAppend ==
    ASSUME NEW system \in Seq(STRING), NEW messages \in Seq(Message), NEW m \in Message
    PROVE  /\ Folded(system, messages) \in Body
           /\ Folded(system, Append(messages, m)) = TurnsTo(Folded(system, messages), m)
<1> DEFINE start  == [system |-> system, messages |-> <<>>]
           longer == Append(messages, m)
           N      == Len(messages)
<1>1. /\ N \in Nat /\ longer \in Seq(Message) /\ Len(longer) = N + 1
      /\ \A k \in 1 .. N : longer[k] = messages[k]
      /\ longer[N + 1] = m
  BY LenProperties, AppendProperties
<1> HIDE DEF longer
<1>2. PICK short : /\ IsWalk(Body, start, Folding(messages), N, short)
                   /\ Folded(system, messages) = short[N]
  BY FoldedIsWalk
<1>3. PICK long : /\ IsWalk(Body, start, Folding(longer), Len(longer), long)
                  /\ Folded(system, longer) = long[Len(longer)]
  BY <1>1, FoldedIsWalk
<1>4. short[N] \in Body
  BY <1>2, FoldingFacts
<1>5. /\ long[0] = start
      /\ \A k \in 1 .. Len(longer) :
            long[k - 1] \in Body /\ long[k] = TurnsTo(long[k - 1], longer[k])
  BY <1>1, <1>3, FoldingFacts
<1> HIDE DEF start
<1>6. StepsAlike(Body, start, Folding(messages), N, long)
  <2>1. \A k \in 1 .. N : k \in 1 .. Len(longer) /\ longer[k] = messages[k]
    BY <1>1
  <2>2. QED
    BY <1>5, <2>1 DEF Folding, StepsAlike
<1>7. long[N] = short[N]
  <2>1. N <= N
    BY <1>1
  <2>2. QED
    BY <1>1, <1>2, <1>6, <2>1, WalkIsOne
<1>8. long[N + 1] = TurnsTo(long[N], m)
  <2>1. N + 1 \in 1 .. Len(longer) /\ (N + 1) - 1 = N
    BY <1>1
  <2>2. QED
    BY <1>1, <1>5, <2>1
<1>9. QED
  BY <1>1, <1>2, <1>3, <1>4, <1>7, <1>8 DEF longer

\* After the loop the body has the conversation of the request, and its system
\* prompt says what the request's and its system messages do.
LEMMA FoldedFacts ==
    ASSUME NEW system \in Seq(STRING), NEW messages \in Seq(Message)
    PROVE  LET folded == Folded(system, messages)
           IN  /\ folded \in Body
               /\ folded.messages = Conversation(messages)
               /\ Said(folded.system) = Said(system) \o Said(Inline(messages))
<1> DEFINE T == {ms \in Seq(Message) :
                    LET folded == Folded(system, ms)
                    IN  /\ folded \in Body
                        /\ folded.messages = Conversation(ms)
                        /\ Said(folded.system) = Said(system) \o Said(Inline(ms))}
<1>1. <<>> \in T
  <2> DEFINE start == [system |-> system, messages |-> <<>>]
  <2>1. <<>> \in Seq(Message) /\ Len(<<>>) = 0
    BY EmptySeq
  <2>2. PICK walk : /\ IsWalk(Body, start, Folding(<<>>), Len(<<>>), walk)
                    /\ Folded(system, <<>>) = walk[Len(<<>>)]
    BY <2>1, FoldedIsWalk
  <2>3. Folded(system, <<>>) = start
    BY <2>1, <2>2 DEF IsWalk
  <2>4. start \in Body
    BY <2>1 DEF Body
  <2>5. Said(system) \o Said(Inline(<<>>)) = Said(system)
    BY MessageFacts, SaidFacts, ConcatEmptySeq
  <2>6. QED
    BY <2>1, <2>3, <2>4, <2>5, MessageFacts
<1>2. ASSUME NEW ms \in T, NEW m \in Message
      PROVE  Append(ms, m) \in T
  <2> DEFINE b      == Folded(system, ms)
             longer == Append(ms, m)
  <2>1. /\ ms \in Seq(Message) /\ b \in Body
        /\ b.messages = Conversation(ms)
        /\ Said(b.system) = Said(system) \o Said(Inline(ms))
    OBVIOUS
  <2>2. <<m>> \in Seq(Message) /\ longer = ms \o <<m>> /\ longer \in Seq(Message)
    BY <2>1, NoneOrOne, AppendIsConcat, AppendProperties
  <2>3. Folded(system, longer) = TurnsTo(b, m)
    BY <2>1, FoldedAppend
  <2> HIDE DEF b, longer
  <2>4. /\ TurnsTo(b, m) \in Body
        /\ TurnsTo(b, m).messages = b.messages \o Conversation(<<m>>)
        /\ Said(TurnsTo(b, m).system) = Said(b.system) \o Said(Inline(<<m>>))
    BY <2>1, TurnsToBody
  <2>5. TurnsTo(b, m).messages = Conversation(longer)
    BY <2>1, <2>2, <2>4, MessagesConcat
  <2>6. Said(TurnsTo(b, m).system) = Said(system) \o Said(Inline(longer))
    <3>1. /\ Inline(ms) \in Seq(STRING) /\ Inline(<<m>>) \in Seq(STRING)
          /\ Inline(longer) = Inline(ms) \o Inline(<<m>>)
      BY <2>1, <2>2, MessageFacts, MessagesConcat
    <3>2. Said(Inline(longer)) = Said(Inline(ms)) \o Said(Inline(<<m>>))
      BY <3>1, SaidConcat
    <3>3. /\ Said(system) \in Seq(STRING)
          /\ Said(Inline(ms)) \in Seq(STRING) /\ Said(Inline(<<m>>)) \in Seq(STRING)
      BY <3>1, SaidFacts
    <3>4. (Said(system) \o Said(Inline(ms))) \o Said(Inline(<<m>>))
            = Said(system) \o (Said(Inline(ms)) \o Said(Inline(<<m>>)))
      BY <3>3, ConcatAssociative
    <3>5. QED
      BY <2>1, <2>4, <3>2, <3>4
  <2>7. QED
    BY <2>2, <2>3, <2>4, <2>5, <2>6 DEF longer
<1>3. T = Seq(Message)
  <2> HIDE DEF T
  <2>1. T \in SUBSET Seq(Message)
    BY DEF T
  <2>2. QED
    BY <1>1, <1>2, <2>1, SeqIsInductive
<1>4. QED
  BY <1>3

\* A request asks for what its system prompt and then its system messages say.
LEMMA SystemSays ==
    ASSUME NEW system \in Seq(STRING), NEW messages \in Seq(Message)
    PROVE  /\ SystemOf(system, messages) = Said(system) \o Said(Inline(messages))
           /\ Said(system) \in Seq(STRING)
           /\ Said(Inline(messages)) \in Seq(STRING)
<1>1. Inline(messages) \in Seq(STRING)
  BY MessageFacts
<1>2. QED
  BY <1>1, SaidConcat, SaidFacts DEF SystemOf

\* What the Messages API is asked.
LEMMA MessagesAsk ==
    ASSUME NEW req \in Requests
    PROVE  LET asked == MessagesBody(req)
           IN  /\ SystemOf(asked.system, asked.messages) = SystemOf(req.system, req.messages)
               /\ Conversation(asked.messages) = Conversation(req.messages)
               /\ Inline(asked.messages) = <<>>
<1> DEFINE folded == Folded(req.system, req.messages)
           asked  == MessagesBody(req)
<1>1. req.system \in Seq(STRING) /\ req.messages \in Seq(Message)
  BY AdaptersAssumption, MessagesOfRequests
<1>2. /\ folded \in Body
      /\ folded.messages = Conversation(req.messages)
      /\ Said(folded.system) = Said(req.system) \o Said(Inline(req.messages))
  BY <1>1, FoldedFacts
<1>3. asked.system = folded.system /\ asked.messages = folded.messages
  BY DEF MessagesBody
<1> HIDE DEF folded, asked
<1>4. folded.system \in Seq(STRING) /\ folded.messages \in Seq(Message)
  BY <1>2 DEF Body
<1>5. /\ Inline(folded.messages) = <<>>
      /\ Conversation(folded.messages) = Conversation(req.messages)
  BY <1>1, <1>2, ConversationIsPlain
<1>6. SystemOf(folded.system, folded.messages) = Said(folded.system) \o Said(<<>>)
  BY <1>4, <1>5, SystemSays
<1>7. Said(folded.system) \o Said(<<>>) = Said(folded.system)
  BY <1>4, SaidFacts, ConcatEmptySeq
<1>8. SystemOf(req.system, req.messages) = Said(req.system) \o Said(Inline(req.messages))
  BY <1>1, SystemSays
<1>9. QED
  BY <1>2, <1>3, <1>5, <1>6, <1>7, <1>8 DEF asked

\* What the Chat Completions API is asked.
LEMMA CompletionsAsk ==
    ASSUME NEW req \in Requests
    PROVE  LET asked == CompletionsBody(req)
           IN  /\ SystemOf(asked.system, asked.messages) = SystemOf(req.system, req.messages)
               /\ Conversation(asked.messages) = Conversation(req.messages)
<1> DEFINE asked  == CompletionsBody(req)
           prompt == IF req.system = <<>> THEN <<>>
                     ELSE <<[role |-> "system", content |-> req.system[1]]>>
<1>1. /\ req.system \in Seq(STRING) /\ Len(req.system) <= 1
      /\ req.messages \in Seq(Message)
  BY AdaptersAssumption, MessagesOfRequests
<1>2. asked.system = <<>> /\ asked.messages = prompt \o req.messages
  BY DEF CompletionsBody
<1>3. /\ prompt \in Seq(Message)
      /\ Inline(prompt) = req.system
      /\ Conversation(prompt) = <<>>
  <2>1. CASE req.system = <<>>
    BY <2>1, MessageFacts, EmptySeq
  <2>2. CASE req.system # <<>>
    <3> DEFINE m == [role |-> "system", content |-> req.system[1]]
    <3>1. Len(req.system) = 1
      <4>1. Len(req.system) \in Nat \ {0}
        BY <1>1, <2>2, EmptySeq
      <4>2. \A k \in Nat \ {0} : k <= 1 => k = 1
        OBVIOUS
      <4>3. QED
        BY <1>1, <4>1, <4>2, Zenon
    <3>2. req.system[1] \in STRING
      BY <1>1, <3>1, ElementOfSeq
    <3>3. req.system = <<req.system[1]>>
      <4>1. req.system \in [1 .. 1 -> STRING]
        BY <1>1, <3>1, LenProperties
      <4>2. QED
        BY <4>1
    <3>4. m \in Message /\ IsSystem(m) /\ m.content = req.system[1]
      <4>1. m \in Message
        BY <3>2 DEF Message
      <4>2. m.role = "system" /\ m.content = req.system[1]
        OBVIOUS
      <4>3. QED
        BY <4>1, <4>2 DEF IsSystem
    <3>5. prompt = <<m>>
      BY <2>2
    <3> HIDE DEF m, prompt
    <3>6. <<m>> \in Seq(Message) /\ Inline(<<m>>) = <<m.content>> /\ Conversation(<<m>>) = <<>>
      BY <3>4, MessageFacts, NoneOrOne, Zenon
    <3>7. QED
      BY <3>3, <3>4, <3>5, <3>6, Zenon
  <2>3. QED
    BY <2>1, <2>2
<1> HIDE DEF prompt, asked
<1>4. /\ Inline(asked.messages) = req.system \o Inline(req.messages)
      /\ Conversation(asked.messages) = <<>> \o Conversation(req.messages)
  <2>1. /\ Inline(prompt \o req.messages) = Inline(prompt) \o Inline(req.messages)
        /\ Conversation(prompt \o req.messages)
             = Conversation(prompt) \o Conversation(req.messages)
    BY <1>1, <1>3, MessagesConcat
  <2>2. QED
    BY <1>2, <1>3, <2>1, Zenon
<1>5. /\ Inline(req.messages) \in Seq(STRING)
      /\ Conversation(req.messages) \in Seq(Message)
  BY <1>1, MessageFacts
<1>6. <<>> \o Conversation(req.messages) = Conversation(req.messages)
  BY <1>5, ConcatEmptySeq
<1>7. <<>> \o (req.system \o Inline(req.messages)) = req.system \o Inline(req.messages)
  <2>1. req.system \o Inline(req.messages) \in Seq(STRING)
    BY <1>1, <1>5, ConcatProperties
  <2>2. QED
    BY <2>1, ConcatEmptySeq
<1>8. SystemOf(asked.system, asked.messages) = SystemOf(req.system, req.messages)
  BY <1>2, <1>4, <1>7, Zenon DEF SystemOf
<1>9. QED
  BY <1>4, <1>6, <1>8 DEF asked

(***************************************************************************)
(* SameConversation speaks of what a body says; the invariant says which   *)
(* it is: the one that was built from the request.                         *)
(***************************************************************************)
BodyInv ==
    /\ request \in Requests
    /\ pc \in {"send", "read"} =>
         body = IF backend \in Messages THEN MessagesBody(request) ELSE CompletionsBody(request)

LEMMA BodyStep ==
    ASSUME BodyInv, [Next]_vars
    PROVE  BodyInv'
<1>1. UNCHANGED <<backend, request>>
  BY DEF Next, Refuse, Build, TransportFails, Respond, Read, Decode, EndContext, Done,
         vars
<1>2. /\ MessagesBody(request)' = MessagesBody(request)
      /\ CompletionsBody(request)' = CompletionsBody(request)
  BY <1>1 DEF MessagesBody, CompletionsBody
<1>3. CASE Build
  BY <1>1, <1>2, <1>3 DEF Build, BodyInv
<1>4. CASE Respond \/ EndContext \/ Done \/ UNCHANGED vars
  <2>1. UNCHANGED body /\ (pc' \in {"send", "read"} => pc \in {"send", "read"})
    BY <1>4 DEF Respond, EndContext, Done, vars
  <2>2. QED
    BY <1>1, <1>2, <2>1 DEF BodyInv
<1>5. CASE \/ Refuse \/ TransportFails \/ Decode
           \/ \E status \in Statuses : Read(status)
  <2>1. pc' \in {"decode", "done"}
    BY <1>5 DEF Refuse, TransportFails, Read, Decode, Return
  <2>2. QED
    BY <1>1, <2>1 DEF BodyInv
<1>6. QED
  BY <1>3, <1>4, <1>5 DEF Next

(***************************************************************************)
(* All backends are asked the same, for requests of any length, wherever   *)
(* their system messages stand.                                            *)
(***************************************************************************)
THEOREM SameConversationHolds == Spec => []SameConversation
<1>1. Init => BodyInv
  BY DEF Init, BodyInv
<1>2. BodyInv => SameConversation
  BY MessagesAsk, CompletionsAsk DEF BodyInv, SameConversation
<1>3. QED
  BY <1>1, <1>2, BodyStep, PTL DEF Spec
=============================================================================
