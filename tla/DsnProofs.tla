----------------------------- MODULE DsnProofs ------------------------------
(***************************************************************************)
(* Proofs about Dsn, for any limit on the hosts, any even width of an      *)
(* integer and any selection of parameters.                                *)
(***************************************************************************)
EXTENDS Dsn, Counting, SequenceTheorems

-----------------------------------------------------------------------------
(* Arithmetic. *)

LEMMA Width ==
    LET H == N32 \div 2
    IN  H \in Nat /\ H >= 2 /\ N32 = H + H /\ N32 \in Nat
BY DsnAssumption

\* What int32() makes of the values of the parameters.
LEMMA Sizes ==
    LET H == N32 \div 2 IN
    /\ Int32(2) \in Int /\ Int32(N32 + 2) \in Int
    /\ Int32(0) = 0 /\ Int32(-1) = -1 /\ Int32(N32) = 0
    /\ H = 2 => Int32(2) < 0 /\ Int32(N32 + 2) < 0
    /\ H > 2 => Int32(2) = 2 /\ Int32(N32 + 2) = 2
<1> DEFINE H == N32 \div 2
<1>1. H \in Nat /\ H >= 2 /\ N32 = H + H /\ N32 \in Nat
  BY Width
<1> HIDE DEF H
<1>2. \A n : Int32(n) = ((n + H) % N32) - H
  BY DEF Int32, H
<1>3. (0 + H) % N32 = H /\ (-1 + H) % N32 = H - 1 /\ (N32 + H) % N32 = H
  BY <1>1, Modulo, SMTT(30)
<1>4. ASSUME H = 2 PROVE (2 + H) % N32 = 0 /\ (N32 + 2 + H) % N32 = 0
  BY <1>1, <1>4, SMTT(30)
<1>5. ASSUME H > 2 PROVE (2 + H) % N32 = 2 + H /\ (N32 + 2 + H) % N32 = 2 + H
  <2>1. 2 + H \in Nat /\ 2 + H < N32 /\ N32 + 2 + H = (2 + H) + N32
    BY <1>1, <1>5
  <2> QED
    BY <2>1, <1>1, Modulo, Zenon
<1>6. H = 2 \/ H > 2
  BY <1>1
<1>7. /\ Int32(0) = 0 /\ Int32(-1) = -1 /\ Int32(N32) = 0
      /\ H = 2 => Int32(2) = -2 /\ Int32(N32 + 2) = -2
      /\ H > 2 => Int32(2) = 2 /\ Int32(N32 + 2) = 2
  BY <1>1, <1>2, <1>3, <1>4, <1>5
<1> QED
  BY <1>6, <1>7 DEF H

-----------------------------------------------------------------------------
(* What Parse makes of a DSN, whatever the order of its parameters. *)

Keys == Known \cup {"s1", "s2"}
First(k) == dsn.params[k][1]
Given == DOMAIN dsn.params

\* What is known of every DSN: its pieces are of their kinds and each parameter
\* has a first value.
IsDsn ==
    /\ dsn.hosts \in Seq(HostTokens) /\ dsn.hosts # << >>
    /\ dsn.user \in Users
    /\ dsn.path \in Seq(Segments)
    /\ Given \subseteq Keys
    /\ \A k \in Given : First(k) \in Values(k)

HostsGood ==
    /\ dsn.url /\ ValidOptionalPort(dsn.hosts)
    /\ dsn.scheme = "clickhouse"
    /\ Len(dsn.hosts) <= maxHosts
    /\ \A i \in DOMAIN dsn.hosts : ~BadHost(dsn.hosts[i])

UserGood == "long" \notin {dsn.user.name, dsn.user.password}

PathBad ==
    LET db == Trim(dsn.path)
    IN  containsPathTraversal(db) \/ containsControlChars(db) \/ "long" \in ToSet(db)

DatabaseOf == IF Trim(dsn.path) = << >> THEN Empty ELSE Trim(dsn.path)[1]
AddrsOf == [i \in DOMAIN dsn.hosts |-> Addr(dsn.hosts[i])]

\* The kind of error that ErrorIsDetermined names.
Verdict ==
    IF ~dsn.url \/ ~ValidOptionalPort(dsn.hosts) THEN "KindParse"
    ELSE IF dsn.scheme # "clickhouse" THEN "KindScheme"
    ELSE IF Len(dsn.hosts) > maxHosts THEN "KindSecurity"
    ELSE IF \E h \in ToSet(dsn.hosts) :
            h.name = Empty \/ h.form = "bare6" \/ (h.form = "v6" /\ ~h.colon)
         THEN "KindParse"
    ELSE IF \/ "long" \in {dsn.user.name, dsn.user.password}
            \/ \E i \in DOMAIN dsn.path :
                  \/ dsn.path[i] \in {"..", "ctl", "long"}
                  \/ i > 1 /\ dsn.path[i] # Empty
         THEN "KindSecurity"
    ELSE IF \E k \in Known : Invalid(k) THEN "KindParse"
    ELSE IF Param("compress") = "gzip" THEN "KindConfig"
    ELSE Empty

\* The empty string is none of the others.
LEMMA Texts ==
    /\ Empty \notin {"a", "b", "::1", "p", "u", "pw", "long", "db", "..", "ctl", "nl", "9000", "default"}
    /\ Empty \notin {"name", "v6", "bare6", "none", "LZ4", "gzip", "true", "clickhouse", "failed", "pool"}
    /\ Empty \notin {"KindParse", "KindScheme", "KindSecurity", "KindConfig"}
BY Zenon DEF Empty

LEMMA HostFacts ==
    ASSUME NEW h \in HostTokens
    PROVE  /\ h.form \in {"name", "v6", "bare6"} /\ h.colon \in BOOLEAN
           /\ h.name \in {Empty, "a", "b", "::1"} /\ h.port \in {Empty, "p"}
BY DEF HostTokens

\* The check of one host is what the verdict says of it.
LEMMA BadHostIs ==
    ASSUME NEW h \in HostTokens
    PROVE  BadHost(h) <=> (h.name = Empty \/ h.form = "bare6" \/ (h.form = "v6" /\ ~h.colon))
<1> USE HostFacts
<1> QED
  BY DEF BadHost, HasColon, Splits

\* The path that is left after the slashes at the end are cut off.
LEMMA TrimIs ==
    ASSUME NEW L \in Nat, NEW path \in [1..L -> Segments]
    PROVE  \E n \in 0..L :
              /\ Trim(path) \in [1..n -> Segments]
              /\ \A i \in 1..n : Trim(path)[i] = path[i]
              /\ n > 0 => path[n] # Empty
              /\ \A i \in 1..L : i > n => path[i] = Empty
<1> DEFINE named == {i \in 1..L : path[i] # Empty}
           Latest(n) == n \in named \cup {0} /\ \A i \in named : i <= n
<1>1. Len(path) = L /\ DOMAIN path = 1..L /\ path \in Seq(Segments)
  OBVIOUS
<1>2. named \in SUBSET (1..L)
  OBVIOUS
<1> HIDE DEF named
<1>3. \E n \in 0..L : Latest(n)
  <2>1. CASE named = {}
    BY <2>1
  <2>2. CASE named # {}
    <3> DEFINE up == {L - x : x \in named}
    <3>1. up \in SUBSET Nat /\ up # {}
      <4>1. \A x \in named : L - x \in Nat
        BY <1>2
      <4> QED
        BY <4>1, <2>2, Zenon
    <3>2. PICK y \in up : \A z \in up : y <= z
      BY <3>1, Least
    <3>3. PICK x \in named : y = L - x
      BY <3>2
    <3>4. ASSUME NEW z \in named
          PROVE  z <= x
      <4>1. L - z \in up
        OBVIOUS
      <4>2. L - x <= L - z
        BY <3>2, <3>3, <4>1
      <4> QED
        BY <4>2, <1>2
    <3> QED
      BY <3>3, <3>4, <1>2
  <2> QED
    BY <2>1, <2>2
<1>4. Trim(path) = SubSeq(path, 1, CHOOSE n \in 0..L : Latest(n))
  BY <1>1, Zenon DEF Trim, named
<1> HIDE DEF Latest
<1>5. PICK n : n = CHOOSE m \in 0..L : Latest(m)
  OBVIOUS
<1>6. n \in 0..L /\ Latest(n)
  BY <1>3, <1>5
<1>7. Trim(path) = SubSeq(path, 1, n)
  BY <1>4, <1>5
<1>8. /\ SubSeq(path, 1, n) \in [1..n -> Segments]
      /\ \A i \in 1..n : SubSeq(path, 1, n)[i] = path[i]
  <2>1. SubSeq(path, 1, n) = [i \in 1..n |-> path[i]]
    BY <1>6, <1>1
  <2>2. \A i \in 1..n : i \in 1..L
    BY <1>6
  <2>3. \A i \in 1..n : path[i] \in Segments
    BY <2>2
  <2> QED
    BY <2>1, <2>3
<1>9. n > 0 => path[n] # Empty
  BY <1>6 DEF Latest, named
<1>10. \A i \in 1..L : i > n => path[i] = Empty
  BY <1>6 DEF Latest, named
<1> QED
  BY <1>6, <1>7, <1>8, <1>9, <1>10

LEMMA PathIs ==
    ASSUME IsDsn
    PROVE  /\ PathBad <=> \E i \in DOMAIN dsn.path :
                             \/ dsn.path[i] \in {"..", "ctl", "long"}
                             \/ i > 1 /\ dsn.path[i] # Empty
           /\ ~PathBad => DatabaseOf = IF dsn.path = << >> \/ dsn.path[1] = Empty THEN Empty ELSE dsn.path[1]
<1>1. PICK path : path = dsn.path
  OBVIOUS
<1>2. PICK L \in Nat : path \in [1..L -> Segments]
  <2>1. path \in Seq(Segments)
    BY <1>1 DEF IsDsn
  <2> QED
    BY <2>1
<1>3. PICK n \in 0..L :
              /\ Trim(path) \in [1..n -> Segments]
              /\ \A i \in 1..n : Trim(path)[i] = path[i]
              /\ n > 0 => path[n] # Empty
              /\ \A i \in 1..L : i > n => path[i] = Empty
  BY <1>2, TrimIs
<1>4. PICK db : db = Trim(path)
  OBVIOUS
<1>5. /\ db \in [1..n -> Segments] /\ DOMAIN db = 1..n /\ Len(db) = n
      /\ \A i \in 1..n : db[i] = path[i]
      /\ DOMAIN path = 1..L
  <2>1. db \in [1..n -> Segments] /\ \A i \in 1..n : db[i] = path[i]
    BY <1>3, <1>4
  <2> QED
    BY <2>1, <1>2
<1>6. \A i \in 1..n : i \in 1..L /\ i \in Nat
  OBVIOUS
<1>7. PathBad <=> n > 1 \/ \E i \in 1..n : db[i] \in {"..", "ctl", "long"}
  <2>1. PathBad <=> Len(db) > 1 \/ ".." \in ToSet(db) \/ "ctl" \in ToSet(db) \/ "long" \in ToSet(db)
    BY <1>1, <1>4 DEF PathBad, containsPathTraversal, containsControlChars
  <2>2. \A x : x \in ToSet(db) <=> \E i \in 1..n : db[i] = x
    BY <1>5 DEF ToSet
  <2> QED
    BY <2>1, <2>2, <1>5
<1>8. (\E i \in 1..n : db[i] \in {"..", "ctl", "long"}) <=>
          \E i \in 1..L : path[i] \in {"..", "ctl", "long"}
  <2>1. ASSUME NEW i \in 1..L, path[i] \in {"..", "ctl", "long"}
        PROVE  i \in 1..n
    <3>1. path[i] # Empty
      BY <2>1, Texts
    <3> QED
      BY <3>1, <1>3
  <2> QED
    BY <2>1, <1>5, <1>6, Zenon
<1>9. n > 1 <=> \E i \in 1..L : i > 1 /\ path[i] # Empty
  BY <1>3
<1>10. PathBad <=> \E i \in 1..L : path[i] \in {"..", "ctl", "long"} \/ (i > 1 /\ path[i] # Empty)
  BY <1>7, <1>8, <1>9
<1>11. ASSUME ~PathBad
       PROVE  DatabaseOf = IF path = << >> \/ path[1] = Empty THEN Empty ELSE path[1]
  <2>1. DatabaseOf = IF db = << >> THEN Empty ELSE db[1]
    BY <1>1, <1>4 DEF DatabaseOf
  <2>2. n = 0 \/ n = 1
    BY <1>7, <1>11
  <2>3. path = << >> <=> L = 0
    BY <1>2
  <2>4. CASE n = 0
    <3>1. db = << >>
      BY <2>4, <1>5
    <3> QED
      BY <2>1, <3>1, <2>4, <2>3, <1>3
  <2>5. CASE n = 1
    <3>1. db # << >> /\ db[1] = path[1] /\ path[1] # Empty /\ L # 0
      BY <2>5, <1>5, <1>3
    <3> QED
      BY <2>1, <3>1, <2>3
  <2> QED
    BY <2>2, <2>4, <2>5
<1> QED
  BY <1>1, <1>5, <1>10, <1>11

\* Every DSN of the model is such a DSN.
GoodParams(q) == DOMAIN q \subseteq Keys /\ \A k \in DOMAIN q : q[k][1] \in Values(k)

LEMMA SeveralIsGood == \A q \in Several : GoodParams(q)
<1> SUFFICES ASSUME NEW q \in Several
             PROVE  GoodParams(q)
  OBVIOUS
<1>1. PICK ks \in {s \in SUBSET Rich : Cardinality(s) <= MaxParams} :
         q \in {[k \in ks |-> <<f[k]>>] :
              f \in {g \in [ks -> UNION {Values(k) : k \in ks}] : \A k \in ks : g[k] \in Values(k)}}
  BY Zenon DEF Several
<1>2. PICK f : q = [k \in ks |-> <<f[k]>>] /\ \A k \in ks : f[k] \in Values(k)
  BY <1>1
<1>3. ks \subseteq Keys
  BY <1>1, DsnAssumption DEF Keys
<1>4. DOMAIN q = ks /\ \A k \in ks : q[k] = <<f[k]>>
  BY <1>2
<1>5. \A k \in ks : q[k][1] = f[k]
  BY <1>4
<1> QED
  BY <1>2, <1>3, <1>4, <1>5, Zenon DEF GoodParams

LEMMA SeqOfIs ==
    ASSUME NEW S, NEW n \in Nat, NEW s \in SeqOf(S, n)
    PROVE  /\ s \in Seq(S)
           /\ s # << >> => s[1] \in S
<1>1. PICK m \in 0..n : s \in [1..m -> S]
  BY DEF SeqOf
<1> QED
  BY <1>1

LEMMA OneKeyIsGood == \A q \in OneKey : GoodParams(q)
<1> SUFFICES ASSUME NEW q \in OneKey
             PROVE  GoodParams(q)
  OBVIOUS
<1>1. PICK k \in Known \cup {"s1"} : q \in {[x \in {k} |-> vs] : vs \in SeqOf(Values(k), 2) \ {<< >>}}
  BY Zenon DEF OneKey
<1>2. PICK vs \in SeqOf(Values(k), 2) : vs # << >> /\ q = [x \in {k} |-> vs]
  BY <1>1
<1>3. vs[1] \in Values(k)
  BY <1>2, SeqOfIs
<1>4. DOMAIN q = {k} /\ q[k] = vs
  BY <1>2
<1>5. k \in Keys
  BY DEF Keys
<1> QED
  BY <1>3, <1>4, <1>5 DEF GoodParams

LEMMA HostListIs ==
    ASSUME NEW h \in HostLists
    PROVE  h \in Seq(HostTokens) /\ h # << >>
BY SeqOfIs, DsnAssumption DEF HostLists

Flawed == {Plain, [Plain EXCEPT !.url = FALSE], [Plain EXCEPT !.scheme = "http"]}
WithHosts == {[Plain EXCEPT !.hosts = h] : h \in HostLists}
UserPath(u, p) == [Plain EXCEPT !.user = u, !.path = p]
WithUserPath == {UserPath(u, p) : u \in Users, p \in SeqOf(Segments, 3)}
WithParams == {[Plain EXCEPT !.params = q] : q \in Several \cup OneKey}
PathParams(s, q) == [Plain EXCEPT !.path = <<s>>, !.params = q]
WithPathParams == {PathParams(s, q) : s \in {"db", ".."}, q \in OneKey}

LEMMA AllDsns == Dsns = Flawed \cup WithHosts \cup WithUserPath \cup WithParams \cup WithPathParams
BY DEF Dsns, Flawed, WithHosts, WithUserPath, UserPath, WithParams, WithPathParams, PathParams

LEMMA Pieces ==
    ASSUME dsn \in Dsns
    PROVE  IsDsn
<1> DEFINE Piecewise(h, u, p, q) ==
              /\ h \in Seq(HostTokens) /\ h # << >> /\ u \in Users /\ p \in Seq(Segments) /\ GoodParams(q)
<1>1. IsDsn <=> Piecewise(dsn.hosts, dsn.user, dsn.path, dsn.params)
  BY DEF IsDsn, GoodParams, Given, First
<1>2. Piecewise(Plain.hosts, Plain.user, Plain.path, Plain.params)
  <2>1. [form |-> "name", name |-> "a", colon |-> TRUE, port |-> "p"] \in HostTokens
    BY DEF HostTokens
  <2>2. Plain.hosts = <<[form |-> "name", name |-> "a", colon |-> TRUE, port |-> "p"]>>
    BY DEF Plain
  <2>3. Plain.hosts \in Seq(HostTokens) /\ Plain.hosts # << >>
    BY <2>1, <2>2
  <2>4. Plain.user \in Users /\ Plain.path = << >> /\ Plain.params = << >>
    BY DEF Plain, Users
  <2>5. GoodParams(<< >>)
    BY DEF GoodParams
  <2> QED
    BY <2>3, <2>4, <2>5
<1>3. DOMAIN Plain = {"url", "scheme", "hosts", "user", "path", "params"}
  BY DEF Plain
<1> HIDE DEF Piecewise
<1>4. CASE dsn \in Flawed
  <2>1. dsn.hosts = Plain.hosts /\ dsn.user = Plain.user /\ dsn.path = Plain.path /\ dsn.params = Plain.params
    BY <1>4, <1>3 DEF Flawed
  <2> QED
    BY <2>1, <1>1, <1>2
<1>5. CASE dsn \in WithHosts
  <2>1. PICK h \in HostLists : dsn = [Plain EXCEPT !.hosts = h]
    BY <1>5 DEF WithHosts
  <2>2. dsn.hosts = h /\ dsn.user = Plain.user /\ dsn.path = Plain.path /\ dsn.params = Plain.params
    BY <2>1, <1>3
  <2> QED
    BY <2>2, <1>1, <1>2, HostListIs DEF Piecewise
<1>6. CASE dsn \in WithUserPath
  <2>1. PICK u \in Users, p \in SeqOf(Segments, 3) : dsn = UserPath(u, p)
    BY <1>6 DEF WithUserPath
  <2>2. dsn.hosts = Plain.hosts /\ dsn.user = u /\ dsn.path = p /\ dsn.params = Plain.params
    BY <2>1, <1>3 DEF UserPath
  <2> QED
    BY <2>2, <1>1, <1>2, SeqOfIs DEF Piecewise
<1>7. CASE dsn \in WithParams
  <2>1. PICK q \in Several \cup OneKey : dsn = [Plain EXCEPT !.params = q]
    BY <1>7 DEF WithParams
  <2>2. dsn.hosts = Plain.hosts /\ dsn.user = Plain.user /\ dsn.path = Plain.path /\ dsn.params = q
    BY <2>1, <1>3
  <2> QED
    BY <2>1, <2>2, <1>1, <1>2, SeveralIsGood, OneKeyIsGood DEF Piecewise
<1>8. CASE dsn \in WithPathParams
  <2>1. PICK s \in {"db", ".."}, q \in OneKey : dsn = PathParams(s, q)
    BY <1>8 DEF WithPathParams
  <2>2. dsn.hosts = Plain.hosts /\ dsn.user = Plain.user /\ dsn.path = <<s>> /\ dsn.params = q
    BY <2>1, <1>3 DEF PathParams
  <2>3. s \in Segments
    BY DEF Segments
  <2>4. <<s>> \in Seq(Segments)
    BY <2>3
  <2> QED
    BY <2>2, <2>4, <1>1, <1>2, OneKeyIsGood DEF Piecewise
<1> QED
  BY AllDsns, <1>4, <1>5, <1>6, <1>7, <1>8

\* The error that the checks of ParseHosts find first.
HostFlaw ==
    IF ~dsn.url \/ ~ValidOptionalPort(dsn.hosts) THEN "KindParse"
    ELSE IF dsn.scheme # "clickhouse" THEN "KindScheme"
    ELSE IF Len(dsn.hosts) > maxHosts THEN "KindSecurity"
    ELSE IF \E i \in DOMAIN dsn.hosts : BadHost(dsn.hosts[i]) THEN "KindParse"
    ELSE Empty

LEMMA VerdictIs ==
    ASSUME IsDsn
    PROVE  /\ HostFlaw = Empty => HostsGood
           /\ HostFlaw # Empty => Verdict = HostFlaw
           /\ HostsGood /\ (~UserGood \/ PathBad) => Verdict = "KindSecurity"
           /\ HostsGood /\ UserGood /\ ~PathBad =>
                 Verdict = IF \E k \in Known : Invalid(k) THEN "KindParse"
                           ELSE IF Param("compress") = "gzip" THEN "KindConfig" ELSE Empty
<1> DEFINE Unsplit(h) == h.name = Empty \/ h.form = "bare6" \/ (h.form = "v6" /\ ~h.colon)
           BadPath == \E i \in DOMAIN dsn.path : \/ dsn.path[i] \in {"..", "ctl", "long"}
                                                 \/ i > 1 /\ dsn.path[i] # Empty
           Long == "long" \in {dsn.user.name, dsn.user.password}
<1>1. (\E i \in DOMAIN dsn.hosts : BadHost(dsn.hosts[i])) <=> \E h \in ToSet(dsn.hosts) : Unsplit(h)
  <2>1. \A i \in DOMAIN dsn.hosts : dsn.hosts[i] \in HostTokens
    BY DEF IsDsn
  <2>2. \A i \in DOMAIN dsn.hosts : BadHost(dsn.hosts[i]) <=> Unsplit(dsn.hosts[i])
    BY <2>1, BadHostIs
  <2> HIDE DEF Unsplit
  <2>3. \A h : h \in ToSet(dsn.hosts) <=> \E i \in DOMAIN dsn.hosts : h = dsn.hosts[i]
    BY DEF ToSet
  <2> QED
    BY <2>2, <2>3, Zenon
<1>2. PathBad <=> BadPath
  BY PathIs
<1>3. UserGood <=> ~Long
  BY DEF UserGood
<1>4. Verdict =
        IF ~dsn.url \/ ~ValidOptionalPort(dsn.hosts) THEN "KindParse"
        ELSE IF dsn.scheme # "clickhouse" THEN "KindScheme"
        ELSE IF Len(dsn.hosts) > maxHosts THEN "KindSecurity"
        ELSE IF \E h \in ToSet(dsn.hosts) : Unsplit(h) THEN "KindParse"
        ELSE IF Long \/ BadPath THEN "KindSecurity"
        ELSE IF \E k \in Known : Invalid(k) THEN "KindParse"
        ELSE IF Param("compress") = "gzip" THEN "KindConfig" ELSE Empty
  BY DEF Verdict
<1> HIDE DEF Unsplit, BadPath, Long
<1>5. Len(dsn.hosts) \in Nat /\ maxHosts \in Nat
  BY DsnAssumption DEF IsDsn
<1>6. HostsGood <=>
         /\ ~(~dsn.url \/ ~ValidOptionalPort(dsn.hosts))
         /\ ~(dsn.scheme # "clickhouse")
         /\ ~(Len(dsn.hosts) > maxHosts)
         /\ ~ \E i \in DOMAIN dsn.hosts : BadHost(dsn.hosts[i])
  BY <1>5 DEF HostsGood
<1>7. Empty # "KindParse" /\ Empty # "KindScheme" /\ Empty # "KindSecurity"
  BY Texts
<1>8. HostFlaw = Empty => HostsGood
  BY <1>6, <1>7, Zenon DEF HostFlaw
<1>9. HostFlaw # Empty => Verdict = HostFlaw
  BY <1>1, <1>4, Zenon DEF HostFlaw
<1>10. HostsGood /\ (~UserGood \/ PathBad) => Verdict = "KindSecurity"
  BY <1>1, <1>2, <1>3, <1>4, <1>6, Zenon
<1>11. HostsGood /\ UserGood /\ ~PathBad =>
                 Verdict = IF \E k \in Known : Invalid(k) THEN "KindParse"
                           ELSE IF Param("compress") = "gzip" THEN "KindConfig" ELSE Empty
  BY <1>1, <1>2, <1>3, <1>4, <1>6, Zenon
<1> QED
  BY <1>8, <1>9, <1>10, <1>11

-----------------------------------------------------------------------------
(* The invariant. *)

\* The parameters the loop has visited, and the settings it found among them.
Visited == Given \ todo
Entries == {<<k, First(k)>> : k \in Given}
Settled == {<<k, First(k)>> : k \in Visited \ Known}

\* How far Parse and its caller came; what New refuses came all the way.
Alive == pc # "failed" \/ kind = "pool"
HostsDone == Alive /\ pc # "url"
UserDone == HostsDone /\ pc # "user"
PathDone == UserDone /\ pc # "path"
ParamsDone == PathDone /\ pc # "params"
Configured == ParamsDone /\ pc # "parsed"

Shape ==
    /\ pc \in {"url", "user", "path", "params", "parsed", "config", "done", "failed"}
    /\ kind # Empty <=> pc = "failed"
    /\ todo \subseteq Given
    /\ ~PathDone /\ Alive => todo = Given
    /\ ParamsDone => todo = {}
    /\ ~Configured => conf = << >>

\* The Config is built field by field, in the order of the stages.
Record == cfg = [Addrs |-> cfg.Addrs, User |-> cfg.User, Password |-> cfg.Password, Database |-> cfg.Database,
                 fields |-> cfg.fields, Settings |-> cfg.Settings]

Fields ==
    /\ DOMAIN cfg.fields = Visited \cap Known
    /\ \A k \in Visited \cap Known : cfg.fields[k] = First(k) /\ Parses(k, First(k))

Settings ==
    /\ cfg.Settings \in Seq(Entries)
    /\ ToSet(cfg.Settings) = Settled
    /\ Len(cfg.Settings) = Cardinality(Visited \ Known)

Built ==
    /\ Alive => Record /\ Fields /\ Settings
    /\ HostsDone => HostsGood /\ cfg.Addrs = AddrsOf
    /\ UserDone => UserGood /\ cfg.User = dsn.user.name /\ cfg.Password = dsn.user.password
    /\ PathDone => ~PathBad /\ cfg.Database = DatabaseOf

Refused == ~Alive => cfg = NoConfig /\ kind = Verdict

PoolConfig ==
    [Addrs |-> cfg.Addrs, MaxConns |-> Atoi(Field("pool_max_conns")),
     HealthCheckInterval |-> Field("health_check_interval")]

Returned ==
    Configured =>
        /\ conf = <<ConnConfig>> \/ conf = <<ConnConfig, PoolConfig>>
        /\ parseCompression(Field("compress")) # "invalid"

Used ==
    /\ kind = "pool" => Len(conf) = 2 /\ maxSize(conf[2].MaxConns) < 1
    /\ pc = "done" /\ Len(conf) # 2 => uses = [conns |-> <<Connection(conf[1], conf[1].Addr)>>]
    /\ pc = "done" /\ Len(conf) = 2 =>
          /\ ~(maxSize(conf[2].MaxConns) < 1)
          /\ uses = [conns |-> [i \in DOMAIN conf[2].Addrs |-> Connection(conf[1], conf[2].Addrs[i])],
                     size |-> maxSize(conf[2].MaxConns), health |-> conf[2].HealthCheckInterval # "0s"]

IInv == IsDsn /\ Shape /\ Built /\ Refused /\ Returned /\ Used

\* What is said of the DSN stays said.
LEMMA SameDsn ==
    ASSUME dsn' = dsn
    PROVE  /\ IsDsn' <=> IsDsn
           /\ HostsGood' <=> HostsGood
           /\ UserGood' <=> UserGood
           /\ PathBad' <=> PathBad
           /\ DatabaseOf' = DatabaseOf
           /\ AddrsOf' = AddrsOf
           /\ Verdict' = Verdict
           /\ Given' = Given
           /\ Entries' = Entries
           /\ \A k : First(k)' = First(k)
<1>1. Given' = Given /\ \A k : First(k)' = First(k)
  BY DEF Given, First
<1>2. Entries' = Entries
  BY DEF Entries, Given, First
<1>3. IsDsn' <=> IsDsn
  BY <1>1 DEF IsDsn
<1>4. (HostsGood' <=> HostsGood) /\ (UserGood' <=> UserGood) /\ (PathBad' <=> PathBad)
  BY DEF HostsGood, UserGood, PathBad
<1>5. DatabaseOf' = DatabaseOf /\ AddrsOf' = AddrsOf
  BY DEF DatabaseOf, AddrsOf
<1>6. Verdict' = Verdict
  BY DEF Verdict, Invalid, Param
<1> QED
  BY <1>1, <1>2, <1>3, <1>4, <1>5, <1>6

\* As long as cfg and todo stay, so does what is built.
LEMMA SameCfg ==
    ASSUME dsn' = dsn, cfg' = cfg, todo' = todo
    PROVE  /\ Record' <=> Record
           /\ Fields' <=> Fields
           /\ Settings' <=> Settings
           /\ \A k : Field(k)' = Field(k)
           /\ ConnConfig' = ConnConfig /\ PoolConfig' = PoolConfig
<1>1. Visited' = Visited /\ Settled' = Settled
  BY DEF Visited, Settled, Given, First
<1>2. (Record' <=> Record) /\ (Fields' <=> Fields)
  BY <1>1 DEF Record, Fields, First
<1>3. Settings' <=> Settings
  BY <1>1, SameDsn DEF Settings
<1>4. \A k : Field(k)' = Field(k)
  BY DEF Field
<1>5. ConnConfig' = ConnConfig /\ PoolConfig' = PoolConfig
  BY <1>4 DEF ConnConfig, PoolConfig
<1> QED
  BY <1>2, <1>3, <1>4, <1>5

LEMMA KeysAreFinite ==
    ASSUME NEW S \in SUBSET Keys
    PROVE  IsFiniteSet(S) /\ Cardinality(S) \in Nat
<1>1. IsFiniteSet({"dial_timeout", "read_timeout", "write_timeout", "health_check_interval",
                   "pool_max_conns", "pool_min_conns", "compress", "secure", "s1", "s2"})
  <2>1. IsFiniteSet({"dial_timeout"}) /\ IsFiniteSet({"read_timeout"}) /\ IsFiniteSet({"write_timeout"})
        /\ IsFiniteSet({"health_check_interval"}) /\ IsFiniteSet({"pool_max_conns"}) /\ IsFiniteSet({"pool_min_conns"})
        /\ IsFiniteSet({"compress"}) /\ IsFiniteSet({"secure"}) /\ IsFiniteSet({"s1"}) /\ IsFiniteSet({"s2"})
    BY FS_Singleton
  <2>2. IsFiniteSet({"dial_timeout"} \cup {"read_timeout"} \cup {"write_timeout"} \cup {"health_check_interval"})
    BY <2>1, FS_Union
  <2>3. IsFiniteSet({"pool_max_conns"} \cup {"pool_min_conns"} \cup {"compress"} \cup {"secure"} \cup {"s1"} \cup {"s2"})
    BY <2>1, FS_Union
  <2>4. IsFiniteSet(({"dial_timeout"} \cup {"read_timeout"} \cup {"write_timeout"} \cup {"health_check_interval"})
           \cup ({"pool_max_conns"} \cup {"pool_min_conns"} \cup {"compress"} \cup {"secure"} \cup {"s1"} \cup {"s2"}))
    BY <2>2, <2>3, FS_Union
  <2>5. {"dial_timeout", "read_timeout", "write_timeout", "health_check_interval",
         "pool_max_conns", "pool_min_conns", "compress", "secure", "s1", "s2"}
        = ({"dial_timeout"} \cup {"read_timeout"} \cup {"write_timeout"} \cup {"health_check_interval"})
           \cup ({"pool_max_conns"} \cup {"pool_min_conns"} \cup {"compress"} \cup {"secure"} \cup {"s1"} \cup {"s2"})
    BY Zenon
  <2> QED
    BY <2>4, <2>5
<1>2. Keys = {"dial_timeout", "read_timeout", "write_timeout", "health_check_interval",
              "pool_max_conns", "pool_min_conns", "compress", "secure", "s1", "s2"}
  BY Zenon DEF Keys, Known, Durations, Ints
<1>3. IsFiniteSet(Keys)
  BY <1>1, <1>2
<1> QED
  BY <1>3, FS_Subset, FS_CardinalityType

LEMMA InitIInv == Init => IInv
<1> SUFFICES ASSUME Init
             PROVE  IInv
  OBVIOUS
<1> USE DEF Init
<1>1. IsDsn
  BY Pieces
<1>2. Shape
  BY Texts DEF Shape, Given, Configured, ParamsDone, PathDone, UserDone, HostsDone, Alive
<1>3. Visited = {} /\ Settled = {}
  BY DEF Visited, Settled, Given
<1>4. Record /\ Fields
  BY <1>3 DEF Record, Fields, NoConfig
<1>5. Settings
  <2>1. cfg.Settings = << >>
    BY DEF NoConfig
  <2>2. Cardinality(Visited \ Known) = 0
    BY <1>3, FS_EmptySet
  <2>3. << >> \in Seq(Entries) /\ ToSet(<< >>) = {} /\ Len(<< >>) = 0
    BY DEF ToSet
  <2> QED
    BY <2>1, <2>2, <2>3, <1>3 DEF Settings
<1>6. Alive /\ ~HostsDone /\ kind # "pool"
  BY Texts DEF Alive, HostsDone
<1>7. Built
  BY <1>4, <1>5, <1>6, Zenon DEF Built, UserDone, PathDone
<1> QED
  BY <1>1, <1>2, <1>6, <1>7 DEF IInv, Refused, Returned, Used, Configured, ParamsDone, PathDone, UserDone

-----------------------------------------------------------------------------
(* Every step keeps it. *)

\* What is refused with the kind of error that is due.
LEMMA FailStep ==
    ASSUME IInv, NEW k, Fail(k), k = Verdict, k \notin {Empty, "pool"}, ~Configured
    PROVE  IInv'
<1>1. /\ dsn' = dsn /\ todo' = todo /\ conf' = conf /\ uses' = uses
      /\ pc' = "failed" /\ kind' = k /\ cfg' = NoConfig
  BY DEF Fail
<1>2. ~Alive' /\ ~HostsDone' /\ ~UserDone' /\ ~PathDone' /\ ~ParamsDone' /\ ~Configured'
  BY <1>1 DEF Alive, HostsDone, UserDone, PathDone, ParamsDone, Configured
<1>3. IsDsn'
  BY <1>1, SameDsn DEF IInv
<1>4. Shape'
  BY <1>1, <1>2, SameDsn DEF IInv, Shape
<1>5. Refused'
  BY <1>1, SameDsn DEF Refused
<1> QED
  BY <1>1, <1>2, <1>3, <1>4, <1>5 DEF IInv, Built, Returned, Used

LEMMA StepHosts ==
    ASSUME IInv, ParseHosts
    PROVE  IInv'
<1>1. \/ HostFlaw # Empty /\ Fail(HostFlaw)
      \/ /\ HostFlaw = Empty
         /\ cfg' = [cfg EXCEPT !.Addrs = AddrsOf]
         /\ Go("user")
  BY DEF ParseHosts, HostFlaw, AddrsOf
<1>2. pc = "url" /\ kind = Empty /\ Alive /\ ~Configured /\ ~HostsDone /\ ~UserDone /\ ~PathDone /\ ~ParamsDone
  BY DEF ParseHosts, IInv, Shape, Alive, Configured, ParamsDone, PathDone, UserDone, HostsDone
<1>3. CASE HostFlaw # Empty /\ Fail(HostFlaw)
  <2>1. HostFlaw = Verdict
    BY <1>3, VerdictIs DEF IInv
  <2>2. HostFlaw # "pool"
    BY Texts DEF HostFlaw
  <2> QED
    BY <2>1, <2>2, <1>2, <1>3, FailStep
<1>4. CASE HostFlaw = Empty /\ cfg' = [cfg EXCEPT !.Addrs = AddrsOf] /\ Go("user")
  <2>1. pc' = "user" /\ kind' = kind /\ dsn' = dsn /\ todo' = todo /\ conf' = conf /\ uses' = uses
    BY <1>4 DEF Go
  <2>2. Alive' /\ HostsDone' /\ ~UserDone' /\ ~PathDone' /\ ~ParamsDone' /\ ~Configured'
    BY <2>1 DEF Alive, Configured, ParamsDone, PathDone, UserDone, HostsDone
  <2>3. Shape'
    BY <2>1, <2>2, <1>2, SameDsn DEF IInv, Shape
  <2>4. Record /\ Fields /\ Settings
    BY <1>2 DEF IInv, Built
  <2>5. cfg' = [Addrs |-> AddrsOf, User |-> cfg.User, Password |-> cfg.Password, Database |-> cfg.Database,
                fields |-> cfg.fields, Settings |-> cfg.Settings]
    BY <1>4, <2>4 DEF Record
  <2>6. cfg'.Addrs = AddrsOf /\ cfg'.fields = cfg.fields /\ cfg'.Settings = cfg.Settings
        /\ Record'
    BY <2>5 DEF Record
  <2>7. Visited' = Visited /\ Settled' = Settled
    BY <2>1 DEF Visited, Settled, Given, First
  <2>8. Fields' /\ Settings'
    BY <2>1, <2>4, <2>6, <2>7, SameDsn DEF Fields, Settings
  <2>9. HostsGood' /\ cfg'.Addrs = AddrsOf'
    BY <2>1, <2>6, <1>4, SameDsn, VerdictIs DEF IInv
  <2> QED
    BY <2>1, <2>2, <2>3, <2>6, <2>8, <2>9, <1>2, SameDsn, Texts DEF IInv, Built, Refused, Returned, Used
<1> QED
  BY <1>1, <1>3, <1>4

LEMMA StepUser ==
    ASSUME IInv, ParseUser
    PROVE  IInv'
<1>1. pc = "user" /\ kind = Empty /\ Alive /\ ~Configured /\ HostsDone /\ ~UserDone /\ ~PathDone /\ ~ParamsDone
  BY Texts DEF ParseUser, IInv, Shape, Alive, Configured, ParamsDone, PathDone, UserDone, HostsDone
<1>2. CASE ~UserGood
  <2>1. Fail("KindSecurity")
    BY <1>2 DEF ParseUser, UserGood
  <2>2. Verdict = "KindSecurity"
    BY <1>1, <1>2, VerdictIs DEF IInv, Built
  <2> QED
    BY <2>1, <2>2, <1>1, Texts, FailStep
<1>3. CASE UserGood
  <2>1. cfg' = [cfg EXCEPT !.User = dsn.user.name, !.Password = dsn.user.password] /\ Go("path")
    BY <1>3 DEF ParseUser, UserGood
  <2>2. pc' = "path" /\ kind' = kind /\ dsn' = dsn /\ todo' = todo /\ conf' = conf /\ uses' = uses
    BY <2>1 DEF Go
  <2>3. Alive' /\ HostsDone' /\ UserDone' /\ ~PathDone' /\ ~ParamsDone' /\ ~Configured'
    BY <2>2 DEF Alive, Configured, ParamsDone, PathDone, UserDone, HostsDone
  <2>4. Shape'
    BY <2>2, <2>3, <1>1, SameDsn DEF IInv, Shape
  <2>5. Record /\ Fields /\ Settings
    BY <1>1 DEF IInv, Built
  <2>6. cfg' = [Addrs |-> cfg.Addrs, User |-> dsn.user.name, Password |-> dsn.user.password, Database |-> cfg.Database,
                fields |-> cfg.fields, Settings |-> cfg.Settings]
    BY <2>1, <2>5 DEF Record
  <2>7. cfg'.Addrs = cfg.Addrs /\ cfg'.fields = cfg.fields /\ cfg'.Settings = cfg.Settings
        /\ cfg'.User = dsn.user.name /\ cfg'.Password = dsn.user.password /\ Record'
    BY <2>6 DEF Record
  <2>8. Visited' = Visited /\ Settled' = Settled
    BY <2>2 DEF Visited, Settled, Given, First
  <2>9. Fields' /\ Settings'
    BY <2>2, <2>5, <2>7, <2>8, SameDsn DEF Fields, Settings
  <2>10. HostsGood' /\ cfg'.Addrs = AddrsOf'
    BY <2>2, <2>7, <1>1, SameDsn DEF IInv, Built
  <2>11. UserGood' /\ cfg'.User = dsn'.user.name /\ cfg'.Password = dsn'.user.password
    BY <2>2, <2>7, <1>3, SameDsn
  <2> QED
    BY <2>2, <2>3, <2>4, <2>7, <2>9, <2>10, <2>11, <1>1, SameDsn, Texts DEF IInv, Built, Refused, Returned, Used
<1> QED
  BY <1>2, <1>3

LEMMA StepPath ==
    ASSUME IInv, ParsePath
    PROVE  IInv'
<1>1. pc = "path" /\ kind = Empty /\ Alive /\ ~Configured /\ HostsDone /\ UserDone /\ ~PathDone /\ ~ParamsDone
  BY Texts DEF ParsePath, IInv, Shape, Alive, Configured, ParamsDone, PathDone, UserDone, HostsDone
<1>2. CASE PathBad
  <2>1. Fail("KindSecurity")
    BY <1>2 DEF ParsePath, PathBad
  <2>2. Verdict = "KindSecurity"
    BY <1>1, <1>2, VerdictIs DEF IInv, Built
  <2> QED
    BY <2>1, <2>2, <1>1, Texts, FailStep
<1>3. CASE ~PathBad
  <2>1. cfg' = [cfg EXCEPT !.Database = DatabaseOf] /\ Go("params")
    BY <1>3 DEF ParsePath, PathBad, DatabaseOf
  <2>2. pc' = "params" /\ kind' = kind /\ dsn' = dsn /\ todo' = todo /\ conf' = conf /\ uses' = uses
    BY <2>1 DEF Go
  <2>3. Alive' /\ HostsDone' /\ UserDone' /\ PathDone' /\ ~ParamsDone' /\ ~Configured'
    BY <2>2 DEF Alive, Configured, ParamsDone, PathDone, UserDone, HostsDone
  <2>4. Shape'
    BY <2>2, <2>3, <1>1, SameDsn DEF IInv, Shape
  <2>5. Record /\ Fields /\ Settings
    BY <1>1 DEF IInv, Built
  <2>6. cfg' = [Addrs |-> cfg.Addrs, User |-> cfg.User, Password |-> cfg.Password, Database |-> DatabaseOf,
                fields |-> cfg.fields, Settings |-> cfg.Settings]
    BY <2>1, <2>5 DEF Record
  <2>7. cfg'.Addrs = cfg.Addrs /\ cfg'.fields = cfg.fields /\ cfg'.Settings = cfg.Settings
        /\ cfg'.User = cfg.User /\ cfg'.Password = cfg.Password /\ cfg'.Database = DatabaseOf /\ Record'
    BY <2>6 DEF Record
  <2>8. Visited' = Visited /\ Settled' = Settled
    BY <2>2 DEF Visited, Settled, Given, First
  <2>9. Fields' /\ Settings'
    BY <2>2, <2>5, <2>7, <2>8, SameDsn DEF Fields, Settings
  <2>10. HostsGood' /\ cfg'.Addrs = AddrsOf'
    BY <2>2, <2>7, <1>1, SameDsn DEF IInv, Built
  <2>11. UserGood' /\ cfg'.User = dsn'.user.name /\ cfg'.Password = dsn'.user.password
    BY <2>2, <2>7, <1>1, SameDsn DEF IInv, Built
  <2>12. ~PathBad' /\ cfg'.Database = DatabaseOf'
    BY <2>2, <2>7, <1>3, SameDsn
  <2> QED
    BY <2>2, <2>3, <2>4, <2>7, <2>9, <2>10, <2>11, <2>12, <1>1, SameDsn, Texts DEF IInv, Built, Refused, Returned, Used
<1> QED
  BY <1>2, <1>3

LEMMA StepParam ==
    ASSUME IInv, NEW k \in Known \cup {"s1", "s2"}, ParseParam(k)
    PROVE  IInv'
<1>1. pc = "params" /\ kind = Empty /\ Alive /\ ~Configured /\ HostsDone /\ UserDone /\ PathDone /\ ~ParamsDone
      /\ k \in todo /\ todo \subseteq Given /\ k \in Given
  BY Texts DEF ParseParam, IInv, Shape, Alive, Configured, ParamsDone, PathDone, UserDone, HostsDone
<1>2. CASE ~Parses(k, First(k))
  <2>1. Fail("KindParse")
    BY <1>2 DEF ParseParam, First
  <2>2. k \in Known
    BY <1>2 DEF Parses, Known
  <2>3. Invalid(k)
    BY <1>1, <1>2 DEF Invalid, Given, First
  <2>4. Verdict = "KindParse"
    BY <1>1, <2>2, <2>3, VerdictIs DEF IInv, Built
  <2> QED
    BY <2>1, <2>4, <1>1, Texts, FailStep
<1>3. CASE Parses(k, First(k))
  <2>1. /\ pc' = pc /\ kind' = kind /\ dsn' = dsn /\ todo' = todo \ {k} /\ conf' = conf /\ uses' = uses
        /\ k \in Known => cfg' = [cfg EXCEPT !.fields = [x \in DOMAIN @ \cup {k} |-> IF x = k THEN First(k) ELSE @[x]]]
        /\ k \notin Known => cfg' = [cfg EXCEPT !.Settings = Append(@, <<k, First(k)>>)]
    BY <1>3 DEF ParseParam, First
  <2>2. Alive' /\ HostsDone' /\ UserDone' /\ PathDone' /\ ~ParamsDone' /\ ~Configured'
    BY <2>1, <1>1 DEF Alive, Configured, ParamsDone, PathDone, UserDone, HostsDone
  <2>3. Shape'
    BY <2>1, <2>2, <1>1, SameDsn DEF IInv, Shape
  <2>4. Record /\ Fields /\ Settings
    BY <1>1 DEF IInv, Built
  <2>5. Visited' = Visited \cup {k} /\ k \notin Visited /\ Visited \subseteq Given
    BY <2>1, <1>1 DEF Visited, Given
  <2>6. Given' = Given /\ Entries' = Entries /\ \A x : First(x)' = First(x)
    BY <2>1, SameDsn
  <2>7. /\ cfg'.Addrs = cfg.Addrs /\ cfg'.User = cfg.User /\ cfg'.Password = cfg.Password
        /\ cfg'.Database = cfg.Database /\ Record' /\ Fields' /\ Settings'
    <3>1. CASE k \in Known
      <4> DEFINE fs == [x \in DOMAIN cfg.fields \cup {k} |-> IF x = k THEN First(k) ELSE cfg.fields[x]]
      <4>1. cfg' = [Addrs |-> cfg.Addrs, User |-> cfg.User, Password |-> cfg.Password, Database |-> cfg.Database,
                    fields |-> fs, Settings |-> cfg.Settings]
        BY <2>1, <2>4, <3>1 DEF Record
      <4> HIDE DEF fs
      <4>2. cfg'.Addrs = cfg.Addrs /\ cfg'.User = cfg.User /\ cfg'.Password = cfg.Password
            /\ cfg'.Database = cfg.Database /\ cfg'.fields = fs /\ cfg'.Settings = cfg.Settings /\ Record'
        BY <4>1 DEF Record
      <4>3. DOMAIN fs = DOMAIN cfg.fields \cup {k} /\ fs[k] = First(k)
            /\ \A x \in DOMAIN cfg.fields : x # k => fs[x] = cfg.fields[x]
        BY DEF fs
      <4>4. DOMAIN cfg.fields = Visited \cap Known /\ (Visited \cup {k}) \cap Known = (Visited \cap Known) \cup {k}
        BY <2>4, <3>1 DEF Fields
      <4>5. \A x \in Visited \cap Known : fs[x] = First(x) /\ Parses(x, First(x))
        BY <4>3, <4>4, <2>4, <2>5 DEF Fields
      <4>6. Fields'
        BY <4>2, <4>3, <4>4, <4>5, <2>5, <2>6, <1>3 DEF Fields
      <4>7. (Visited \cup {k}) \ Known = Visited \ Known
        BY <3>1
      <4>8. Settled' = Settled
        BY <2>5, <2>6, <4>7 DEF Settled
      <4>9. Settings'
        BY <4>2, <4>7, <4>8, <2>4, <2>5, <2>6 DEF Settings
      <4> QED
        BY <4>2, <4>6, <4>9
    <3>2. CASE k \notin Known
      <4> DEFINE ss == Append(cfg.Settings, <<k, First(k)>>)
      <4>1. cfg' = [Addrs |-> cfg.Addrs, User |-> cfg.User, Password |-> cfg.Password, Database |-> cfg.Database,
                    fields |-> cfg.fields, Settings |-> ss]
        BY <2>1, <2>4, <3>2 DEF Record
      <4> HIDE DEF ss
      <4>2. cfg'.Addrs = cfg.Addrs /\ cfg'.User = cfg.User /\ cfg'.Password = cfg.Password
            /\ cfg'.Database = cfg.Database /\ cfg'.fields = cfg.fields /\ cfg'.Settings = ss /\ Record'
        BY <4>1 DEF Record
      <4>3. (Visited \cup {k}) \cap Known = Visited \cap Known
        BY <3>2
      <4>4. Fields'
        BY <4>2, <4>3, <2>4, <2>5, <2>6 DEF Fields
      <4>5. (Visited \cup {k}) \ Known = (Visited \ Known) \cup {k} /\ k \notin Visited \ Known
        BY <3>2, <2>5
      <4>6. Settled' = Settled \cup {<<k, First(k)>>}
        BY <2>5, <2>6, <4>5 DEF Settled
      <4>7. PICK s \in Seq(Entries) : s = cfg.Settings
        BY <2>4 DEF Settings
      <4>8. PICK e \in Entries : e = <<k, First(k)>>
        BY <1>1 DEF Entries
      <4>9. Append(s, e) \in Seq(Entries) /\ Len(Append(s, e)) = Len(s) + 1
            /\ ToSet(Append(s, e)) = ToSet(s) \cup {e}
        <5>1. Append(s, e) \in Seq(Entries) /\ Len(Append(s, e)) = Len(s) + 1
          OBVIOUS
        <5>2. \A i \in 1..Len(s) + 1 : Append(s, e)[i] = IF i <= Len(s) THEN s[i] ELSE e
          OBVIOUS
        <5>3. DOMAIN Append(s, e) = 1..Len(s) + 1 /\ DOMAIN s = 1..Len(s) /\ Len(s) \in Nat
          OBVIOUS
        <5>4. ASSUME NEW x \in ToSet(Append(s, e)) PROVE x \in ToSet(s) \cup {e}
          BY <5>2, <5>3 DEF ToSet
        <5>5. ASSUME NEW x \in ToSet(s) PROVE x \in ToSet(Append(s, e))
          BY <5>2, <5>3 DEF ToSet
        <5>6. e \in ToSet(Append(s, e))
          BY <5>2, <5>3 DEF ToSet
        <5> QED
          BY <5>1, <5>4, <5>5, <5>6
      <4>10. IsFiniteSet(Visited \ Known) /\ Cardinality(Visited \ Known) \in Nat
        <5>1. Visited \ Known \in SUBSET Keys
          BY <2>5 DEF IInv, IsDsn
        <5> QED
          BY <5>1, KeysAreFinite
      <4>11. Cardinality((Visited \cup {k}) \ Known) = Cardinality(Visited \ Known) + 1
        BY <4>5, <4>10, FS_AddElement
      <4>12. ss = Append(s, e)
        BY <4>7, <4>8 DEF ss
      <4>13. Settings'
        BY <4>2, <4>6, <4>7, <4>8, <4>9, <4>11, <4>12, <2>4, <2>5, <2>6 DEF Settings
      <4> QED
        BY <4>2, <4>4, <4>13
    <3> QED
      BY <3>1, <3>2
  <2>8. HostsGood' /\ cfg'.Addrs = AddrsOf'
    BY <2>1, <2>7, <1>1, SameDsn DEF IInv, Built
  <2>9. UserGood' /\ cfg'.User = dsn'.user.name /\ cfg'.Password = dsn'.user.password
    BY <2>1, <2>7, <1>1, SameDsn DEF IInv, Built
  <2>10. ~PathBad' /\ cfg'.Database = DatabaseOf'
    BY <2>1, <2>7, <1>1, SameDsn DEF IInv, Built
  <2> QED
    BY <2>1, <2>2, <2>3, <2>7, <2>8, <2>9, <2>10, <1>1, SameDsn, Texts DEF IInv, Built, Refused, Returned, Used
<1> QED
  BY <1>2, <1>3

\* A step that leaves the Config and the loop alone keeps what is built.
LEMMA KeptBuilt ==
    ASSUME Built, Alive, HostsDone, UserDone, PathDone, dsn' = dsn, cfg' = cfg, todo' = todo
    PROVE  Built'
<1>1. Record' /\ Fields' /\ Settings'
  BY SameCfg DEF Built
<1>2. HostsGood' /\ cfg'.Addrs = AddrsOf' /\ UserGood' /\ ~PathBad' /\ cfg'.Database = DatabaseOf'
  BY SameDsn DEF Built
<1>3. cfg'.User = dsn'.user.name /\ cfg'.Password = dsn'.user.password
  BY DEF Built
<1> QED
  BY <1>1, <1>2, <1>3 DEF Built

LEMMA StepParseDone ==
    ASSUME IInv, ParseDone
    PROVE  IInv'
<1>1. pc = "params" /\ kind = Empty /\ Alive /\ ~Configured /\ HostsDone /\ UserDone /\ PathDone /\ todo = {}
      /\ pc' = "parsed" /\ UNCHANGED <<dsn, todo, kind, conf, uses, cfg>>
  BY Texts DEF ParseDone, Go, IInv, Shape, Alive, Configured, ParamsDone, PathDone, UserDone, HostsDone
<1>2. Alive' /\ HostsDone' /\ UserDone' /\ PathDone' /\ ParamsDone' /\ ~Configured'
  BY <1>1 DEF Alive, Configured, ParamsDone, PathDone, UserDone, HostsDone
<1>3. Shape'
  BY <1>1, <1>2, SameDsn DEF IInv, Shape
<1>4. Built'
  BY <1>1, KeptBuilt DEF IInv
<1> QED
  BY <1>1, <1>2, <1>3, <1>4, SameDsn, Texts DEF IInv, Refused, Returned, Used

\* Once every parameter is visited, a field is what the DSN says of it.
LEMMA FieldIs ==
    ASSUME IInv, ParamsDone, NEW k \in Known
    PROVE  /\ Field(k) = Param(k)
           /\ ~Invalid(k)
           /\ Param(k) \in Values(k) \cup {Zero(k)}
<1>1. Fields /\ todo = {} /\ Visited = Given
  BY DEF IInv, Built, Shape, ParamsDone, PathDone, UserDone, HostsDone, Visited
<1>2. DOMAIN cfg.fields = Given \cap Known /\ \A x \in Given \cap Known : cfg.fields[x] = First(x) /\ Parses(x, First(x))
  BY <1>1 DEF Fields
<1> QED
  BY <1>2 DEF Field, Param, Invalid, Given, First, IInv, IsDsn

LEMMA StepReturn ==
    ASSUME IInv, pc = "parsed", NEW c, Return(c), c = <<ConnConfig>> \/ c = <<ConnConfig, PoolConfig>>
    PROVE  IInv'
<1>1. kind = Empty /\ Alive /\ ~Configured /\ HostsDone /\ UserDone /\ PathDone /\ ParamsDone
      /\ UNCHANGED <<dsn, todo, uses>>
  BY Texts DEF Return, IInv, Shape, Alive, Configured, ParamsDone, PathDone, UserDone, HostsDone
<1>2. CASE parseCompression(Field("compress")) = "invalid"
  <2>1. pc' = "failed" /\ kind' = "KindConfig" /\ cfg' = NoConfig /\ UNCHANGED conf
    BY <1>2 DEF Return
  <2>2. Fail("KindConfig")
    BY <2>1, <1>1 DEF Fail
  <2>3. "compress" \in Known
    BY DEF Known
  <2>4. Field("compress") = Param("compress") /\ Param("compress") \in {"none", "LZ4", "gzip", Empty}
    <3>1. Values("compress") = {"none", "LZ4", "gzip"} /\ Zero("compress") = Empty
      BY DEF Values, Zero, Durations, Ints
    <3> QED
      BY <3>1, <2>3, <1>1, FieldIs
  <2>5. Param("compress") = "gzip"
    BY <2>4, <1>2 DEF parseCompression
  <2>6. \A k \in Known : ~Invalid(k)
    BY <1>1, FieldIs
  <2>7. Verdict = "KindConfig"
    BY <2>5, <2>6, <1>1, VerdictIs DEF IInv, Built
  <2> QED
    BY <2>2, <2>7, <1>1, Texts, FailStep
<1>3. CASE parseCompression(Field("compress")) # "invalid"
  <2>1. pc' = "config" /\ conf' = c /\ UNCHANGED <<cfg, kind>>
    BY <1>3 DEF Return
  <2>2. Alive' /\ HostsDone' /\ UserDone' /\ PathDone' /\ ParamsDone' /\ Configured'
    BY <2>1 DEF Alive, Configured, ParamsDone, PathDone, UserDone, HostsDone
  <2>3. Shape'
    BY <2>1, <2>2, <1>1, SameDsn DEF IInv, Shape
  <2>4. Built'
    BY <2>1, <1>1, KeptBuilt DEF IInv
  <2>5. Returned'
    BY <2>1, <1>1, <1>3, SameCfg DEF Returned
  <2> QED
    BY <2>1, <2>2, <2>3, <2>4, <2>5, <1>1, SameDsn, Texts DEF IInv, Refused, Used
<1> QED
  BY <1>2, <1>3

LEMMA StepUse ==
    ASSUME IInv, Connect \/ New
    PROVE  IInv'
<1>1. pc = "config" /\ kind = Empty /\ Alive /\ Configured /\ HostsDone /\ UserDone /\ PathDone /\ ParamsDone
      /\ UNCHANGED <<dsn, todo, cfg, conf>>
  BY Texts DEF Connect, New, IInv, Shape, Alive, Configured, ParamsDone, PathDone, UserDone, HostsDone
<1>2. \/ pc' = "failed" /\ kind' = "pool"
      \/ pc' = "done" /\ kind' = Empty
  BY <1>1 DEF Connect, New
<1>3. Alive' /\ HostsDone' /\ UserDone' /\ PathDone' /\ ParamsDone' /\ Configured'
  BY <1>2 DEF Alive, Configured, ParamsDone, PathDone, UserDone, HostsDone
<1>4. Shape'
  BY <1>1, <1>2, <1>3, SameDsn, Texts DEF IInv, Shape
<1>5. Built'
  BY <1>1, KeptBuilt DEF IInv
<1>6. Returned'
  BY <1>1, <1>3, SameCfg DEF IInv, Returned
<1>7. Used'
  <2>1. CASE Connect
    BY <2>1, <1>1, Texts DEF Connect, Used
  <2>2. CASE New
    BY <2>2, <1>1, Texts DEF New, Used
  <2> QED
    BY <2>1, <2>2
<1> QED
  BY <1>1, <1>3, <1>4, <1>5, <1>6, <1>7, SameDsn DEF IInv, Refused

LEMMA NextIInv == IInv /\ [Next]_vars => IInv'
<1> SUFFICES ASSUME IInv, [Next]_vars
             PROVE  IInv'
  OBVIOUS
<1>1. CASE UNCHANGED vars
  <2>1. UNCHANGED <<dsn, pc, todo, cfg, kind, conf, uses>>
    BY <1>1 DEF vars
  <2> QED
    BY <2>1, SameDsn, SameCfg DEF IInv, Shape, Built, Refused, Returned, Used, Alive, Configured, ParamsDone,
                                  PathDone, UserDone, HostsDone
<1>2. CASE Next
  <2>1. ASSUME ParseDSN \/ ParsePoolDSN PROVE IInv'
    BY <2>1, StepReturn DEF ParseDSN, ParsePoolDSN, PoolConfig
  <2> QED
    BY <1>2, <2>1, StepHosts, StepUser, StepPath, StepParam, StepParseDone, StepUse DEF Next
<1> QED
  BY <1>1, <1>2

LEMMA Invariant == Spec => []IInv
<1> QED
  BY InitIInv, NextIInv, PTL DEF Spec

-----------------------------------------------------------------------------
(* What follows from it. *)

\* Type correctness: an error returns nothing but its kind, and no Config is
\* returned before the loop over the parameters has ended.
THEOREM TypeCorrect == Spec => []TypeOK
<1>1. IInv => TypeOK
  BY DEF IInv, Shape, Refused, TypeOK, Alive, Configured, ParamsDone, PathDone, UserDone, HostsDone
<1> QED
  BY <1>1, Invariant, PTL

\* Which error a DSN meets, and whether it is accepted, does not depend on the
\* order in which the loop of Parse visits its parameters, nor on whether
\* ParseDSN or ParsePoolDSN is called.
THEOREM ErrorIsDeterminedHolds == Spec => []ErrorIsDetermined
<1>1. ASSUME IInv, pc \in {"failed", "done"}, kind # "pool" PROVE kind = Verdict
  <2>1. CASE pc = "failed"
    BY <1>1, <2>1 DEF IInv, Refused, Alive
  <2>2. CASE pc = "done"
    <3>1. kind = Empty /\ ParamsDone /\ Configured /\ HostsGood /\ UserGood /\ ~PathBad
      BY <1>1, <2>2 DEF IInv, Shape, Built, Alive, Configured, ParamsDone, PathDone, UserDone, HostsDone
    <3>2. \A k \in Known : ~Invalid(k)
      BY <1>1, <3>1, FieldIs
    <3>3. "compress" \in Known
      BY DEF Known
    <3>4. Param("compress") # "gzip"
      <4>1. parseCompression(Param("compress")) # "invalid"
        BY <1>1, <3>1, <3>3, FieldIs DEF IInv, Returned
      <4>2. Empty # "gzip"
        BY Texts
      <4> QED
        BY <4>1, <4>2 DEF parseCompression
    <3> QED
      BY <1>1, <3>1, <3>2, <3>4, VerdictIs DEF IInv
  <2> QED
    BY <1>1, <2>1, <2>2
<1>2. IInv => ErrorIsDetermined
  BY <1>1, Zenon DEF ErrorIsDetermined, Verdict
<1> QED
  BY <1>2, Invariant, PTL

LEMMA Connections ==
    ASSUME IInv, pc = "done"
    PROVE  /\ Len(conf) \in {1, 2} /\ conf[1] = ConnConfig
           /\ Len(conf) = 2 =>
                uses.conns = [i \in DOMAIN dsn.hosts |-> Connection(ConnConfig, Addr(dsn.hosts[i]))]
           /\ Len(conf) # 2 => uses.conns = <<Connection(ConnConfig, Addr(dsn.hosts[1]))>>
<1>1. Configured /\ HostsDone /\ cfg.Addrs = AddrsOf
  BY DEF IInv, Built, Shape, Alive, Configured, ParamsDone, PathDone, UserDone, HostsDone
<1>2. 1 \in DOMAIN dsn.hosts
  BY DEF IInv, IsDsn
<1>3. DOMAIN AddrsOf = DOMAIN dsn.hosts /\ \A i \in DOMAIN dsn.hosts : AddrsOf[i] = Addr(dsn.hosts[i])
  BY DEF AddrsOf
<1>4. PICK one : one = ConnConfig
  OBVIOUS
<1>5. PICK two : two = PoolConfig
  OBVIOUS
<1>6. conf = <<one>> \/ conf = <<one, two>>
  BY <1>1, <1>4, <1>5 DEF IInv, Returned
<1>7. Len(conf) \in {1, 2} /\ conf[1] = one /\ (Len(conf) = 2 => conf[2] = two)
  BY <1>6
<1>8. two.Addrs = AddrsOf
  BY <1>1, <1>5 DEF PoolConfig
<1>9. one.Addr = Addr(dsn.hosts[1])
  BY <1>1, <1>2, <1>3, <1>4 DEF ConnConfig
<1>10. ASSUME Len(conf) = 2
       PROVE  uses.conns = [i \in DOMAIN dsn.hosts |-> Connection(one, Addr(dsn.hosts[i]))]
  <2>1. uses.conns = [i \in DOMAIN conf[2].Addrs |-> Connection(conf[1], conf[2].Addrs[i])]
    BY <1>10 DEF IInv, Used
  <2>2. uses.conns = [i \in DOMAIN AddrsOf |-> Connection(one, AddrsOf[i])]
    BY <2>1, <1>7, <1>8, <1>10
  <2> QED
    BY <2>2, <1>3
<1>11. ASSUME Len(conf) # 2
       PROVE  uses.conns = <<Connection(one, Addr(dsn.hosts[1]))>>
  BY <1>7, <1>9, <1>11 DEF IInv, Used
<1> QED
  BY <1>4, <1>7, <1>10, <1>11

\* Whatever the order and the entry point, every connection is made with what
\* the DSN says, with the defaults for what it does not say, and each parameter
\* that is not known is a setting, once and with its first value.
THEOREM UsedAsWrittenHolds == Spec => []UsedAsWritten
<1>1. ASSUME IInv, pc = "done" PROVE UsedAsWritten
  <2>1. ParamsDone /\ PathDone /\ UserDone /\ Configured /\ todo = {} /\ Visited = Given
    BY <1>1 DEF IInv, Shape, Visited, Alive, Configured, ParamsDone, PathDone, UserDone, HostsDone
  <2>2. /\ ~PathBad /\ cfg.Database = DatabaseOf
        /\ cfg.User = dsn.user.name /\ cfg.Password = dsn.user.password /\ Settings
    BY <1>1, <2>1 DEF IInv, Built, PathDone, UserDone, HostsDone
  <2>3. "compress" \in Known /\ "dial_timeout" \in Known
    BY DEF Known, Durations
  <2>4. Field("compress") = Param("compress") /\ Field("dial_timeout") = Param("dial_timeout")
    BY <1>1, <2>1, <2>3, FieldIs
  <2>5. Settled = {<<k, dsn.params[k][1]>> : k \in DOMAIN dsn.params \ Known}
    BY <2>1 DEF Settled, Given, First
  <2>6. ConnConfig.Settings = cfg.Settings /\ ConnConfig.User = cfg.User /\ ConnConfig.Password = cfg.Password
        /\ ConnConfig.Database = cfg.Database /\ ConnConfig.Compression = parseCompression(Field("compress"))
        /\ ConnConfig.timeouts["dial_timeout"] = Field("dial_timeout")
    BY DEF ConnConfig
  <2>7. ASSUME NEW a, NEW c, c = Connection(ConnConfig, a)
        PROVE  /\ c.addr = a
               /\ c.user = Or(dsn.user.name, "default") /\ c.password = dsn.user.password
               /\ c.database = IF dsn.path = << >> \/ dsn.path[1] = Empty THEN "default" ELSE dsn.path[1]
               /\ c.compression = IF Param("compress") = "LZ4" THEN "enabled" ELSE "disabled"
               /\ c.dial = Param("dial_timeout")
               /\ c.settings = {<<k, dsn.params[k][1]>> : k \in DOMAIN dsn.params \ Known}
    <3>1. /\ c.addr = a /\ c.user = Or(ConnConfig.User, "default") /\ c.password = ConnConfig.Password
          /\ c.database = Or(ConnConfig.Database, "default") /\ c.compression = ConnConfig.Compression
          /\ c.dial = ConnConfig.timeouts["dial_timeout"] /\ c.settings = ToSet(ConnConfig.Settings)
      BY <2>7 DEF Connection
    <3>2. Or(DatabaseOf, "default") = IF dsn.path = << >> \/ dsn.path[1] = Empty THEN "default" ELSE dsn.path[1]
      BY <1>1, <2>2, PathIs DEF IInv, Or
    <3>3. parseCompression(Param("compress")) = IF Param("compress") = "LZ4" THEN "enabled" ELSE "disabled"
      <4>1. parseCompression(Param("compress")) # "invalid"
        BY <1>1, <2>1, <2>4 DEF IInv, Returned
      <4>2. "LZ4" # Empty
        BY Texts
      <4> QED
        BY <4>1, <4>2 DEF parseCompression
    <3>4. c.settings = Settled
      BY <3>1, <2>6, <2>2 DEF Settings
    <3> QED
      BY <3>1, <3>2, <3>3, <3>4, <2>2, <2>4, <2>5, <2>6
  <2>8. /\ Len(conf) \in {1, 2} /\ conf[1] = ConnConfig
        /\ Len(conf) = 2 =>
                uses.conns = [i \in DOMAIN dsn.hosts |-> Connection(ConnConfig, Addr(dsn.hosts[i]))]
        /\ Len(conf) # 2 => uses.conns = <<Connection(ConnConfig, Addr(dsn.hosts[1]))>>
    BY <1>1, Connections
  <2>9. Len(conf[1].Settings) = Cardinality(DOMAIN dsn.params \ Known)
    BY <2>1, <2>2, <2>6, <2>8 DEF Settings, Given
  <2>10. ASSUME NEW c \in ToSet(uses.conns) PROVE \E a : c = Connection(ConnConfig, a)
    BY <2>8 DEF ToSet
  <2>11. {<<i, uses.conns[i].addr.name, uses.conns[i].addr.port>> : i \in DOMAIN uses.conns}
              = IF Len(conf) = 2 THEN Addresses ELSE {a \in Addresses : a[1] = 1}
    <3> DEFINE At(i) == <<i, dsn.hosts[i].name, IF dsn.hosts[i].port = Empty THEN "9000" ELSE dsn.hosts[i].port>>
               Shown(i) == <<i, uses.conns[i].addr.name, uses.conns[i].addr.port>>
    <3>1. Addresses = {At(i) : i \in DOMAIN dsn.hosts}
      BY DEF Addresses
    <3>2. \A h : Addr(h).name = h.name /\ Addr(h).port = IF h.port = Empty THEN "9000" ELSE h.port
      BY DEF Addr, Dial
    <3>3. ASSUME NEW i \in DOMAIN dsn.hosts, i \in DOMAIN uses.conns,
                 uses.conns[i] = Connection(ConnConfig, Addr(dsn.hosts[i]))
          PROVE  Shown(i) = At(i)
      <4>1. uses.conns[i].addr = Addr(dsn.hosts[i])
        BY <3>3, <2>7
      <4> QED
        BY <4>1, <3>2
    <3>4. 1 \in DOMAIN dsn.hosts
      BY <1>1 DEF IInv, IsDsn
    <3>5. CASE Len(conf) = 2
      <4>1. DOMAIN uses.conns = DOMAIN dsn.hosts
            /\ \A i \in DOMAIN dsn.hosts : uses.conns[i] = Connection(ConnConfig, Addr(dsn.hosts[i]))
        BY <2>8, <3>5
      <4>2. \A i \in DOMAIN dsn.hosts : Shown(i) = At(i)
        BY <4>1, <3>3
      <4> HIDE DEF Shown, At
      <4>3. {Shown(i) : i \in DOMAIN uses.conns} = {At(i) : i \in DOMAIN dsn.hosts}
        BY <4>1, <4>2
      <4> QED
        BY <4>3, <3>1, <3>5 DEF Shown
    <3>6. CASE Len(conf) # 2
      <4>1. DOMAIN uses.conns = {1} /\ uses.conns[1] = Connection(ConnConfig, Addr(dsn.hosts[1]))
        BY <2>8, <3>6
      <4>2. Shown(1) = At(1)
        BY <4>1, <3>3, <3>4
      <4>3. \A i : At(i)[1] = i
        OBVIOUS
      <4> HIDE DEF Shown, At
      <4>4. {Shown(i) : i \in DOMAIN uses.conns} = {At(1)}
        BY <4>1, <4>2
      <4>5. {a \in Addresses : a[1] = 1} = {At(1)}
        BY <3>1, <3>4, <4>3
      <4> QED
        BY <4>4, <4>5, <3>6 DEF Shown
    <3> QED
      BY <3>5, <3>6
  <2> QED
    BY <2>7, <2>9, <2>10, <2>11 DEF UsedAsWritten
<1>2. IInv => UsedAsWritten
  BY <1>1 DEF UsedAsWritten
<1> QED
  BY <1>2, Invariant, PTL

\* A pool is made for every size that is an int32 and not negative, with that
\* size or the default, and none without room, for every width of an integer.
THEOREM PoolHasRoomHolds == Spec => []PoolHasRoom
<1>1. ASSUME IInv PROVE PoolHasRoom
  <2> DEFINE H == N32 \div 2
             n == Atoi(Param("pool_max_conns"))
  <2>1. H \in Nat /\ H >= 2 /\ N32 = H + H /\ N32 \in Nat
    BY Width
  <2>2. /\ Int32(2) \in Int /\ Int32(N32 + 2) \in Int
        /\ Int32(0) = 0 /\ Int32(-1) = -1 /\ Int32(N32) = 0
        /\ H = 2 => Int32(2) < 0 /\ Int32(N32 + 2) < 0
        /\ H > 2 => Int32(2) = 2 /\ Int32(N32 + 2) = 2
    BY Sizes
  <2> HIDE DEF H
  <2>3. n \in {-1, 0, 2, N32, N32 + 2}
    BY DEF Atoi
  <2>4. Int32(n) \in Int /\ (n \in 0..H - 1 => Int32(n) = n) /\ (n = -1 => Int32(n) < 0)
    <3>1. CASE n = -1
      BY <3>1, <2>1, <2>2
    <3>2. CASE n = 0
      BY <3>2, <2>1, <2>2
    <3>3. CASE n = 2
      BY <3>3, <2>1, <2>2
    <3>4. CASE n = N32
      BY <3>4, <2>1, <2>2
    <3>5. CASE n = N32 + 2
      BY <3>5, <2>1, <2>2
    <3> QED
      BY <2>3, <3>1, <3>2, <3>3, <3>4, <3>5
  <2>5. maxSize(n) = IF Int32(n) = 0 THEN 1000 ELSE Int32(n)
    BY DEF maxSize
  <2>6. ASSUME kind = "pool" \/ (pc = "done" /\ Len(conf) = 2)
        PROVE  conf[2].MaxConns = n
    <3>1. Len(conf) = 2 /\ Configured /\ ParamsDone
      BY <2>6, <1>1, Texts DEF IInv, Used, Shape, Alive, Configured, ParamsDone, PathDone, UserDone, HostsDone
    <3>2. conf[2] = PoolConfig
      BY <3>1, <1>1 DEF IInv, Returned
    <3>3. "pool_max_conns" \in Known
      BY DEF Known, Ints
    <3>4. Field("pool_max_conns") = Param("pool_max_conns")
      BY <3>1, <3>3, <1>1, FieldIs
    <3> QED
      BY <3>2, <3>4 DEF PoolConfig
  <2> HIDE DEF n
  <2>7. kind = "pool" => maxSize(n) < 1
    BY <2>6, <1>1 DEF IInv, Used
  <2>8. pc = "done" /\ Len(conf) = 2 => ~(maxSize(n) < 1) /\ uses.size = maxSize(n)
    BY <2>6, <1>1 DEF IInv, Used
  <2>9. kind = "pool" => n \notin 0..H - 1
    BY <2>1, <2>4, <2>5, <2>7
  <2>10. pc = "done" /\ Len(conf) = 2 => uses.size > 0 /\ (n \in 0..H - 1 => uses.size = IF n = 0 THEN 1000 ELSE n)
    BY <2>1, <2>4, <2>5, <2>8
  <2> QED
    BY <2>9, <2>10 DEF PoolHasRoom, H, n
<1> QED
  BY <1>1, Invariant, PTL

=============================================================================
