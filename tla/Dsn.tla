-------------------------------- MODULE Dsn --------------------------------
(***************************************************************************)
(* From a DSN to what a connection or a pool uses: dsn.Parse, ParseDSN and *)
(* ParsePoolDSN, then the defaults that Connect and New put in.            *)
(*                                                                         *)
(* A DSN is a record of its pieces.  A host is a "name", a bracketed "v6"  *)
(* or a "bare6", perhaps with a colon and a port; a path is the sequence   *)
(* of what its slashes separate; a parameter has a sequence of values.     *)
(* "long" exceeds maxFieldBytes, "ctl" has a control character and "nl" a  *)
(* line feed.  The parameters are in a map: Go visits them in any order.   *)
(***************************************************************************)
EXTENDS Integers, Sequences, FiniteSets, SequencesExt

CONSTANTS
    maxHosts,   \* 100
    N32,        \* 2^32, the values of an int32
    Rich,       \* bound: the parameters of DSNs with several of them ...
    MaxParams   \* ... and how many

\* What a field holds that was not set, and Error.Kind of no error.
Empty == ""

Durations == {"dial_timeout", "read_timeout", "write_timeout", "health_check_interval"}
Ints == {"pool_max_conns", "pool_min_conns"}
Known == Durations \cup Ints \cup {"compress", "secure"}

ASSUME DsnAssumption ==
    /\ maxHosts \in Nat \ {0} /\ N32 \in Nat /\ N32 >= 4 /\ N32 % 2 = 0
    /\ Rich \subseteq Known \cup {"s1", "s2"} /\ MaxParams \in Nat

VARIABLES
    dsn,    \* the DSN
    pc,     \* where Parse is, then what was returned
    todo,   \* the parameters the loop has not visited
    cfg,    \* the dsn.Config
    kind,   \* of the error
    conf,   \* what ParseDSN or ParsePoolDSN returns
    uses    \* what Connect or New makes of it

vars == <<dsn, pc, todo, cfg, kind, conf, uses>>

-----------------------------------------------------------------------------
(* DSNs. *)

HostTokens ==
    {h \in [form : {"name", "v6", "bare6"}, name : {Empty, "a", "b", "::1"}, colon : BOOLEAN, port : {Empty, "p"}] :
        /\ h.form # "name" <=> h.name = "::1"
        /\ h.colon => h.form # "bare6"
        /\ ~h.colon => h.port = Empty /\ h.name # "b"}

\* Brackets among several hosts are left out: versions of net/url differ there.
HostLists ==
    {h \in SeqOf(HostTokens, maxHosts + 1) \ {<< >>} :
        Len(h) > 1 => \A i \in DOMAIN h : h[i].form # "v6"}

Users == [name : {Empty, "u", "long"}, password : {Empty, "pw", "long"}]
Segments == {Empty, "db", "..", "ctl", "nl", "long"}

Values(k) ==
    CASE k \in Durations -> {"0s", "1s", "1x"}
      [] k \in Ints -> {"-1", "0", "2", "N32", "N32+2", "x"}
      [] k = "compress" -> {"none", "LZ4", "gzip"}
      [] k = "secure" -> {"true", "yes"}
      [] OTHER -> {"v"}

\* Several parameters, or one that may be there twice.
Several ==
    UNION {{[k \in ks |-> <<f[k]>>] :
              f \in {g \in [ks -> UNION {Values(k) : k \in ks}] : \A k \in ks : g[k] \in Values(k)}} :
           ks \in {s \in SUBSET Rich : Cardinality(s) <= MaxParams}}
OneKey ==
    UNION {{[x \in {k} |-> vs] : vs \in SeqOf(Values(k), 2) \ {<< >>}} : k \in Known \cup {"s1"}}

Plain == [url |-> TRUE, scheme |-> "clickhouse", hosts |-> <<[form |-> "name", name |-> "a", colon |-> TRUE, port |-> "p"]>>,
          user |-> [name |-> Empty, password |-> Empty], path |-> << >>, params |-> << >>]

Dsns ==
    {Plain, [Plain EXCEPT !.url = FALSE], [Plain EXCEPT !.scheme = "http"]}
    \cup {[Plain EXCEPT !.hosts = h] : h \in HostLists}
    \cup {[Plain EXCEPT !.user = u, !.path = p] : u \in Users, p \in SeqOf(Segments, 3)}
    \cup {[Plain EXCEPT !.params = q] : q \in Several \cup OneKey}
    \cup {[Plain EXCEPT !.path = <<s>>, !.params = q] : s \in {"db", ".."}, q \in OneKey}

-----------------------------------------------------------------------------
(* net/url, net and strconv. *)

HasColon(h) == h.colon \/ h.form # "name"

\* url.Parse takes the hosts for one: its text from the last colon on, unless
\* that is between brackets, must be a port.
ValidOptionalPort(hosts) ==
    \/ hosts[Len(hosts)].colon
    \/ hosts[Len(hosts)].form # "name"
    \/ \A i \in DOMAIN hosts : ~HasColon(hosts[i])

\* net.SplitHostPort: brackets need a port, a bare address has too many colons.
Splits(h) == h.colon /\ h.form # "bare6"

Dial(name, port) == [name |-> name, port |-> port]

Parses(k, v) ==
    CASE k \in Durations -> v # "1x"
      [] k \in Ints -> v # "x"
      [] k = "secure" -> v = "true"
      [] OTHER -> TRUE
Atoi(v) == CASE v = "-1" -> -1 [] v = "2" -> 2 [] v = "N32" -> N32 [] v = "N32+2" -> N32 + 2 [] OTHER -> 0

-----------------------------------------------------------------------------
(* dsn.Parse. *)

NoConfig == [Addrs |-> << >>, User |-> Empty, Password |-> Empty, Database |-> Empty, fields |-> << >>, Settings |-> << >>]

Init ==
    /\ dsn \in Dsns
    /\ pc = "url" /\ todo = DOMAIN dsn.params
    /\ cfg = NoConfig /\ kind = Empty /\ conf = << >> /\ uses = << >>

\* Fault: what is parsed so far is returned with the error.
FailPartly(k) ==
    /\ pc' = "failed" /\ kind' = k
    /\ UNCHANGED <<dsn, todo, cfg, conf, uses>>

\* return Config{}, &Error{Kind: k, ...}
Fail(k) ==
    /\ pc' = "failed" /\ kind' = k
    /\ cfg' = NoConfig
    /\ UNCHANGED <<dsn, todo, conf, uses>>

Go(next) ==
    /\ pc' = next
    /\ UNCHANGED <<dsn, todo, kind, conf, uses>>

\* A segment without a name, or that does not split.
BadHost(h) == h.name = Empty \/ (HasColon(h) /\ ~Splits(h))

\* Fault: only a host without a colon gets the port.
AddrNoColon(h) == Dial(h.name, IF ~h.colon THEN "9000" ELSE h.port)

Addr(h) == Dial(h.name, IF h.port = Empty THEN "9000" ELSE h.port)

ParseHosts ==
    /\ pc = "url"
    /\ LET hosts == dsn.hosts
           flaw == IF ~dsn.url \/ ~ValidOptionalPort(hosts) THEN "KindParse"
                   ELSE IF dsn.scheme # "clickhouse" THEN "KindScheme"
                   ELSE IF Len(hosts) > maxHosts THEN "KindSecurity"
                   ELSE IF \E i \in DOMAIN hosts : BadHost(hosts[i]) THEN "KindParse"
                   ELSE Empty
       IN  \/ flaw # Empty /\ Fail(flaw)
           \/ /\ flaw = Empty
              /\ cfg' = [cfg EXCEPT !.Addrs = [i \in DOMAIN hosts |-> Addr(hosts[i])]]
              /\ Go("user")

ParseUser ==
    /\ pc = "user"
    /\ IF "long" \in {dsn.user.name, dsn.user.password} THEN Fail("KindSecurity")
       ELSE /\ cfg' = [cfg EXCEPT !.User = dsn.user.name, !.Password = dsn.user.password]
            /\ Go("path")

\* Fault: only one slash is cut off.
TrimOne(path) ==
    IF path # << >> /\ path[Len(path)] = Empty THEN SubSeq(path, 1, Len(path) - 1) ELSE path

\* One slash is cut off in front and all of them at the end.
Trim(path) ==
    LET named == {i \in DOMAIN path : path[i] # Empty}
    IN  SubSeq(path, 1, CHOOSE n \in 0..Len(path) : n \in named \cup {0} /\ \A i \in named : i <= n)

containsPathTraversal(db) == Len(db) > 1 \/ ".." \in ToSet(db)
containsControlChars(db) == "ctl" \in ToSet(db)

ParsePath ==
    /\ pc = "path"
    /\ LET db == Trim(dsn.path) IN
       IF \/ containsPathTraversal(db) \/ containsControlChars(db)
          \/ "long" \in ToSet(db)
       THEN Fail("KindSecurity")
       ELSE /\ cfg' = [cfg EXCEPT !.Database = IF db = << >> THEN Empty ELSE db[1]]
            /\ Go("params")

\* One turn of the loop over u.Query(): the first value counts, and what has no
\* case is a setting.
ParseParam(k) ==
    LET val == dsn.params[k][1] IN
    /\ pc = "params" /\ k \in todo
    /\ IF ~Parses(k, val) THEN Fail("KindParse")
       ELSE /\ cfg' = IF k \in Known
                      THEN [cfg EXCEPT !.fields = [x \in DOMAIN @ \cup {k} |-> IF x = k THEN val ELSE @[x]]]
                      ELSE [cfg EXCEPT !.Settings = Append(@, <<k, val>>)]
            /\ todo' = todo \ {k}
            /\ UNCHANGED <<dsn, pc, kind, conf, uses>>

ParseDone == pc = "params" /\ todo = {} /\ UNCHANGED cfg /\ Go("parsed")

-----------------------------------------------------------------------------
(* ParseDSN and Connect, ParsePoolDSN and New. *)

\* A field that no parameter has set.
Zero(k) == CASE k \in Durations -> "0s" [] k \in Ints -> "0" [] k = "secure" -> "false" [] OTHER -> Empty
Field(k) == IF k \in DOMAIN cfg.fields THEN cfg.fields[k] ELSE Zero(k)

\* Case does not matter; gzip is no compression.
parseCompression(s) ==
    CASE s \in {Empty, "none"} -> "disabled" [] s = "LZ4" -> "enabled" [] OTHER -> "invalid"

ConnConfig ==
    [Addr |-> cfg.Addrs[1], User |-> cfg.User, Password |-> cfg.Password, Database |-> cfg.Database,
     Compression |-> parseCompression(Field("compress")),
     timeouts |-> [k \in {"dial_timeout", "read_timeout", "write_timeout"} |-> Field(k)],
     Settings |-> cfg.Settings, TLSConfig |-> "nil"]

Return(c) ==
    /\ UNCHANGED <<dsn, todo, uses>>
    /\ IF parseCompression(Field("compress")) = "invalid"
       THEN pc' = "failed" /\ kind' = "KindConfig" /\ cfg' = NoConfig /\ UNCHANGED conf
       ELSE pc' = "config" /\ conf' = c /\ UNCHANGED <<cfg, kind>>

ParseDSN == pc = "parsed" /\ Return(<<ConnConfig>>)

ParsePoolDSN ==
    /\ pc = "parsed"
    /\ Return(<<ConnConfig, [Addrs |-> cfg.Addrs, MaxConns |-> Atoi(Field("pool_max_conns")),
                             HealthCheckInterval |-> Field("health_check_interval")]>>)

Or(s, default) == IF s = Empty THEN default ELSE s

\* What Connect reads of its Config; the other two timeouts are not used.
Connection(c, addr) ==
    [addr |-> addr, user |-> Or(c.User, "default"), password |-> c.Password,
     database |-> Or(c.Database, "default"), compression |-> c.Compression,
     dial |-> c.timeouts["dial_timeout"], settings |-> ToSet(c.Settings), tls |-> c.TLSConfig # "nil"]

Connect ==
    /\ pc = "config" /\ Len(conf) = 1
    /\ uses' = [conns |-> <<Connection(conf[1], conf[1].Addr)>>]
    /\ pc' = "done"
    /\ UNCHANGED <<dsn, todo, cfg, kind, conf>>

Int32(n) == ((n + N32 \div 2) % N32) - N32 \div 2

\* Fault: there is no default.
maxSizeAsGiven(n) == Int32(n)

\* int32(MaxConns), and 1000 for 0.
maxSize(n) == IF Int32(n) = 0 THEN 1000 ELSE Int32(n)

\* One sub-pool for each address; puddle refuses one without room.
New ==
    LET size == maxSize(conf[2].MaxConns) IN
    /\ pc = "config" /\ Len(conf) = 2
    /\ IF size < 1
       THEN pc' = "failed" /\ kind' = "pool" /\ UNCHANGED uses
       ELSE /\ uses' = [conns |-> [i \in DOMAIN conf[2].Addrs |-> Connection(conf[1], conf[2].Addrs[i])],
                        size |-> size, health |-> conf[2].HealthCheckInterval # "0s"]
            /\ pc' = "done" /\ UNCHANGED kind
    /\ UNCHANGED <<dsn, todo, cfg, conf>>

Next ==
    \/ ParseHosts \/ ParseUser \/ ParsePath \/ (\E k \in Known \cup {"s1", "s2"} : ParseParam(k)) \/ ParseDone
    \/ ParseDSN \/ ParsePoolDSN \/ Connect \/ New

Spec == Init /\ [][Next]_vars

-----------------------------------------------------------------------------
(* Properties. *)

Param(k) == IF k \in DOMAIN dsn.params THEN dsn.params[k][1] ELSE Zero(k)
Addresses == {<<i, dsn.hosts[i].name, IF dsn.hosts[i].port = Empty THEN "9000" ELSE dsn.hosts[i].port>> : i \in DOMAIN dsn.hosts}
Invalid(k) == k \in DOMAIN dsn.params /\ ~Parses(k, dsn.params[k][1])

\* Types: of an error nothing is returned but its kind, and the loop is over
\* before a Config is returned.
TypeOK ==
    /\ pc \in {"url", "user", "path", "params", "parsed", "config", "done", "failed"}
    /\ kind # Empty <=> pc = "failed"
    /\ pc = "failed" /\ kind # "pool" => conf = << >> /\ cfg = NoConfig
    /\ pc \in {"parsed", "config", "done"} => todo = {}

\* Which error a DSN meets does not depend on the order in which Go visits its
\* parameters: what is wrong comes in the order of the URL, and every error
\* among the parameters is of one kind.  A DSN without a flaw is accepted.
ErrorIsDetermined ==
    pc \in {"failed", "done"} /\ kind # "pool" =>
        kind = IF ~dsn.url \/ ~ValidOptionalPort(dsn.hosts) THEN "KindParse"
               ELSE IF dsn.scheme # "clickhouse" THEN "KindScheme"
               ELSE IF Len(dsn.hosts) > maxHosts THEN "KindSecurity"
               ELSE IF \E h \in ToSet(dsn.hosts) :
                       h.name = Empty \/ h.form = "bare6" \/ (h.form = "v6" /\ ~h.colon)
                    THEN "KindParse"
               ELSE IF \/ "long" \in {dsn.user.name, dsn.user.password}
                       \/ \E i \in DOMAIN dsn.path :
                             \/ dsn.path[i] \in {"..", "ctl", "long"}
                             \/ i > 1 /\ dsn.path[i] # Empty
                    THEN "KindSecurity"
               ELSE IF \E k \in Known : Invalid(k) THEN "KindParse"
               ELSE IF Param("compress") = "gzip" THEN "KindConfig"
               ELSE Empty

\* Whatever the order and the entry point, every connection is made with what
\* the DSN says: user, password, database, compression and dial timeout with
\* their defaults, and as settings each parameter that is not known, once, with
\* its first value.  A pool has a sub-pool for each host, in their order; a
\* single connection takes the first.
UsedAsWritten ==
    pc = "done" =>
        /\ {<<i, uses.conns[i].addr.name, uses.conns[i].addr.port>> : i \in DOMAIN uses.conns}
              = IF Len(conf) = 2 THEN Addresses ELSE {a \in Addresses : a[1] = 1}
        /\ \A c \in ToSet(uses.conns) :
              /\ c.user = Or(dsn.user.name, "default") /\ c.password = dsn.user.password
              /\ c.database = IF dsn.path = << >> \/ dsn.path[1] = Empty THEN "default" ELSE dsn.path[1]
              /\ c.compression = IF Param("compress") = "LZ4" THEN "enabled" ELSE "disabled"
              /\ c.dial = Param("dial_timeout")
              /\ c.settings = {<<k, dsn.params[k][1]>> : k \in DOMAIN dsn.params \ Known}
        /\ Len(conf[1].Settings) = Cardinality(DOMAIN dsn.params \ Known)

\* A pool is made for every size that is an int32 and not negative, with that
\* size or, for 0, 1000; none is ever made that has no room.
PoolHasRoom ==
    LET n == Atoi(Param("pool_max_conns")) IN
    /\ kind = "pool" => n \notin 0..N32 \div 2 - 1
    /\ pc = "done" /\ Len(conf) = 2 =>
          /\ uses.size > 0
          /\ n \in 0..N32 \div 2 - 1 => uses.size = IF n = 0 THEN 1000 ELSE n

\* "secure": a DSN that asks for a secure connection gets one.
SecureIsHeeded ==
    pc = "done" /\ Param("secure") = "true" => \A c \in ToSet(uses.conns) : c.tls

\* The format "host[:port][,host2[:port]]...": named hosts, each with or without
\* a port, are accepted.
HostListAccepted ==
    pc = "failed" /\ dsn = [Plain EXCEPT !.hosts = dsn.hosts] /\ Len(dsn.hosts) <= maxHosts =>
        \E h \in ToSet(dsn.hosts) : h.name = Empty \/ h.form # "name"

=============================================================================
