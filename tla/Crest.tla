------------------------------- MODULE Crest -------------------------------
(***************************************************************************)
(* The HTTP server of the REST backend (utils/crest): resources are        *)
(* registered under path patterns before the server is bound, and requests *)
(* are routed to them, with their bodies, by the callback that libmicrohttpd*)
(* calls from its one thread, for several connections in turn.             *)
(*                                                                         *)
(* A pattern or URL is a sequence of segments, split at each '/'.  The tree *)
(* of struct router is given by its nodes, each named by the edges that    *)
(* lead to it.  Of a body only byte counts are kept.                       *)
(***************************************************************************)
EXTENDS Integers, Sequences, FiniteSets

CONSTANTS
    Wildcards,  \* tokens that begin with ':'
    Stars,      \* tokens that begin with '*'
    Conns,      \* connections
    Resources,  \* what crest_add is called with: [path, ops, checks]
    Requests,   \* [url, method, length, bytes]: length is the header's value
    None

Methods == {"GET", "PUT", "POST", "DELETE", "unsupported"}
Checks == {"authorized", "forbidden", "accepts", "exists"}

ASSUME ResourcesAssumption ==
    /\ None \notin Resources
    /\ \A res \in Resources :
        /\ res.path \in Seq(STRING)
        /\ res.ops \subseteq Methods \ {"unsupported"} /\ res.checks \subseteq Checks
ASSUME RequestsAssumption ==
    \A r \in Requests :
        r.url \in Seq(STRING) /\ r.method \in Methods /\ r.length \in Int /\ r.bytes \in Nat

VARIABLES
    exact, star,   \* the resources in the nodes of the router
    wired,         \* nodes that exist: their edges from the root
    started,       \* crest->started
    cpc, req,      \* per connection: where MHD is, and its request
    body,          \* per connection: *args
    left,          \* per connection: bytes that MHD has not passed on
    resp,          \* per connection: the answer
    added          \* history: resources that crest_add accepted

routerVars == <<exact, star, wired, started, added>>
connVars == <<cpc, req, body, left, resp>>
crestVars == <<routerVars, connVars>>

-----------------------------------------------------------------------------
(* Paths and the router.                                                    *)

\* path_new: empty segments are skipped, and a '?' ends the path.
path_new(url) ==
    LET taken[i \in 0 .. Len(url)] ==
            IF i = 0 THEN <<>>
            ELSE IF url[i] = "" \/ \E j \in 1 .. i : url[j] = "?" THEN taken[i - 1]
            ELSE Append(taken[i - 1], url[i])
    IN  taken[Len(url)]

\* path_token_type, as the edge that the token stands for.
Edge(token) == IF token \in Wildcards THEN ":" ELSE token

\* The node where router_add ends: a star ends the walk, whatever follows it.
Node(path) ==
    LET stars == {i \in 1 .. Len(path) : path[i] \in Stars}
        end == IF stars = {} THEN Len(path) ELSE (CHOOSE i \in stars : \A j \in stars : i <= j) - 1
    IN  [edges |-> [i \in 1 .. end |-> Edge(path[i])], star |-> stars # {}]

\* Faulty variant: a const that leads nowhere hides the wildcard.
router_backtracks_not == FALSE

router_backtracks == TRUE

At(f, x) == IF x \in DOMAIN f THEN f[x] ELSE None
Or(x, y) == IF x # None THEN x ELSE y

\* router_route from the node with the given edges, when it has returned route
\* from the nodes below: by the head of the path, by a wildcard, by a star.
RouteFrom(route, path, edges) ==
    LET const == Append(edges, path[Len(edges) + 1])
        wild == IF const \in wired /\ ~router_backtracks THEN const ELSE Append(edges, ":")
        below(node) == IF node \in wired THEN route[node] ELSE None
    IN  Or(IF Len(edges) < Len(path) THEN Or(below(const), below(wild)) ELSE At(exact, edges),
           At(star, edges))

\* router_route from the root, over the nodes that are not deeper than the path.
router_route(path) ==
    LET route[edges \in {e \in wired : Len(e) <= Len(path)}] == RouteFrom(route, path, edges)
    IN  route[<<>>]

NoBody == [cap |-> 0, pos |-> 0]

CrestInit ==
    /\ exact = <<>> /\ star = <<>> /\ wired = {<<>>}
    /\ started = FALSE
    /\ cpc = [c \in Conns |-> "idle"]
    /\ req = [c \in Conns |-> None]
    /\ body = [c \in Conns |-> NoBody]
    /\ left = [c \in Conns |-> 0]
    /\ resp = [c \in Conns |-> None]
    /\ added = {}

Prefixes(s) == {[j \in 1 .. i |-> s[j]] : i \in 0 .. Len(s)}

With(f, x, y) == [z \in DOMAIN f \cup {x} |-> IF z = x THEN y ELSE f[z]]

Taken(node) == node.edges \in DOMAIN (IF node.star THEN star ELSE exact)

\* crest_add and router_add: the nodes on the way are made first.
crest_add(res) ==
    /\ ~started
    /\ LET node == Node(path_new(res.path))
       IN  /\ wired' = wired \cup Prefixes(node.edges)
           /\ IF Taken(node) THEN UNCHANGED <<exact, star, added>>
              ELSE /\ IF node.star
                      THEN star' = With(star, node.edges, res) /\ UNCHANGED exact
                      ELSE exact' = With(exact, node.edges, res) /\ UNCHANGED star
                   /\ added' = added \cup {res}
    /\ UNCHANGED <<started, connVars>>

\* crest_bind; from here on crest_add returns false.
crest_bind ==
    /\ ~started
    /\ started' = TRUE
    /\ UNCHANGED <<exact, star, wired, added, connVars>>

-----------------------------------------------------------------------------
(* Requests.                                                                *)

\* Faulty variant: the existence of the resource is looked at for PUT only.
Suits_put(method, exists) == method = "PUT" => ~exists

\* Whether crest_process hands the method to its callback.
Suits(method, exists) ==
    IF exists THEN method # "PUT" ELSE method \in {"PUT", "POST"}

Code(method, exists) ==
    CASE method = "GET" -> 200 [] method = "PUT" -> 201 [] method = "DELETE" -> 204
      [] method = "POST" -> IF exists THEN 204 ELSE 201

\* crest_process and crest_call_cb: the first reason to refuse decides.  passed
\* and result are the answers of the resource's callbacks; a callback that is
\* not there has nothing to say.
crest_process(r, res, passed, result) ==
    LET ok(check) == check \in res.checks => check \in passed
        refused(code) == [code |-> code, ran |-> FALSE]
    IN  IF res = None THEN refused(404)
        ELSE IF r.method \notin res.ops THEN refused(501)
        ELSE IF ~ok("authorized") THEN refused(401)
        ELSE IF ~ok("forbidden") THEN refused(403)
        ELSE IF ~ok("accepts") THEN refused(406)
        ELSE IF ~Suits(r.method, ok("exists"))
             THEN refused(IF ok("exists") THEN 409 ELSE 404)
        ELSE [code |-> CASE result = "ok" -> Code(r.method, ok("exists"))
                         [] result = "err" -> 500
                         [] result = "conflict" -> 409,
              ran |-> TRUE]

\* The headers of a request have arrived.
request(c, r) ==
    /\ started
    /\ cpc[c] = "idle"
    /\ cpc' = [cpc EXCEPT ![c] = "headers"]
    /\ req' = [req EXCEPT ![c] = r]
    /\ left' = [left EXCEPT ![c] = r.bytes]
    /\ UNCHANGED <<routerVars, body, resp>>

\* microhttpd_cb goes on to crest_process, and frees the body.  The handler is
\* told that there are as many bytes as the header announced.
Answer(c) ==
    LET res == router_route(path_new(req[c].url))
    IN  \E passed \in SUBSET (IF res = None THEN {} ELSE res.checks),
           result \in {"ok", "err", "conflict"} :
            /\ resp' = [resp EXCEPT ![c] =
                    [answer |-> crest_process(req[c], res, passed, result),
                     res |-> res, passed |-> passed, data_len |-> body[c].cap, filled |-> body[c].pos]]
            /\ body' = [body EXCEPT ![c] = NoBody]
            /\ cpc' = [cpc EXCEPT ![c] = "answered"]
            /\ UNCHANGED <<routerVars, req, left>>

\* optics_assert_alloc ends the process, and with it every connection.
optics_abort ==
    /\ cpc' = [d \in Conns |-> "dead"]
    /\ req' = [d \in Conns |-> None]
    /\ body' = [d \in Conns |-> NoBody]
    /\ left' = [d \in Conns |-> 0]
    /\ resp' = [d \in Conns |-> None]
    /\ UNCHANGED routerVars

\* The first call of microhttpd_cb, without data.  A Content-Length that
\* cannot be read is warned of and treated like none; a body of the length that
\* the header announced, whatever that is, is allocated at once.
call_headers(c) ==
    /\ cpc[c] = "headers"
    /\ IF req[c].length > 0
       THEN \/ /\ body' = [body EXCEPT ![c] = [cap |-> req[c].length, pos |-> 0]]
               /\ cpc' = [cpc EXCEPT ![c] = "upload"]
               /\ UNCHANGED <<routerVars, req, left, resp>>
            \/ optics_abort
       ELSE Answer(c)

\* body_append cuts the chunk to what is free.
Cut(b, n) == IF b.pos + n > b.cap THEN b.cap - b.pos ELSE n

\* Faulty variant: every chunk is written to the start of the body.
Appended_start(b, n) == [b EXCEPT !.pos = Cut(b, n)]

Appended(b, n) == [b EXCEPT !.pos = @ + Cut(b, n)]

\* Faulty variant: the bytes that did not fit are reported as not processed.
Unread_cut(b, n) == n - Cut(b, n)

\* What body_append leaves in *len, which libmicrohttpd takes for the number of
\* bytes to pass again: it says that all were processed.
Unread(b, n) == 0

\* A call with n bytes.
call_data(c, n) ==
    /\ cpc[c] = "upload"
    /\ n <= left[c]
    /\ body' = [body EXCEPT ![c] = Appended(@, n)]
    /\ left' = [left EXCEPT ![c] = @ - n + Unread(body[c], n)]
    /\ UNCHANGED <<routerVars, cpc, req, resp>>

\* libmicrohttpd has passed on the whole request.
Complete(c) == left[c] = 0

\* The last call, without data.
call_end(c) ==
    /\ cpc[c] = "upload"
    /\ Complete(c)
    /\ Answer(c)

\* The client goes away during the upload.  Nobody tells microhttpd_cb, so
\* the body is never freed.
client_gone(c) ==
    /\ cpc[c] = "upload"
    /\ cpc' = [cpc EXCEPT ![c] = "idle"]
    /\ req' = [req EXCEPT ![c] = None]
    /\ body' = [body EXCEPT ![c] = NoBody]
    /\ left' = [left EXCEPT ![c] = 0]
    /\ UNCHANGED <<routerVars, resp>>

\* The answer was sent; what was not read of the request is thrown away.
sent(c) ==
    /\ cpc[c] = "answered"
    /\ cpc' = [cpc EXCEPT ![c] = "idle"]
    /\ req' = [req EXCEPT ![c] = None]
    /\ resp' = [resp EXCEPT ![c] = None]
    /\ left' = [left EXCEPT ![c] = 0]
    /\ UNCHANGED <<routerVars, body>>

\* Steps of the server: libmicrohttpd goes on with a connection.
Serve(c) ==
    \/ call_headers(c) \/ call_end(c) \/ sent(c)
    \/ \E n \in 1 .. left[c] : call_data(c, n)

CrestNext ==
    \/ \E res \in Resources : crest_add(res)
    \/ crest_bind
    \/ \E c \in Conns :
        \/ \E r \in Requests : request(c, r)
        \/ Serve(c)
        \/ client_gone(c)

(* The loop of libmicrohttpd gets round to every connection, and a client    *)
(* that does not go away sends its bytes (crest_bind asks for no timeout).   *)
CrestSpec == CrestInit /\ [][CrestNext]_crestVars /\ \A c \in Conns : WF_crestVars(Serve(c))

-----------------------------------------------------------------------------
(* Properties.                                                              *)

CrestTypeOK ==
    /\ DOMAIN exact \cup DOMAIN star \subseteq wired
    /\ cpc \in [Conns -> {"idle", "headers", "upload", "answered", "dead"}]
    /\ \A c \in Conns : body[c].pos \in 0 .. body[c].cap

\* What a pattern says: each token stands for itself or for any one segment,
\* and a star for all that is left.
Matches(pattern, path) ==
    LET node == Node(pattern)
    IN  /\ IF node.star THEN Len(node.edges) <= Len(path) ELSE Len(node.edges) = Len(path)
        /\ \A i \in 1 .. Len(node.edges) : node.edges[i] \in {":", path[i]}

\* The kind of pattern p at position i: a token or the end, a wildcard, a star.
Rank(p, i) ==
    LET node == Node(p)
    IN  IF i <= Len(node.edges) THEN (IF node.edges[i] = ":" THEN 2 ELSE 1)
        ELSE IF node.star THEN 3 ELSE 1

\* p is to be preferred to q: at the first place where their kinds differ, p
\* is the more definite one.
Precedes(p, q, path) ==
    \E i \in 1 .. Len(path) + 1 :
        Rank(p, i) < Rank(q, i) /\ \A j \in 1 .. (i - 1) : Rank(p, j) = Rank(q, j)

\* A request is routed to the most definite of all the patterns that match,
\* whatever else was registered and in whatever order, and is refused only
\* when none matches: the search of the tree comes back from every dead end.
RoutedToBest ==
    \A c \in Conns : cpc[c] = "answered" =>
        LET path == path_new(req[c].url)
            fits == {res \in added : Matches(path_new(res.path), path)}
        IN  IF fits = {} THEN resp[c].res = None
            ELSE /\ resp[c].res \in fits
                 /\ \A q \in fits \ {resp[c].res} :
                        Precedes(path_new(resp[c].res.path), path_new(q.path), path)

\* A handler runs only for a request that every check of its resource let
\* through, never to create what exists, nor to read or delete what does not;
\* and a success is reported only when it ran.
HandlersGuarded ==
    \A c \in Conns : cpc[c] = "answered" =>
        /\ resp[c].answer.ran =>
            /\ req[c].method \in resp[c].res.ops
            /\ resp[c].res.checks \ {"exists"} \subseteq resp[c].passed
            /\ "exists" \in resp[c].res.checks =>
                IF "exists" \in resp[c].passed THEN req[c].method # "PUT"
                ELSE req[c].method \notin {"GET", "DELETE"}
        /\ resp[c].answer.code < 300 => resp[c].answer.ran

\* The handler of a request whose header told the truth gets the whole body,
\* in whatever chunks it came; a body never grows beyond its buffer, whatever
\* the header said.
BodyWhole ==
    /\ CrestTypeOK
    /\ \A c \in Conns : cpc[c] = "answered" /\ req[c].length = req[c].bytes =>
        resp[c].filled = req[c].bytes /\ resp[c].data_len = req[c].bytes

\* A request is answered, unless its client goes away or the allocation of its
\* body ends the process.  In particular a body that is longer than its header
\* said does not stop the connection: what has no room is thrown away, and not
\* left with libmicrohttpd, which would pass it again for ever.
Answered == \A c \in Conns : cpc[c] = "headers" ~> cpc[c] \in {"idle", "dead"}
=============================================================================
