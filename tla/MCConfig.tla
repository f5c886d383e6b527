------------------------------ MODULE MCConfig ------------------------------
(***************************************************************************)
(* Documents for Config.  Pools: two of them; the defaults and the first   *)
(* pool set at most one key each, to a value inside or outside its range,  *)
(* the second pool at most whether it is enabled.  Top level: every        *)
(* combination of the switches, the paths and the metrics address, and any *)
(* two of the other keys.  And documents that Load refuses.                *)
(***************************************************************************)
EXTENDS Config, TLC

MCNameOrder == <<"_x", "a", "b">>

MCOverlaps == {<<"/{a}", "/{b}">>}

Values ==
    [enabled |-> {FALSE}, concurrency |-> {0, 2}, okExitCodes |-> {{}, {0, 256}},
     threshold |-> {-1, 0}, window |-> {0, 1}, cooldown |-> {-1, 0, 601},
     cooldownMax |-> {9, 10}, multiplier |-> {1, 2, NaN}, ttl |-> {-1, 1}, poke |-> {-1, 1},
     pokeCount |-> {0, 2}, grace |-> {-1, 90}, termSignal |-> {"SIGHUP"},
     resultStream |-> {"none", "both"}]

Blank == [k \in Keys |-> Unset]

Layers == {Blank} \cup UNION {{k :> v @@ Blank : v \in Values[k]} : k \in Keys}

OnOff == {Blank, "enabled" :> FALSE @@ Blank, "enabled" :> TRUE @@ Blank}

Block(layer, channel) == [settings |-> layer, channel |-> channel, command |-> TRUE]

BlankTop == [k \in TopKeys |-> IF k \in Durations \cup {"db"} THEN 0 ELSE Unset]

TopValues ==
    [logFormat |-> {"xml"}, childOutput |-> {"stdout"}, readTimeout |-> {-1, 9},
     writeTimeout |-> {-1}, drainTimeout |-> {-1}, dialTimeout |-> {-1}, db |-> {-1, 3},
     reconnectMin |-> {-1, 61}, reconnectMax |-> {-1, 61}, shutdownTimeout |-> {-1, 20},
     http |-> {FALSE}, redis |-> {FALSE}]

TopPairs ==
    UNION {{k :> v @@ l :> w @@ BlankTop : v \in TopValues[k], w \in TopValues[l]} :
              k, l \in DOMAIN TopValues}

Listening ==
    {("http" :> h) @@ ("redis" :> r) @@ ("metrics" :> m) @@ ("metricsAddr" :> a)
     @@ ("hintPath" :> p) @@ ("healthPath" :> q) @@ ("metricsPath" :> s) @@ BlankTop :
        h, r, m \in {Unset, FALSE}, a \in {Unset, ":9090"},
        p \in {Unset, "hint", "//hint", "/metrics"}, q \in {Unset, "healthz", "/{a}", "/hint"},
        s \in {Unset, "metrics", "m/x", "/{b}", "/hint", "/healthz"}}

Document(top, defaults, blocks) ==
    [readable |-> TRUE, top |-> top, defaults |-> [NoDefaults EXCEPT !.settings = defaults],
     pools |-> blocks]

Plain == Document(BlankTop, Blank, "a" :> Block(Blank, Unset))

Layered ==
    {Document(BlankTop, d, "a" :> Block(l, ca) @@ "b" :> Block(m, cb)) :
        d \in Layers, l \in Layers, m \in OnOff, ca \in {Unset, "b"}, cb \in {Unset, "a", "c"}}

Refused ==
    {[Plain EXCEPT !.readable = FALSE], [Plain EXCEPT !.defaults.command = TRUE],
     [Plain EXCEPT !.defaults.channel = "c"], [Plain EXCEPT !.pools["a"].command = FALSE],
     [Plain EXCEPT !.pools = "_x" :> Block(Blank, Unset) @@ @], [Plain EXCEPT !.pools = <<>>]}

MCDocuments ==
    Layered \cup Refused \cup {[Plain EXCEPT !.top = t] : t \in TopPairs \cup Listening}
=============================================================================
