---------------------------- MODULE MCOperations ----------------------------
(***************************************************************************)
(* Instances of Operations for TLC.                                        *)
(***************************************************************************)
EXTENDS Operations, TLC

CONSTANTS t1, t2, v1, v2, a1, a2, check, plain, lotted, w1, w2, s1, s2, agenda, i1, i2,
          user, phone, till, c1, c2, page, k1, k2

AllDocs == {t1, t2, v1, v2, a1, a2, check, plain, lotted, agenda, i1, i2, phone, till, c1, c2}

\* The documents that interact, a group at a time.  A run of the check is about every
\* product and a list about every cart, whatever the requests are about.
Groups == {{t1, v1, a1}, {t2, v2, a2}, {check, lotted}, {check, plain, t1},
           {agenda, i1}, {phone, till}, {c1}, {c2}}

AllBins == {plain, lotted} \X {w1, w2}
Shelf   == <<plain, w1>> :> 3 @@ <<plain, w2>> :> None
        @@ <<lotted, w1>> :> 2 @@ <<lotted, w2>> :> 0
Batches == <<plain, w1>> :> 0 @@ <<plain, w2>> :> 0 @@ <<lotted, w1>> :> 2 @@ <<lotted, w2>> :> 0

Way(p, n) == [from |-> <<p, w1>>, to |-> <<p, w2>>, quantity |-> n]
Ways  == t1 :> Way(plain, 2) @@ t2 :> Way(lotted, 1)
Sold  == v1 :> [bin |-> <<plain, w1>>, quantity |-> 2] @@ v2 :> [bin |-> <<lotted, w1>>, quantity |-> 2]
\* The first is taken from a bin that has no row before a transfer reaches it.
Found == a1 :> [bin |-> <<plain, w2>>, delta |-> 0 - 1] @@ a2 :> [bin |-> <<lotted, w1>>, delta |-> 1]

Alerts   == plain :> 2 @@ lotted :> 2
Refill   == plain :> 3 @@ lotted :> 3
Prices   == plain :> (s1 :> 5 @@ s2 :> 4) @@ lotted :> (s1 :> 7 @@ s2 :> 7)
AtFirst  == plain :> {s1} @@ lotted :> {}
OneUser  == phone :> user @@ till :> user
=============================================================================
