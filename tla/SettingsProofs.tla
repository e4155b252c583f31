--------------------------- MODULE SettingsProofs ---------------------------
(***************************************************************************)
(* What becomes of a setting is a matter of its key alone, so the proofs   *)
(* follow one key from a front end's config through its environment into   *)
(* the daemon's name and config.                                           *)
(***************************************************************************)
EXTENDS Settings, TLAPS

PCs == {"off", "crashed", "read", "set", "synced", "joined"}
Optional == {"rules_config"} \cup Secrets

\* What the setting k may be in a daemon, and in a front end.
Kept(k) == {"good", "default"} \cup (IF k \in Floats THEN NotFinite ELSE {})
Values(k) == Kept(k) \cup (IF k \in Secrets THEN {"padded", "blank"} ELSE {})
Settled(c) == c = [k \in Keys |-> c[k]] /\ \A k \in Keys : c[k] \in Values(k)

\* The setting v once blanks are dropped around a key, and what of it arrives in
\* a daemon; the text of the setting k in the environment of a front end that
\* has written it back, in that of the daemon it starts, and what it contributes
\* to the name.
Bare(v) == IF v = "padded" THEN "good" ELSE v
Arrived(v) == IF v = "blank" THEN "default" ELSE Bare(v)
Text(k, v) ==
  IF k \in Optional /\ v = "default" THEN Unset
  ELSE IF v = "padded" THEN [val |-> "good", form |-> "padded"]
  ELSE Plain(v)
Passed(k, t) ==
  LET v == Canonical(k, t, TRUE)
  IN IF v = "absent" \/ k \notin Paths \cup Choices \cup Secrets THEN t
     ELSE IF v = "blank" THEN Unset ELSE Plain(v)
Named(k, v) ==
  IF v \in NotFinite \/ (k \in Optional \cup Bools /\ v = "default") THEN "absent" ELSE v

\* What a front end makes of any text a variable may hold is a value.
LEMMA ReadSettles ==
  ASSUME NEW k \in Keys, NEW t \in Spellings(k) \cup {Unset},
         k = "converter" => t = Unset \/ (t.val # "junk" /\ t.form # "padded")
  PROVE  /\ Read(k, t, TRUE) \in Values(k)
         /\ k \in Optional /\ Read(k, t, TRUE) = "default" => t = Unset
<1> USE DEF Read, Values, Kept, NotFinite, Unset, Plain, Resolved, Optional
<1>1. CASE k = "cache_ttl"
  BY <1>1 DEF Spellings, Ints, Floats, Bools, Choices, Paths, Secrets
<1>2. CASE k = "fetch_timeout"
  BY <1>2 DEF Spellings, Ints, Floats, Bools, Choices, Paths, Secrets
<1>3. CASE k = "browser_pool"
  BY <1>3 DEF Spellings, Ints, Floats, Bools, Choices, Paths, Secrets
<1>4. CASE k \in {"min_mode", "converter"}
  BY <1>4 DEF Spellings, Ints, Floats, Bools, Choices, Paths, Secrets
<1>5. CASE k \in {"scraping_dir", "rules_config"}
  BY <1>5 DEF Spellings, Ints, Floats, Bools, Choices, Paths, Secrets
<1>6. CASE k = "jina_api_key"
  BY <1>6 DEF Spellings, Ints, Floats, Bools, Choices, Paths, Secrets
<1> QED
  BY <1>1, <1>2, <1>3, <1>4, <1>5, <1>6
     DEF Keys, Ints, Floats, Bools, Choices, Paths, Secrets

\* A text that was written back names the setting, and the daemon that is
\* handed it contributes the same to its name and reads the setting meant.
LEMMA TextArrives ==
  ASSUME NEW k \in Keys, NEW v \in Values(k)
  PROVE  /\ Canonical(k, Text(k, v), TRUE) = Named(k, Bare(v))
         /\ Canonical(k, Passed(k, Text(k, v)), FALSE) = Named(k, Arrived(v))
         /\ Read(k, Passed(k, Text(k, v)), FALSE) = Arrived(v)
<1> USE DEF Canonical, Read, Values, Kept, NotFinite, Unset, Plain, Resolved, Optional,
            Text, Passed, Named, Bare, Arrived
<1>1. CASE k = "cache_ttl"
  BY <1>1 DEF Ints, Floats, Bools, Choices, Paths, Secrets
<1>2. CASE k = "fetch_timeout"
  BY <1>2 DEF Ints, Floats, Bools, Choices, Paths, Secrets
<1>3. CASE k = "browser_pool"
  BY <1>3 DEF Ints, Floats, Bools, Choices, Paths, Secrets
<1>4. CASE k \in {"min_mode", "converter"}
  BY <1>4 DEF Ints, Floats, Bools, Choices, Paths, Secrets
<1>5. CASE k \in {"scraping_dir", "rules_config"}
  <2> USE <1>5 DEF Ints, Floats, Bools, Choices, Paths, Secrets
  <2>1. CASE v = "default" /\ k = "rules_config"
    BY <2>1
  <2>2. CASE ~(v = "default" /\ k = "rules_config")
    <3>1. v \in {"good", "default"} /\ Text(k, v) = Plain(v)
      BY <2>2
    <3>2. Passed(k, Text(k, v)) = Plain(v)
      BY <3>1
    <3> QED BY <2>2, <3>1, <3>2
  <2> QED BY <2>1, <2>2
<1>6. CASE k = "jina_api_key"
  <2> USE <1>6 DEF Ints, Floats, Bools, Choices, Paths, Secrets
  <2>1. CASE v = "default"
    BY <2>1
  <2>2. CASE v = "good"
    BY <2>2
  <2>3. CASE v = "padded"
    <3>1. Text(k, v) = [val |-> "good", form |-> "padded"]
      BY <2>3
    <3>2. Passed(k, Text(k, v)) = Plain("good")
      BY <3>1
    <3> QED BY <2>3, <3>1, <3>2
  <2>4. CASE v = "blank"
    <3>1. Text(k, v) = Plain("blank")
      BY <2>4
    <3>2. Passed(k, Text(k, v)) = Unset
      BY <3>1
    <3> QED BY <2>4, <3>1, <3>2
  <2> QED BY <2>1, <2>2, <2>3, <2>4
<1> QED
  BY <1>1, <1>2, <1>3, <1>4, <1>5, <1>6
     DEF Keys, Ints, Floats, Bools, Choices, Paths, Secrets

\* The name tells settings apart, but for the times that are not finite.
LEMMA NamesDiffer ==
  ASSUME NEW k \in Keys, NEW v \in Kept(k), NEW w \in Kept(k), Named(k, v) = Named(k, w)
  PROVE  v = w \/ (v \in NotFinite /\ w \in NotFinite)
<1> USE DEF Named, Kept, NotFinite, Optional, Ints, Floats, Bools, Choices, Paths, Secrets, Keys
<1>1. CASE k \in Floats
  BY <1>1
<1>2. CASE k \notin Floats
  BY <1>2
<1> QED BY <1>1, <1>2

----------------------------------------------------------------------------
\* A text a front end may find in its environment, for it to go on.
Spelled(k, t) ==
  /\ t \in Spellings(k) \cup {Unset}
  /\ k = "converter" => t = Unset \/ (t.val # "junk" /\ t.form # "padded")

Meaning(c) == [k \in Keys |-> Bare(c[k])]
Delivery(c) == [k \in Keys |-> Arrived(c[k])]
Names(m) == [k \in Keys |-> Named(k, m[k])]
Blank(c) == \E k \in Secrets : c[k] = "blank"

\* How far a front end's settings have come.
HasRead(f) ==
  pc[f] = "read" =>
    /\ \A k \in Keys : Spelled(k, env[f][k])
    /\ env[f] = [k \in Keys |-> env[f][k]]
    /\ config[f] = [k \in Keys |-> Read(k, env[f][k], TRUE)]
Chosen(f) ==
  pc[f] = "set" =>
    /\ Settled(config[f])
    /\ \A k \in Optional : config[f][k] = "default" => env[f][k] = Unset
Written(f) ==
  pc[f] \in {"synced", "joined"} =>
    /\ Settled(config[f])
    /\ env[f] = [k \in Keys |-> Text(k, config[f][k])]

ProcInv ==
  /\ pc \in [FrontEnds -> PCs]
  /\ env = [f \in FrontEnds |-> env[f]]
  /\ config = [f \in FrontEnds |-> config[f]]

\* A daemon's name is that of its settings, and who has joined has one, unless
\* its key is blank.
DaemonInv ==
  /\ \A d \in daemons :
       d.name = Names(d.config) /\ \A k \in Keys : d.config[k] \in Kept(k)
  /\ \A f \in FrontEnds : pc[f] = "joined" /\ ~Blank(config[f]) =>
       \E d \in daemons : d.name = Name(env[f], TRUE)

SettingsInv ==
  /\ ProcInv
  /\ \A f \in FrontEnds : HasRead(f) /\ Chosen(f) /\ Written(f)
  /\ DaemonInv

\* Only f moves.
Moves(f) ==
  /\ pc' \in [FrontEnds -> PCs]
  /\ env' = [g \in FrontEnds |-> env'[g]]
  /\ config' = [g \in FrontEnds |-> config'[g]]
  /\ \A g \in FrontEnds \ {f} :
       pc'[g] = pc[g] /\ env'[g] = env[g] /\ config'[g] = config[g]

\* A step of f that starts no daemon leaves the invariant to be shown of f.
LEMMA OneMoves ==
  ASSUME SettingsInv, NEW f \in FrontEnds, Moves(f), UNCHANGED daemons,
         pc'[f] # "joined", HasRead(f)', Chosen(f)', Written(f)'
  PROVE  SettingsInv'
<1>1. ProcInv'
  BY DEF Moves, ProcInv
<1>2. ASSUME NEW g \in FrontEnds PROVE HasRead(g)' /\ Chosen(g)' /\ Written(g)'
  <2>1. CASE g = f
    BY <2>1
  <2>2. CASE g # f
    <3>1. pc'[g] = pc[g] /\ env'[g] = env[g] /\ config'[g] = config[g]
      BY <2>2 DEF Moves
    <3>2. HasRead(g) /\ Chosen(g) /\ Written(g)
      BY DEF SettingsInv
    <3> QED BY <3>1, <3>2 DEF HasRead, Chosen, Written
  <2> QED BY <2>1, <2>2
<1>3. DaemonInv'
  <2>1. ASSUME NEW g \in FrontEnds, pc'[g] = "joined", ~Blank(config'[g])
        PROVE  \E d \in daemons' : d.name = Name(env'[g], TRUE)
    <3>1. pc[g] = "joined" /\ env'[g] = env[g] /\ config'[g] = config[g]
      BY <2>1 DEF Moves
    <3> QED BY <2>1, <3>1 DEF SettingsInv, DaemonInv
  <2> QED BY <2>1 DEF SettingsInv, DaemonInv
<1> QED BY <1>1, <1>2, <1>3 DEF SettingsInv

\* What a front end is started with it has read, unless it crashes.
LEMMA StartStep ==
  ASSUME SettingsInv, NEW f \in FrontEnds, Start(f)
  PROVE  SettingsInv'
<1>1. PICK e \in Environments :
        /\ env' = [env EXCEPT ![f] = e]
        /\ pc' = [pc EXCEPT ![f] = IF Crashes(e) THEN "crashed" ELSE "read"]
        /\ config' = [config EXCEPT ![f] = [k \in Keys |-> Read(k, e[k], TRUE)]]
  BY DEF Start
<1>2. Moves(f) /\ pc'[f] \in {"crashed", "read"} /\ env'[f] = e
      /\ config'[f] = [k \in Keys |-> Read(k, e[k], TRUE)]
  BY <1>1 DEF SettingsInv, ProcInv, Moves, PCs
<1>3. e = [k \in Keys |-> e[k]] /\ \A k \in Keys : e[k] \in Spellings(k) \cup {Unset}
  BY InputsAssumption
<1>4. HasRead(f)'
  <2>1. SUFFICES ASSUME pc'[f] = "read"
                 PROVE  \A k \in Keys : Spelled(k, e[k])
    BY <1>2, <1>3 DEF HasRead
  <2>2. ~Crashes(e)
    BY <1>1, <2>1 DEF SettingsInv, ProcInv
  <2> QED BY <1>3, <2>2 DEF Crashes, Spelled
<1> QED BY <1>2, <1>4, OneMoves DEF Start, Chosen, Written

\* Options leave every setting a value, and none unset that has a variable.
LEMMA OverrideStep ==
  ASSUME SettingsInv, NEW f \in FrontEnds, Override(f)
  PROVE  SettingsInv'
<1>1. PICK o \in CommandLines :
        config' = [config EXCEPT ![f] = [k \in Keys |-> IF o[k] = "none" THEN @[k] ELSE o[k]]]
  BY DEF Override
<1>2. Moves(f) /\ pc'[f] = "set" /\ env'[f] = env[f]
      /\ config'[f] = [k \in Keys |-> IF o[k] = "none" THEN config[f][k] ELSE o[k]]
  BY <1>1 DEF Override, SettingsInv, ProcInv, Moves, PCs
<1>3. /\ \A k \in Keys : Spelled(k, env[f][k])
      /\ \A k \in Keys : config[f][k] = Read(k, env[f][k], TRUE)
  BY DEF Override, SettingsInv, HasRead
<1>4. ASSUME NEW k \in Keys
      PROVE  /\ config[f][k] \in Values(k)
             /\ k \in Optional /\ config[f][k] = "default" => env[f][k] = Unset
  BY <1>3, ReadSettles DEF Spelled
<1>5. ASSUME NEW k \in Keys
      PROVE  /\ config'[f][k] \in Values(k)
             /\ k \in Optional /\ config'[f][k] = "default" => env'[f][k] = Unset
  <2>1. /\ o[k] \in {"good", "default", "none"} \cup NotFinite
        /\ (k \notin Floats => o[k] \notin NotFinite)
        /\ (k \in Bools \cup Paths => o[k] # "default")
        /\ (k \in Secrets => o[k] = "none")
    BY InputsAssumption
  <2>2. CASE o[k] = "none"
    BY <1>2, <1>4, <2>2
  <2>3. CASE o[k] # "none"
    <3>1. config'[f][k] = o[k] /\ k \notin Secrets
      BY <1>2, <2>1, <2>3
    <3> QED BY <2>1, <2>3, <3>1 DEF Values, Kept, Optional, Paths
  <2> QED BY <2>2, <2>3
<1>6. Chosen(f)'
  <2>1. config'[f] = [k \in Keys |-> config'[f][k]]
    BY <1>2
  <2>2. Settled(config'[f])
    BY <1>5, <2>1 DEF Settled
  <2>3. Optional \subseteq Keys
    BY DEF Optional, Keys, Paths, Secrets
  <2> QED BY <1>5, <2>2, <2>3 DEF Chosen
<1> QED BY <1>2, <1>6, OneMoves DEF Override, HasRead, Written

\* Writing back makes the environment a function of the config.
LEMMA SyncStep ==
  ASSUME SettingsInv, NEW f \in FrontEnds, Sync(f)
  PROVE  SettingsInv'
<1>1. Moves(f) /\ pc'[f] = "synced" /\ config'[f] = config[f]
      /\ env'[f] = WrittenBack(env[f], config[f])
  BY DEF Sync, SettingsInv, ProcInv, Moves, PCs
<1>2. Settled(config[f]) /\ \A k \in Optional : config[f][k] = "default" => env[f][k] = Unset
  BY DEF Sync, SettingsInv, Chosen
<1>3. WrittenBack(env[f], config[f]) = [k \in Keys |-> Text(k, config[f][k])]
  BY <1>2 DEF WrittenBack, Text, Optional
<1> QED BY <1>1, <1>2, <1>3, OneMoves DEF Sync, HasRead, Chosen, Written

\* What a front end that has written its settings back looks for, and what the
\* daemon it starts binds and reads.
LEMMA NameOfMeaning ==
  ASSUME NEW c, Settled(c), NEW e, e = [k \in Keys |-> Text(k, c[k])]
  PROVE  /\ Name(e, TRUE) = Names(Meaning(c))
         /\ Name(DaemonEnv(e), FALSE) = Names(Delivery(c))
         /\ [k \in Keys |-> Read(k, DaemonEnv(e)[k], FALSE)] = Delivery(c)
         /\ \A k \in Keys : Delivery(c)[k] \in Kept(k)
<1>1. \A k \in Keys : c[k] \in Values(k)
  BY DEF Settled
<1>2. DaemonEnv(e) = [k \in Keys |-> Passed(k, e[k])]
  BY DEF DaemonEnv, Passed
<1>3. \A k \in Keys : Canonical(k, e[k], TRUE) = Named(k, Bare(c[k]))
  BY <1>1, TextArrives
<1>4. \A k \in Keys : Canonical(k, DaemonEnv(e)[k], FALSE) = Named(k, Arrived(c[k]))
  BY <1>1, <1>2, TextArrives
<1>5. \A k \in Keys : Read(k, DaemonEnv(e)[k], FALSE) = Arrived(c[k])
  BY <1>1, <1>2, TextArrives
<1>6. \A k \in Keys : Arrived(c[k]) \in Kept(k)
  BY <1>1 DEF Arrived, Bare, Values, Kept, NotFinite
<1> DEFINE M == Meaning(c)
           D == Delivery(c)
<1>7. M = [k \in Keys |-> Bare(c[k])] /\ D = [k \in Keys |-> Arrived(c[k])]
  BY DEF Meaning, Delivery
<1> HIDE DEF M, D
<1>8. Name(e, TRUE) = Names(M) /\ Name(DaemonEnv(e), FALSE) = Names(D)
  BY <1>3, <1>4, <1>7 DEF Name, Names
<1>9. [k \in Keys |-> Read(k, DaemonEnv(e)[k], FALSE)] = D
  BY <1>5, <1>7
<1>10. \A k \in Keys : D[k] \in Kept(k)
  BY <1>6, <1>7
<1> QED BY <1>8, <1>9, <1>10 DEF M, D

\* Unless its key is blank, what arrives is what is meant.
LEMMA MeaningArrives ==
  ASSUME NEW c, Settled(c), ~Blank(c)
  PROVE  Delivery(c) = Meaning(c)
<1>1. ASSUME NEW k \in Keys PROVE Arrived(c[k]) = Bare(c[k])
  <2>1. c[k] # "blank"
    BY DEF Settled, Blank, Values, Kept, NotFinite
  <2> QED BY <2>1 DEF Arrived
<1> QED BY <1>1 DEF Delivery, Meaning

\* A daemon is found or started under the name, and with the settings meant.
LEMMA JoinStep ==
  ASSUME SettingsInv, NEW f \in FrontEnds, Join(f)
  PROVE  SettingsInv'
<1> DEFINE e == DaemonEnv(env[f])
           new == [name |-> Name(e, FALSE), config |-> [k \in Keys |-> Read(k, e[k], FALSE)]]
<1>1. Settled(config[f]) /\ env[f] = [k \in Keys |-> Text(k, config[f][k])]
  BY DEF Join, SettingsInv, Written
<1>2. /\ new.name = Names(new.config)
      /\ \A k \in Keys : new.config[k] \in Kept(k)
      /\ ~Blank(config[f]) => new.name = Name(env[f], TRUE)
  <2>1. /\ Name(env[f], TRUE) = Names(Meaning(config[f]))
        /\ new.name = Names(Delivery(config[f]))
        /\ new.config = Delivery(config[f])
        /\ \A k \in Keys : Delivery(config[f])[k] \in Kept(k)
    BY <1>1, NameOfMeaning
  <2> QED BY <1>1, <2>1, MeaningArrives
<1>3. \/ daemons' = daemons /\ \E d \in daemons : d.name = Name(env[f], TRUE)
      \/ daemons' = daemons \cup {new}
  BY DEF Join
<1> HIDE DEF new
<1>4. /\ daemons \subseteq daemons'
      /\ \A d \in daemons' : d \in daemons \/ d = new
      /\ ~Blank(config[f]) => \E d \in daemons' : d.name = Name(env[f], TRUE)
  BY <1>2, <1>3
<1>5. DaemonInv'
  <2>1. \A d \in daemons' :
          d.name = Names(d.config) /\ \A k \in Keys : d.config[k] \in Kept(k)
    BY <1>2, <1>4 DEF SettingsInv, DaemonInv
  <2>2. ASSUME NEW g \in FrontEnds, pc'[g] = "joined", ~Blank(config'[g])
        PROVE  \E d \in daemons' : d.name = Name(env'[g], TRUE)
    <3>1. env'[g] = env[g] /\ config'[g] = config[g]
      BY DEF Join
    <3>2. CASE g = f
      BY <1>4, <2>2, <3>1, <3>2
    <3>3. CASE g # f
      <4>1. pc[g] = "joined"
        BY <2>2, <3>3 DEF Join, SettingsInv, ProcInv
      <4> QED BY <1>4, <2>2, <3>1, <4>1 DEF SettingsInv, DaemonInv
    <3> QED BY <3>2, <3>3
  <2> QED BY <2>1, <2>2 DEF DaemonInv
<1>6. ASSUME NEW g \in FrontEnds PROVE HasRead(g)' /\ Chosen(g)' /\ Written(g)'
  <2>1. /\ env'[g] = env[g] /\ config'[g] = config[g]
        /\ pc'[g] = IF g = f THEN "joined" ELSE pc[g]
    BY DEF Join, SettingsInv, ProcInv, PCs
  <2>2. HasRead(g) /\ Chosen(g) /\ Written(g)
    BY DEF SettingsInv
  <2> QED BY <1>1, <2>1, <2>2 DEF HasRead, Chosen, Written
<1>7. ProcInv'
  BY DEF Join, SettingsInv, ProcInv, PCs
<1> QED BY <1>5, <1>6, <1>7 DEF SettingsInv

\* Every step keeps the invariant.
LEMMA SettingsStep ==
  ASSUME SettingsInv, [Next]_vars
  PROVE  SettingsInv'
<1>1. CASE UNCHANGED vars
  BY <1>1 DEF vars, SettingsInv, ProcInv, DaemonInv, HasRead, Chosen, Written
<1>2. ASSUME NEW f \in FrontEnds, Start(f) \/ Override(f) \/ Sync(f) \/ Join(f)
      PROVE  SettingsInv'
  BY <1>2, StartStep, OverrideStep, SyncStep, JoinStep
<1> QED BY <1>1, <1>2 DEF Next

\* Whatever the inputs.
LEMMA SettingsInvariant == Spec => []SettingsInv
<1>1. Init => SettingsInv
  BY DEF Init, SettingsInv, ProcInv, PCs, DaemonInv, HasRead, Chosen, Written
<1>2. SettingsInv /\ [Next]_vars => SettingsInv'
  BY SettingsStep
<1> QED BY <1>1, <1>2, PTL DEF Spec

----------------------------------------------------------------------------
(* Whatever variables are set and however they are spelled, whatever       *)
(* options are given and whoever launched it: the daemon a front end joins *)
(* has the name it looks for and runs with its settings (config_env.py:    *)
(* 160-205, mcp.py:280-328), with the two provisos of OwnSettings: its API *)
(* key is not all blanks, and times that are not finite are not told       *)
(* apart.                                                                  *)
THEOREM SettingsKept == Spec => []OwnSettings
<1>1. SettingsInv => OwnSettings
  <2> SUFFICES ASSUME SettingsInv, NEW f \in FrontEnds, pc[f] = "joined", ~BlankKey(f)
               PROVE  /\ \E d \in daemons : d.name = Name(env[f], TRUE)
                      /\ \A d \in daemons : d.name = Name(env[f], TRUE) =>
                           \A k \in Keys :
                             IF Meant(f)[k] \in NotFinite THEN d.config[k] \in NotFinite
                                                         ELSE d.config[k] = Meant(f)[k]
    BY DEF OwnSettings
  <2>1. Settled(config[f]) /\ env[f] = [k \in Keys |-> Text(k, config[f][k])]
    BY DEF SettingsInv, Written
  <2>2. Meant(f) = Meaning(config[f]) /\ ~Blank(config[f])
    BY DEF Meant, Meaning, Bare, BlankKey, Blank
  <2>3. Name(env[f], TRUE) = Names(Meant(f)) /\ \A k \in Keys : Meant(f)[k] \in Kept(k)
    BY <2>1, <2>2, NameOfMeaning, MeaningArrives
  <2>4. ASSUME NEW d \in daemons, d.name = Name(env[f], TRUE), NEW k \in Keys
        PROVE  IF Meant(f)[k] \in NotFinite THEN d.config[k] \in NotFinite
                                           ELSE d.config[k] = Meant(f)[k]
    <3>1. d.config[k] \in Kept(k) /\ Names(d.config) = Names(Meant(f))
      BY <2>3, <2>4 DEF SettingsInv, DaemonInv
    <3>2. Named(k, d.config[k]) = Named(k, Meant(f)[k])
      <4>1. Names(d.config)[k] = Named(k, d.config[k]) /\ Names(Meant(f))[k] = Named(k, Meant(f)[k])
        BY DEF Names
      <4> QED BY <3>1, <4>1
    <3> QED BY <2>3, <3>1, <3>2, NamesDiffer
  <2> QED BY <2>2, <2>4 DEF SettingsInv, DaemonInv
<1> QED BY <1>1, SettingsInvariant, PTL

(* Front ends that mean the same settings look for one daemon, however     *)
(* they were given them (config_env.py:160-205).                           *)
THEOREM SettingsShared == Spec => []SettingsShareDaemon
<1>1. SettingsInv => SettingsShareDaemon
  <2> SUFFICES ASSUME SettingsInv, NEW f \in FrontEnds, NEW g \in FrontEnds,
                      pc[f] = "joined", pc[g] = "joined", Meant(f) = Meant(g)
               PROVE  Name(env[f], TRUE) = Name(env[g], TRUE)
    BY DEF SettingsShareDaemon
  <2>1. ASSUME NEW h \in FrontEnds, pc[h] = "joined"
        PROVE  Name(env[h], TRUE) = Names(Meant(h))
    <3>1. Settled(config[h]) /\ env[h] = [k \in Keys |-> Text(k, config[h][k])]
      BY <2>1 DEF SettingsInv, Written
    <3>2. Meant(h) = Meaning(config[h])
      BY DEF Meant, Meaning, Bare
    <3> QED BY <3>1, <3>2, NameOfMeaning
  <2> QED BY <2>1
<1> QED BY <1>1, SettingsInvariant, PTL
=============================================================================
