----------------------------- MODULE MCConfigReload ---------------------------
(* ConfigReload with one file of each kind the code tells apart. *)
EXTENDS ConfigReload

Shape(kind, hasLevel, keys, age) ==
  [kind |-> kind, level |-> hasLevel, keys |-> keys, age |-> age]

\* Complete, and what each thing a reload may stumble over leaves of it.
Complete == Shape("object", TRUE, 1..3, 1)
NoFile == Shape("absent", FALSE, {}, 1)
Truncated == Shape("garbage", FALSE, {}, 1)
NotAnObject == Shape("scalar", FALSE, {}, 1)
NoLevel == Shape("object", FALSE, 1..3, 1)
NoPruneDbSize == Shape("object", TRUE, {1, 3}, 1)
NegativeAge == Shape("object", TRUE, 1..3, -1)

EveryShape == {Complete, NoFile, Truncated, NotAnObject, NoLevel, NoPruneDbSize,
               NegativeAge}
===============================================================================
