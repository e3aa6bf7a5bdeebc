------------------------------ MODULE MCIntake ------------------------------
EXTENDS Intake

CONSTANTS h1, h2, uploadConsumer, uploadScheduler, ocrConsumer, ocrScheduler

World(kind, weights, limit, actors) ==
  [kind |-> kind, weights |-> weights, limit |-> limit, long |-> FALSE, actors |-> actors]
Long(w) == [w EXCEPT !.long = TRUE]

\* Two requests on a package with a label of the house or of TikTok, within the limit or
\* over it; one request and more weights, or Australia; one request while a label is
\* stored or read; or the schedulers of both on their own.
MCWorlds ==
  {World("plain", {1, 2}, 2, {h1, h2}), World("tiktok", {1, 2}, 2, {h1, h2}),
   World("plain", {1, 2}, 1, {h1, h2}), Long(World("tiktok", {1, 2}, 1, {h1, h2})),
   World("plain", {1, 2, 3}, 3, {h1}), World("plain", {1, 2, 3}, 2, {h1}),
   World("AU", {1, 2, 3}, 2, {h1}),
   World("tiktok", {1}, 1, {h1, uploadConsumer, uploadScheduler}),
   World("tiktok", {1}, 1, {h1, ocrConsumer, ocrScheduler}),
   World("tiktok", {1}, 1, {uploadScheduler, ocrScheduler})}

\* What a label over the limit costs: less than a package, or more.
MCCosts == {1, 3}
=============================================================================
