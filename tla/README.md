# TLA+ models of the Tebexpress API

The Tebexpress API ships parcels from Vietnam and China. Customers pay from a
prepaid balance (with an allowed debt), packages are labelled by external
carriers, collected in warehouses, put into containers and shipments, tracked,
and sometimes cancelled, returned or shipped again. The program is a Go web
server (`src/services/api`), a dozen schedulers (`src/services/schedulers`) and
queue consumers (`src/pkg/rabbitmq`) over one MySQL database and one Redis. All
processes work on the same rows; almost every handler *reads* rows through a
manager of `src/pkg/sqlmanager`, decides, and *writes* in a later database
transaction. There are no row locks, no version columns and no repeated
checks. What can go wrong therefore is mostly a matter of order, and that is what
the models are about.

This directory holds TLA+ modules translated from the source, TLC configurations
that check them on small instances, and TLAPS proofs about eight of the components.

## 1. Inventory

| component | state | operations | works with |
|---|---|---|---|
| bills and balances (`bill_manager.go`, `create_or_update_vat.go`) | `users.balance`, `user_infos.debt_time`, `bills`, `extra_fees`, `packages.bill_id`, `transaction_logs` | find or make the bill of the day; bill packages; post extra fees; pay a waiting refund; change VAT after billing | every handler that moves money |
| top-ups (`transaction_manager.go`, customer and admin `transaction_handler.go`) | `transactions`, balance, log | draft, fill in, announce a transfer, decide | bills and balances |
| labelling and charging (`package_handler.go`, `delivery_package_handler.go`, `shipment_create_label.go`) | package status, `package_codes`, trackings, Redis set `package_call_label`, Redis key `package_deliver_processing_<id>` | Process, Delivery, ProcessCNPackage, CreateLabelHandler | carriers, billing |
| cancellation and refunds (`cancel_package_handler.go` (two), `package_refund.go`, refund and status schedulers) | package status, trackings, `package_refunds`, fee rows | cancel by customer, partner or staff; refund at once or later; expire | billing, Redis quota, stock |
| weighing and intake (`scanweight_handler.go`, admin `warehouse_handler.go`, `WarehousInCheck` and others in `package_manager.go`) | weights, status, alert, fee rows, trackings, Redis sets `package_call_label` and `package_call_label_1` | scan, check in, accept, return; reprice, charge the difference, replace the label | billing, carriers, cancellation |
| products and stock (`product_manager.go`, `product_handler.go`) | stock, `product_stock_logs`, `package_products` | create, fill up, count, delete; take goods, give them back | package creation, cancellation |
| cancellation quota (`authhelper/auth.go`) | Redis amount per user and day | read before, write after a cancellation | cancellation |
| containers, shipments, warehouses, hubs (`container_handler.go`, `shipment_handler.go` and their managers) | `containers`, `container_items`, `shipments`, `packages.status`, Redis set `list_closing_shipment` | scan a package in or out, close, open, cancel, load, unload, close and send a shipment | package status, carriers |
| tracking (`tracking_manager.go`, tracking scheduler) | `trackings`, package status | poll carriers, replace a label | fees, refunds |
| TikTok label queue (`rabbitmq` with its consumers, OCR and upload schedulers) | two queues, label, recipient and tracking of a package | publish, store a label, read it, look for what was left over | package rows, weighing, billing |
| orders | `orders.status` | created with packages, status derived | packages |
| promotions and coupons (`promotion_manager.go`, `promotion_handler.go`) | `promotions`, `user_promotions`, `promotion_prices`, the prices in Redis | create, fill with customers, change, activate, end | price calculation |
| price calculation (`calculate.go`) | one object with the general prices and the prices of the last customer asked for; keys `promotion_price_<id>` in Redis | find the customer's table, cache it, quote | every handler that prices a package |
| tickets, users, settings | plain records | CRUD; nothing calls the manager of tickets | |
| labels and invoices, carriers, storage, alerts | none of their own | functions and external calls | all |

Behaviours that are hard to test here:

* a price, a VAT row, a top-up, a package or a quota is read, and used after
  other requests have run (stale state, lost updates);
* Redis keys meant as locks are tested first and set later, and one expires
  while its holder still runs;
* a label is bought from a carrier *before* the transaction that charges for it:
  an error or crash in between must not buy or charge twice;
* an error path returns without closing its database transaction;
* refunds are made after the commit of the cancellation, one by one; an error is
  logged and nothing tries again;
* what is paid, what a bill shows and what is refunded are three sums over the fees of
  a package, each over other types, and a refund does not ask whether the package was
  billed;
* a scan whose price cannot be asked for goes on without one; a package over the limit
  of its service has no price until its new label is bought;
* a bill's totals are written in two ways, summed again from the rows by a billing
  and incremented by fees and refunds, over midnight as well;
* `debt_time` is set and cleared by conditional statements spread over six
  transactions;
* weighing, billing, label readers and the upload of labels all write the row of one
  package, some the whole row as they read it, while a label is bought, read or stored;
* messages are acknowledged when they are delivered, so every error and every restart
  loses one, and only a scheduler that looks at the rows makes up for it;
* the stock, its log and the amount cancelled today are changed statement by
  statement, package by package, outside the transactions they belong to;
* all requests calculate prices with one object, which keeps the table of the last
  customer in a field without a lock, and a cache that never expires is cleared after
  the commit;
* where a package is stands in four tables (its status, the items of a container,
  the container's `shipment_id`, the shipment's quantity), changed by handlers that
  save whole rows as they read them before.

What makes each component correct:

* bills and balances: a balance moves only with a log row of the same amount; a
  bill equals its rows and the payments on it; `debt_time` says whether the balance
  is negative;
* top-ups: an approved top-up is credited once, a decision is final;
* labelling and charging: a package is charged once, exactly when it becomes ready
  for pickup; one label is bought; no customer exceeds the debt allowed; marks and
  locks go away;
* cancellation and refunds: everything paid for a cancelled package comes back but
  what is final, once and not more; services without refunds keep their price; waiting
  refunds are paid in the end;
* weighing and labels: what was paid for a package is what its price and its fees say,
  and that is the largest price asked for, of a weight or of a label over the limit, once; it has one tracking when it is
  labelled and none when it is cancelled; what was returned waits; a label is stored
  and read in the end;
* stock and quota: no stock falls below zero and the log adds up to it; the goods of a
  package are out once while it lives and back once when it is cancelled; the counter
  says what was cancelled today;
* tracking: a delivery the carrier reported once stays the status of the package;
* promotions and prices: a customer is in one active promotion, and is quoted the prices
  that promotion has, never another's or prices that were replaced;
* containers and shipments: a package lies in one container, its status says where
  the container is, a shipment counts its containers, and the labels of a shipment
  are bought for one closing.

## 2. Plan

| order | modules | content | state |
|---|---|---|---|
| 1 | `Ledger`, `Wallet`, `WalletAudit`, `WalletProofs` | money tables, transactions of the bill manager; abstract ledger; refinement and all safety properties proved | done |
| 2 | `TopUp`, `TopUpProofs` | overlapping decisions on a top-up; refinement of `Ledger` and all safety properties proved | done |
| 3 | `Charging`, `ChargingProofs` | Process, Delivery, ProcessCNPackage with faults; all its safety properties proved | done |
| 4 | `Refunding`, `RefundingProofs` | cancellation, both refund schedulers; all its safety properties proved | done |
| 5 | `Freight`, `FreightProofs` | packages, containers, shipments: membership, status and the closing of a shipment follow one another; the tracking scheduler beside them; all its safety properties proved | done |
| 6 | `Stock`, `StockProofs` | goods, their log, and the quota: the counters a cancellation changes outside its transaction; all its safety properties proved | done |
| 7 | `Parcel`, `Labels`, `Weighing`, `Intake`, `IntakeProofs` | the row of one package under billing, cancellation, the scales, the warehouse and the readers of TikTok labels, with lost messages; all its safety properties proved | done |
| 8 | `Pricing`, `PricingProofs` | promotions and the object that calculates prices, with its cache; all its safety properties proved | done |
| 9 | `Returns` | reshipping, the other writer of the balance, and hubs abroad | not started |
| 10 | `Orders` | an order and its packages, made under a key that whoever did not get it gives back as well | not started |

`Wallet` and `TopUp` both refine `Ledger`. `Charging` and `Refunding` look at the same
transactions from the side of the handlers, with a price of 1, and need no more of
the money tables than sums; a composed module would multiply their states and show
no interleaving that one of them does not. The bounds of the runs planned are those of
the present ones: two calls, one or two rows of each table, one fault. `Intake`
composes three modules over one row, because the interleavings of scales, label
readers and cancellation are what that row is exposed to; goods and quota touch no
column of it, so `Stock` stands alone.

Every invariant and every action property of the runs that pass has a theorem, and so has
the refinement of `Ledger`; what is left to TLC is in section 5.

## 3. Modules and code

### Ledger, Wallet, WalletAudit

`Ledger` is the abstract promise: a balance moves only together with one new log
row, by the signed amount of that row. `Wallet` is the database: each action is one
transaction of `pkg/sqlmanager`, in full.

| action | code |
|---|---|
| `GetOrCreateNowBill` | `bill_manager.go`, the bill of the day, its code is unique |
| `AddFee`, `SaveUpdatePackage` | fees a package is created with; an edit that reprices it |
| `ReadPrice`, `CreateBillWithLabelPromotion` | a handler adds up prices; later the transaction moves rows to the bill, sums the bill again, charges the price read before |
| `ReadPackages`, `CancelPackages` | a cancellation writes its packages back as it read them, bill included, with the new status |
| `CreateExtraFee` | late fee by staff, or refund by `PackageRefund.Handle`, which may be of a package that was cancelled before it was billed |
| `PackageRefund` | the refund scheduler's transaction |
| `ReadVat`, `UpdateVatAfterPretransit` | VAT row read without a lock; difference posted |
| `SaveTransaction` | decision on a top-up, as the money sees it |

Money is an integer within `-MaxMoney..MaxMoney`, the range of the
`decimal(11,2)` columns: a statement that would leave the range fails and its
transaction does nothing (strict mode). `WalletAudit` adds two history variables.
`adrift` collects the bills to which a *stale* read was posted, and those a
cancellation took a package off, because it was billed after it was read; `crossed` the
users whom a VAT change carried across zero; the properties claim the rest. The history is
computed from the step (what was read against what is there now), never by the
actions themselves, so the properties say exactly which interleavings are harmful
and that all others are right.

### TopUp

`Read` is a handler's read and status check, `UpdateTopup` and `ChangeStatus` its
later write. `raced` records the rows written after they had changed under the call.
It refines `Ledger` too.

### Charging

One customer, several requests. A request walks through the steps of its handler
(`guard`, `lock`, `funds`, `mark`, `label`, `codes`, `insert`, `carrier`, `bill`); the
code between two database, Redis or carrier calls is one action. `Start` is the
handler's read of the packages; `Guard` its checks; `Lock`, `Funds` and `Mark` the Redis
key of Delivery, the comparison with the balance and the marks in
`package_call_label`; `Label` and `Carrier` are CreateLabelHandler before and at the
carrier; `CheckCodes` and `CreatePackageCodes` the two halves of the transaction that
makes codes; `Bill` is CreateBillWithLabelPromotion. The price of a package is 1 here.
The constant `Worlds` is the set of initial situations: the deposit, the TikTok
packages, the packages of the China service and the number of faults. `Fail` is an error of a store at each step, with what its error
path leaves behind; `Crash` a restart, after which Redis keeps its keys; `Expire` the
two minutes of Delivery's key. `overlapped` records the packages two requests were
about to bill at once and `crowded` that requests overlapped at all.

### Refunding

A cancellation reads packages and fees (`Begin`), reads waiting refunds
(`ReadPending`), writes all rows back as they were read (`CancelPackages`) and then
goes through `PackageRefund.Handle` for the packages refunded at once
(`HandleFees`, `HandlePending`, `HandlePay`). `Tick` and `PackageRefund` are the refund
scheduler (`SkipRow` when the user of a row cannot be read, `SchedulerFails` for any
other error), `DeactivatePackageCodes` the status scheduler, `Ocr` the label consumer,
`Hold` the fee and refund row of a replaced label. `Fee` is a fee by staff: of a type that is refunded
with the package, of one that is not, or, for a type with `is_refund`, an amount given
back by hand. The constant `Worlds` is the set of initial situations: the traits of each
package (a TikTok label, a barcode, a fee for an early scan, a service without refunds),
the calls there are and the fees that may be charged. `Listed` says which packages a call
takes.

`extra` and `final` are the sums of a package's fees on the two sides of
`GetTotalExtrafeeToRefund`: what it adds up, and what it leaves out (the type
`ExtraFeeTypeEarlyScanTiktok`, which `Bill` charges with the package, and types that are
switched off). `Refundable` is what a cancellation starts from, `Net` what the customer
has paid in all. `disturbed` records the packages that changed while a call held them,
that were charged after their cancellation, or of which staff gave back more by hand than
was left besides what waits; `lost` those whose immediate refund failed or was cut off.

### Freight

Each handler is two actions: a read with the checks, which stores the rows read in
`call[c].seen`, and the transaction of the manager, which writes. `View` is what was
read; a transaction that saves whole rows writes them from there.

| read and checks | transaction |
|---|---|
| `Append` (scan a package) | `SaveContainerAndPackage`, or `SaveFailPackageContainer` when it does not fit |
| `Remove` | `CancelPackagesInContainer` |
| `Close` of a container | `CloseContainer` |
| `Cancel`, `Open`, `Update` of a container | `SaveContainer` |
| `CancelShipment` | `SaveShipment` |
| `Load`, `Unload` (a shipment's Append and RemoveContainerShipment) | `AppendContainerShipment`, `RemoveContainerShipment` |
| `CloseRequest`, then `SIsMember`, `SAdd` in Redis, `BuyLabels` or `Refused` at the carrier | `CloseShipment` or `CloseFails`, then the deferred `SRem` |
| `Intransit` | `IntransitShipment` |
| `Track` (the tracking scheduler reads a page of packages) | `NoNews` or `SaveDeliverLogPackage` for each of them, after the carrier was asked |

`item` counts the active rows of `container_items` (two scans can make two) and says
whether there is a failed one and an inactive one. `adrift` records the rows a
transaction wrote although what its call had read was out of date (`Wrote`), and the
packages whose status was set although they had left the container or had been
delivered (`told`: their `tracking_time` is that of the delivery); two closings of
one shipment put the shipment adrift. `bought` counts the purchases of labels, less
those of closings that failed afterwards (`Lose`). `Crash` is modelled while a shipment is marked: at other times a
restart only takes back what calls have read, which is the same as calls that never
go on.

### Stock

Statement by statement, because the handlers use no transaction for goods.

| actions | code |
|---|---|
| `Find`, `LogAdd`, `SaveProduct`, or `Insert`, `LogNew` | `CreateProductOrAddStock`: the product of the SKU is looked for, the log row written, the row saved as it was read with the quantity added |
| `SetStock`, `LogSet` | `Update` and `UpdateProduct`: the owner counts; the log says the difference to the row that was read |
| `Delete` | a product is made inactive |
| `Order`, `CreatePackages`, `Take`, `LogTake` | a package is created, its goods are looked for before and taken afterwards by `AdjustStock` |
| `Move` | billing, purchase and staff's cancellation, for which only the status matters here |
| `Begin` (`CheckCancelLimit2`), `Refuse`, `PassOver`, `GiveBack`, `FailBack`, `LogBack`, `CancelPackages`, `Count` | the customer's cancellation: quota and packages are read, the list is walked and goods given back on the way, then the rows are saved and the quota set |
| `Midnight`, `Fail`, `Crash` | the counter expires; an error; a restart |

`mixed` records the products a call set or saved while another was between stock and
log, `spoilt` the packages whose goods did not move with them, `miscounted` that the
counter missed something.

### Parcel, Labels, Weighing, Intake

`Parcel` is one row of `packages` with its fees and trackings, what a call keeps of it
(`Read`), and billing and cancellation. Each writer reads the row, and writes later: a
few columns, or (`UpdatePackage`) every column that is set in the row it read. `Labels`
are the two queues of TikTok labels with consumers and schedulers, `Weighing` the
machine, the check-in, the acceptance and the return, `Intake` composes them and adds
errors and restarts.

| actions | code |
|---|---|
| `Process`, `CreateBill` | a handler adds up the price, the billing writes the status; a message to the OCR queue is published after the commit |
| `Cancel`, `CancelPackages` | as in `Refunding`, with the trackings |
| `ConsumeUpload`, `TickUpload`, `StoreLabel` | the upload consumer and its scheduler: the link of a label is replaced by the stored file |
| `ConsumeOcr`, `TickOcr`, `Ocr`, `ReplaceTracking`, `CreateTrackingTiktok` | the OCR consumer and its scheduler: recipient, fees, old tracking, new tracking, each a statement or transaction of its own |
| `Scan`, `ScanFee`, `ScanSave` | `ScanWeight`: read, post the difference, write the row back |
| `CheckIn`, `WarehousInCheck`, `Mark`, `CallLabel`, `ExceedPrice`, `UpdateTracking` or `Finish` | `CreateTracking` of the warehouse: the status and the difference in one transaction, then the mark in Redis, the carrier, over the limit the price of the new label, and the new label or the status alone |
| `Accept`, `Claim`, `Carrier`, `ExceedPrice`, `WarehousChecked` | `Accept`: a label for a package that has none; over the limit its price is that of the label |
| `Return`, `ReturnPackage` | a package is given back to its customer |

The price of weight `w` is `w`, a weight stands for the size as well, and fees are kept
as sums by kind. Each situation has a `limit`, the last weight its service has a price
for, and says whether the package is too `long`, which only `CheckIsExceed` looks at.
Over the limit (`Over`, `Exceeds`) a check-in charges no difference (`Plus`), notes
`is_package_exceed` and has the label made anew; then `ExceedPrice` reads price and fees
again, and what the label costs (`Costs`) beyond them (`PlusExceed`) is charged with it.

A price that cannot be asked for does not end a scan: `ScanFee` goes on with a price of
0, so that a label of the house is charged nothing and a label of TikTok gets back all
that was paid by weight, and `ScanSave` saves the weight, over which no later check-in
charges anything; a package that is not billed yet keeps the price it has, because
`Updates` writes no zero.

`heaviest` is the largest price that was asked for since billing, of a weight or of a
label over the limit. `harm` says what a call wrote although it had changed since the
call read it: the status, money, the tracking; `volume`, that the machine charged a
difference without looking at the fees of volume; and `price`, that a scan went on
without one. `price` exempts nothing: `PaidForWeight` then says at most instead of
exactly.

### Pricing

A price table is a promotion and the version of its prices: what a price is does not
matter, whose it is does. Tables of weights are cached by the same statements and are
left out.

| actions | code |
|---|---|
| `Append`, `AppendUserToPromotion` | the handler looks for other promotions of the customers on its form; the manager's transaction takes out and adds |
| `Update`, `SavePromotion`, `ClearPrices` | `UpdatePromotion`: read and checks; the row is saved as it was read and the prices replaced; the keys in Redis are deleted if the status changed |
| `Quote`, `GetPrices`, `FindPrices`, `SetPrices`, `StorePrices` | `LoadPromotionPrices`: the promotion of the customer, its prices in Redis, in the database, into Redis, into the shared field |
| `BasePrice`, `Answer` | `basePrice` reads the field; while another request writes it, what it reads may be no table at all |
| `Fail`, `Restart` | an error of Redis; a new process, with an empty field, while prices were to be deleted |

`harmed` are the promotions written from a read that was out of date, put into Redis
after they had ended or changed, or left in it by an error; `crossed` marks a quote
during which another request set the field, or which took from Redis what was about to
be deleted. `right` is what the prices of the promotion were while the quote ran.

## 4. Runs

`CHECK_DEADLOCK FALSE` everywhere: the system may rest, and the bounds named in the
guards stop every behaviour in the end.

| run | instance | states | shows |
|---|---|---|---|
| `Wallet` | 1 customer, 2 packages, 2 requests, 2 fee rows; 2 days with top-ups, or 1 day with cancellations of both packages | 591 thousand | a bill agrees with its rows and its payments unless a stale read was posted to it, also while packages are cancelled and refunded that were never billed; `debt_time` follows the balance; the money tables implement `Ledger` |
| `TopUpCalls` | 2 customers, 2 top-ups, 2 calls | 154 thousand | decided once unless two calls collide, refinement of `Ledger` |
| `Charging` | 2 packages, 2 requests of all three handlers, in three situations: a plain and a TikTok package with a fault; two plain ones; two of the China service with a fault | 2.2 million | charged once, no overdraft, one label, no transaction left open |
| `ChargingEnds` | a plain and a TikTok package, no faults, fairness | 179 thousand | every mark is removed |
| `DeliveryTwice` | one TikTok package, two calls of Delivery | | **violation**: both calls charge it |
| `Refunds` | one package of each of five sorts, with 2 calls and one kind of fee or with 1 call and all of them; or two packages, both refunded at once or one of them never, with 1 call; 1 fault, fairness | 379 thousand | nothing refunded twice, nothing given back that was not paid but to a barcoded package staff cancelled unbilled, all of it refunded but what is final, services without refunds keep the price, every waiting refund is paid; a fault between the two refunds of a list too |
| `ExpiredKept` | 1 TikTok package | | **violation**: an expired package is never refunded |
| `Freight` | 1 package, 2 containers (labels are bought for one), 1 shipment, 2 calls (staff, or the tracking scheduler), 1 restart | 1.6 million | status, items, `shipment_id` and quantity agree; labels are bought once for a closing; every mark has an owner; a delivery that was read stays |
| `FreightRecalled` | 2 packages, 1 container, 1 shipment, 1 call | | **violation**: a package that had left the container is called `in-container` again |
| `Stock` | 1 product, 2 packages (one with a TikTok label), 2 calls, 2 pieces delivered, 1 fault | 3.4 million | no stock below zero, the log adds up to it, goods follow their package, the quota says what was cancelled today |
| `Intake` | 1 package in ten situations: 2 requests and 2 weights for a label of the house or of TikTok, both within the limit or one over it (one package also too long); 1 request and 3 weights, within the limit, over it, or to Australia; 1 request with consumer and scheduler of the upload or of the readers, or both schedulers alone; 1 fault, among them a price that cannot be asked for; fairness | 1.4 million | what was paid is recorded and is the largest price asked for; one tracking; a returned package waits; labels are stored and read in the end |
| `Pricing` | 2 promotions (one with prices to be changed once or twice), 2 customers, one of them hidden, 2 calls, 1 fault | 2.9 million | a customer is in one promotion; a price is of the table he had during the call |

Bounds. `MaxLog` limits the log (3 or 4 rows: billing, a late fee and its refund; or
two decisions on two top-ups), `MaxMoney` the amounts (2: debt, credit and the end of
the range are all reached), `FeeIds` the fee rows, `Days` the calendar, `MaxFees` the
late fees of each type of a package, `MaxRows` the table of waiting refunds,
`MaxFaults` and the faults of a world errors and crashes (1: a single failure at any
step of any request), `DebtMax` with the deposit the means of the customer, chosen so
that the last package of a list cannot be afforded. In `Freight`, `MaxQuantity` and
`MaxLabels` (2) leave room for what a lost update or a second closing can make of a
counter, and `MaxAdrift` (0) lets no call begin after a row went adrift: the calls
that run go on to their end, so every way into the harm and what follows at once is
seen, but not what is built on it. In `Wallet` a behaviour begins on one of the days
`FirstDays`, and `Deposits` and `Cancellable` say by day what is paid in and which
packages are cancelled: nothing is cancelled on the two days around midnight, where
top-ups and VAT changes make the states, and nothing is paid in on the day of
cancellations, which needs no midnight, since what a cancellation adds is the row it
writes back and the refund it posts. In `Stock`, `MaxStock` (2) lets the product be
filled up once, `Limit` (0) makes every second cancellation of a day one too many; in
`Intake`, `MaxPaid` (10) is above what three weights and a held price can add up to
without harm; `Costs` (1 and 3) lets a label over the limit cost less than the package
or more. In `Pricing`, `MaxVersion` lets the prices of the first promotion change
twice and those of the second once, from none or from some, and staff choose between
two statuses (`Choices`), because a draft and an ended promotion are treated alike.
`MaxHarm` (0) of these is `MaxAdrift` again: no request begins after something was
harmed. Three weights are needed for a difference that is charged in two parts. Races
in this code are between two parties over one row, so two requests and one or two
packages show them; two packages are needed where a list matters (codes by position,
TikTok after plain ones, locks on the packages before a failing one), two containers
where a package or a shipment could be in the wrong one. `Requests`, `FeeIds` and
`Calls` are symmetric: nothing orders them. The runs with liveness properties use no
symmetry. One customer is enough in `Wallet`, because bills, balances and `debt_time`
of two customers share nothing but the log; that the ledger and `debt_time` are right
for any number of them is proved.

Fairness. `ChargingEnds`: a running request goes on (`WF` of each request's `Step`), as
goroutines do while the server runs, and a wait for a locked row ends with the
database's timeout (`WF` of `Fail` without a fault). `Refunds`: the ticker fires
again and again over *all* unpaid rows that are old enough and a round walks its list
(`WF` of `Tick` and of `PackageRefund`); an error ends a round or takes a row out of
it, finitely often.
`Intake`: each scheduler's ticker fires again and again and, with each consumer, goes on
with what it has begun (`WF` of `Automatic`, one loop in one goroutine each). That a
scheduler looks for what was left over rests on the 14 days it looks back: the models
have no longer delay. A consumer need not take a message at all, and faults come finitely
often.
Nothing else is assumed; in particular no request has to begin.

## 5. Proofs

`WalletProofs` proves, for every number of users, packages, requests, days and every
amount:

* `TypeCorrect`: `Spec => []TypeOK`. The inductive invariant is `TInv`, `TypeOK` and
  `HeldRows`: the fee row a VAT change holds exists. Without it the row written back
  could be no row at all; it holds because no transaction deletes a fee row. The
  decimal range is kept because each statement that moves money checks it.
* `LedgerImplemented`: `Spec => ImplementsLedger`. Each action either changes
  neither balance nor log, or is `Post` of the entry it appends.
* `DebtTracked`: `AuditSpec => []DebtTimeTracksDebt`. By cases over the sign of the
  movement: each conditional statement restores the equivalence for its direction, and
  the VAT change, which runs none, either keeps the sign or puts the user into
  `crossed`.
* `RowsOnBills`: `Spec => []Refs`, what the tables refer to. A new package is on no bill,
  with all its fees, and a billed one is on a bill, with all its fees, whatever
  cancellations, refunds, fees and VAT changes run between. Of a cancelled package this
  is not true, since its refund is on the bill of the day whether it was billed or not;
  the bills of packages, fees and log rows exist; a VAT row that a change holds stays
  enabled; a quote that waits is for at least one package, and the rows a cancellation
  holds name bills that exist.
* `BillMatchesRowsHolds`: `AuditSpec => []BillMatchesRows`. The inductive invariant is `TInv`,
  `Refs` and `RowsInv`. Two ways to write a total meet in it: billing
  sums the rows anew (`BillTotals`), a late fee or a VAT change increments what is there. Each
  increment changes one weight of one sum (`OneFeeMore`, `OneFeeChanged`) and no other row
  of the bill (`SameShipping`, `SameFees`); that a package billed once takes no fee off
  another bill is `Refs`. A cancellation leaves every sum as it is, unless what it writes
  back is not what is there (`StaleCancels`). A billing with a stale price puts the bill adrift, otherwise the
  price it writes is the one it read (`BillStale`).
* `BillMatchesPaymentsHolds`: `AuditSpec => []BillMatchesPayments`. `PaysInv` needs `RowsInv`
  beside it: a billing is logged with the price of the whole list, a sum over packages of
  price and fees (`PriceParts`), while the bill gets the two sums separately.
* `BalanceIsLoggedHolds`: `Spec => []BalanceIsLogged`, that a balance is the sum of the
  signed rows its user has in the log. It follows from the refinement
  alone: a step of `Ledger` adds one number to both sides.

The sums of these theorems are over sets, for any number of rows, in no order. A set adds
up to the number that every relation gives it which relates the empty set to 0 and
follows each weight that is added (`IsSum`); the folds of the community modules, which
take the elements in an order `CHOOSE` picks, are shown to be that number (`FoldSums`),
because a smallest set where the two differ would lose an element (`LeastPart`).

`TopUpProofs` proves `TypeCorrect` and `OnceDecided` (`Spec => []DecidedOnce`), whose
inductive invariant adds what a call knows: the row it holds has the status it was read
with, and if the row has not changed under it, it is the row in the table. It also proves
`LedgerImplemented` (`Spec => ImplementsLedger`): a call that reaches its update posts one
row or none, however old what it read is.

`FreightProofs` proves, for every number of packages, containers, shipments and calls,
and without any of the bounds mattering, first `MarksAlwaysOwned`: `Spec =>
[]MarksOwned`. `MarksOwned` is not inductive,
since a call that has yet to test the mark of another one counts as a closer and goes
away without removing it. The inductive invariant `MInv` speaks of owners, the calls
that have set the mark themselves: a step of any other call keeps every mark owned
(`OthersKeep`), an owner remains one through purchase, save and failure
(`OwnersStay`), and leaves only with `SRem`, which removes the mark.

It also proves `DeliveriesKept`: `Spec => []DeliveryKept`. The inductive invariant `DInv`
adds what a call knows of the packages whose rows it will write (`Undelivered`: read as
not delivered; `NotTold`: their delivery was not read since, unless they are adrift) and
that only one page is worked off at a time. A scan that would overwrite a delivery has
then read something that changed, and `Wrote` puts the package adrift; the other
statements set the status without looking, and `Moved` says of whom.

The five other properties of `Freight` are proved in layers, each invariant with those
before it:

* `TypeCorrect`. `TInv` adds `Scans`, that the items of a package in a container and the
  scans under way that will add to them are no more than there are calls, and `Saved`,
  that the purchases counted for a shipment are at least those that a failure would
  count back.
* `QuantitiesCount` and `InOneContainer`. `HInv` adds `Held`: what a handler checked is
  true of the rows it has read (`Fact`). If it is not out of date these are the rows there
  are (`Fresh`), so the check still holds when it writes; if it is, `Wrote` and `Moved` put
  adrift whatever the write can disturb, the shipment a container was in meanwhile
  included. `Waits` adds that a container that is open is in no shipment.
* `StatusesFollow`. `Follows` is the property itself, with `HInv` beside it: a scan finds the
  package nowhere and its container in no shipment (`ScanFollows`), and whoever closes or
  sends a shipment has read all its containers (`SendFollows`), because the quantity
  it read counts those it read and the quantity there is those there are.
* `LabelsAreAccounted`. `Labels` says of a shipment that is not adrift that one call at most
  closes it, that this call finds it unsent until it has saved it, that a sent shipment is
  not empty (so nobody cancels it, to have it closed once more), and that a purchase
  stands only if that call will save it or the shipment was sent.

`StockProofs` proves, for every number of products, packages and calls, every quantity
and every number of faults:

* `TypeCorrect`: `Spec => []TypeOK`. The inductive invariant adds `Sound`: the rows that
  packages and running calls name exist. Without it a call could take goods from a
  product that is not there, and `product[i].stock` would have no type; it holds because
  products are only made inactive and never deleted (`RowsStay`).
* `NoOverselling`: `Spec => []NeverOversold`. `NonNegative` adds what a delivery holds to
  write: the row it read was not negative either, so saving it is harmless for this
  property, stale as it may be. Every other statement tests the stock it changes.
* `GoodsFollow`: `Spec => []GoodsFollowPackages`. The property is silent about a package
  that a running list names, and two lists can both give its goods back before either is
  saved. `GInv` follows what is owed through that (`Account`): nothing is out as long as one
  list gave the goods back; when two did, or the package went on after a list had read it
  (`Late`, by the rank of the status), the one that is saved second finds the row changed
  and the package spoilt. `CallsSound` says that a list has given back or passed over all
  it need not look at any more, `OneOrder` that no two orders make the same package.
* `QuotaCountsHolds` and `LogAccountsHolds`. Both properties speak of the moments when no
  call is between two statements. In between, `cancelled` and the counter differ by the sum
  of the amounts that saved lists will still count (`QInv`), stock and log by the sum of
  what the calls between them have done to one of the two (`Balanced`), unless a call has
  just set the stock and is alone with the product. A sum is stated
  without an order of the calls (`IsSum`): a set adds up to whatever every relation gives
  it that relates the empty set to 0 and follows each weight that is added. That a call
  enters or leaves (`SumAdds`, `SumDrops`) follows from this by a suitable relation.

`PricingProofs` proves, for every number of promotions, customers and calls, and without
the bounds on faults, versions and harm mattering:

* `TypeCorrect`: `Spec => []TypeOK`. The inductive invariant `Inv` adds `Sound`, what the
  step a call is at says of the rest of it: a quote that fills Redis holds rows that exist.
* `OnePromotionHolds`: `Spec => []OnePromotion`. What a call writes was decided from rows
  read in an earlier step, so the property says too little to be inductive. `OInv` adds
  `Decided`: as long as nobody wrote those rows, the customers a call will add, or those of
  the promotion it will activate, have no other active promotion. `OthersDecided` shows
  that a write leaves this true of every other call or marks its read outdated
  (`RowsTell`: equal rows mean equal promotions); `Added` that a write under `Decided` adds
  one promotion to a customer who has no other, and that any other write is of a promotion
  in `harmed`.
* `QuotedRightHolds`: `Spec => []QuotedRight`. The invariant says what the call, the shared
  object and Redis hold before the price is there. `CacheRight`: prices in
  Redis that no call is about to delete are the present ones of an active promotion, since
  prices are replaced only while it is not active and the key is deleted when it becomes
  active or ends.
  `Justified`: what a call has read, is about to save or finds in the shared field is a
  table the promotion had since the call found it, unless requests crossed in the field.

`ChargingProofs` proves, for every finite set of packages, any number of requests, errors
and crashes, and every debt that is allowed:

* `TypeCorrect`: `Spec => []TypeOK`. `Inv` adds the shape of a running request (`Fit`: what
  it is about to bill is among what it has left, its rows were read, and a status that
  was read and allows no billing ends it before) and `Later`: a status that was read is
  the one there is, unless the package was billed since. What the steps do to the
  request that takes them is said once, by `Starts`, `Goes`, `Locks`, `Looks`, `Picks`,
  `Inserts` and `Follows`, and every invariant is proved from these.
* `LabelledOnceHolds` and, of `ChargedOnceHolds`, the count of charges. `HoldInv` says that
  two requests that hold a package put it into `overlapped`, so a step that writes only
  what its request holds disturbs no other (`BillStep`). `BillInv` adds `Unbilled`: what a
  request holds is not billed yet, and what it knows of the tracking is what there is.
* The codes in `ChargedOnceHolds`. `CodeInv` says which code a request knows of a package,
  before and after it makes one (`CodeKnown`, `Made`), and which rows of `package_codes`
  there are for a package that is not billed. The shift of the codes cannot happen while
  nobody overlaps: the list `CreatePackageCodes` is called with is then the list of valid
  packages (`ListedIsNow`), and no two packages have the same place in it (`Places`).
* `NoOverdraftHolds` and `NoneLockedHolds`. `LoneInv` is about requests that come one at a
  time: each finds the status it read (`Affords`), can pay for what it has left, however
  the price was checked, and finds no code of its own made (`AloneMakesCodes`).

`IntakeProofs` proves, for every number of calls of every kind, every set of weights and
every number of errors and losses:

* `TypeCorrect`: `Spec => []TypeOK`. `Inv` adds `Held`: what the step a call is at says of
  the row it read, since that row is written back.
* `PaidAsRecordedHolds`. `MoneyInv` says of the row and of every copy a call holds that
  nothing was paid while unbilled and what price and fees say after that (`Settled`), and
  that a package billed when it was read is billed still, at the same price
  (`StillBilled`); without the second part a scan could save a price over another.
* `PaidForWeightHolds`. `WeightInv` adds that with a label of the house fees only grow, so
  that a difference that is charged was computed from at most what there is, and says the
  same, at most, once a scan went on without a price. Which price was asked for
  last is said once for all steps that charge (`Tops`): the difference takes the sum to
  the price asked for, or leaves it where it was above; over the limit the price is that
  of the label, and the sum it is held against the one read just before.
* `TrackingFitsHolds`. `TrackInv` adds the same for the copies, and that a tracking somebody
  saw is there, or is being replaced, as long as the package has not ended.
* `ReturnedWaitsHolds`: `Spec => ReturnedWaits`. `AlertInv` says which status a package with
  the alert can have; `Moves` which changes of status a call makes if the package is still
  as it read it.

`RefundingProofs` proves, for every finite list of packages and any number of calls, rows,
fees and faults:

* `TypeCorrect`: `Spec => []TypeOK`. `Inv` adds the shape of a running call (`Fit`: it
  refunds what it has read, nothing of a service without refunds, and only amounts above
  zero) and that the rows in `todo` are not paid. `PendingSum` is a fold over a set in an
  order `CHOOSE` picks; `SumFolds` shows that it is the number the set adds up to (`IsSum`,
  as in `StockProofs`), because a smallest set where the two differ would lose an
  element. What a row that is added or paid does to it follows (`RowPaid`,
  `RowsCreated`).
* `PriceKeptHolds`: `Spec => []PriceKept`. `KeptInv` says it of `Left`, what is left of price
  and refundable fees with the waiting rows taken off and what staff gave by hand put
  back (`Given`); it names the two steps of a cancellation after which less is left,
  neither of which a package of such a service gets to.
* `NotOverRefundedHolds`: `Spec => []NotOverRefunded`. `LeftInv` adds what each call knows:
  after a read of the fees, the price and the refundable fees there are, and after a read
  of the waiting refunds exactly `Left`, as long as nobody else changed the package. Since `Left` counts a price whether
  or not it was paid, this is enough for billed packages only. `UnbilledInv` is about the
  others: no fee, row or refund touches one that is not billed (`Unpaying`), until staff
  cancel it with a barcode, after which it gets one price (`Spared`).
* `CancelledSettledHolds`: `Spec => []CancelledSettled`. `SeenInv` says that the status a call
  will decide by is still the one there is, `SettledInv` that a package cancelled in time has
  nothing left of what is refunded or is among those a call is about to refund. `CancelsInTime` is the heart of
  it: of a package that is cancelled in time, one of the branches of CancelPackages
  takes care, for each kind of call, status, tracking and label.

Assumptions: `WalletConstants` (owners, days and amounts are what their names say,
`NoRow` and `NoBill` are no rows, and there are finitely many packages and fees, so that
their sums exist), `TopUpConstants`, `FreightConstants` (finitely many
containers and calls, so that quantities and items can be counted), `StockConstants`,
`PricingConstants`, `ParcelConstants`, `ChargingConstants` (packages are numbers, finitely
many), `RefundingConstants` (the same), `NoneIsNoRow`, `IdleIsNoCall` and
`IdleIsNoRequest` (the model values `NoRow` and `Idle` are no rows, calls or requests). TLC evaluates them in every run.

Model-checked only: the liveness properties (`MarksGo`, `RefundsPaid`, `LabelsDone`), which
rest on fairness and are out of the provers' reach.

## 6. Findings

Three properties that the code's own messages, comments or tables of names state do not
hold; `PROJECT.json` quotes each line.

1. `DeliveryTwice`: Delivery reads the package, then tests its Redis key, and does not
   look at the answer of `SetNX`; a second call charges the package again.
2. `ExpiredKept`: an expired package would be refunded only without
   `label_promotion`, which every billing sets.
3. `FreightRecalled`: taking a container out of a shipment sets the status of all
   packages that ever were scanned into it, also of those taken out since.

Observed besides, and covered by the histories of the models, because no line of the
repository promises otherwise: two overlapping approvals of one top-up both credit it
(`raced`), because `ChangeStatus` checks the status of a row it read before its
transaction; ProcessCNPackage takes purchased packages and the label
handler created ones, so that such a package is answered with success and not
billed; two overlapping cancellations each leave a full refund; two scans of a package
put it into two containers; two closings of a shipment buy its labels twice; a
restart leaves packages in `package_call_label` and shipments in
`list_closing_shipment` for good; `CloseContainer` looks for packages by a column
that nothing ever sets.

Of refunds, and named in the properties instead of left to a history: staff who cancel a
package with a TikTok barcode cancel it whatever its status, and `PackageRefund.Handle`
gives its price back without asking whether it was billed, so that a *new* package costs
the shop a price nobody paid, in one call and without any race (`RefundedUnbilled` in
`NotOverRefunded`; the fee it posts is on a bill the package is not on, which is why
`RowsOnBills` says nothing of cancelled packages). No line of the repository says
otherwise, so there is no run that expects a violation. The fee for an early scan of
TikTok and fees of types that are switched off are charged but never refunded (`final` in
`CancelledSettled`). Staff may give back an amount by hand at any time (the type decides the sign),
which nothing compares with what was paid or waits to be refunded; a package of which more
is given than is left is in `disturbed`.

Of prices at the scales: after three errors of the price calculation ScanWeight refuses the
package, after any other it goes on with a price of 0 and saves the weight. A package with
a label of the house is then carried at the old price, since the check-in finds it as heavy
as known; one of TikTok gets back all it paid by weight (`price` in `PaidForWeight`). A package that is over the
limit and keeps its label, because its carrier is not asked or its new label could
not be saved, is charged nothing for what it weighs more.

Of tracking: a shipment that is sent, or a container that is loaded, takes its delivered
packages back to `in-transit` or `in-shipment`, and because the delivery is not newer than
`tracking_time` the scheduler never delivers them again; a round waits for as many pages as
there are but starts at most a hundred routines, each of which works off one page, so that
more than a hundred thousand trackings stop the scheduler for good; pages are cut by offset
from a list the round itself shortens, so that packages are passed over until the next
round; the branches for carriers other than Kiloship, and with them the fee for returns,
cannot be reached.

Of weighing and labels: ScanWeight looks at fees of weight but not of volume, so that a
package checked in, returned and scanned pays twice; a check-in without a tracking leaves
a mark in `package_call_label` which nothing takes away; a checked-in package whose new
label could not be saved has a tracking, so that neither Accept nor the check-in will label
it; reading the label of a package that was not billed yet drops its fees for size, service
and batteries; a label that could not be
stored when it was bought is lost; labels that begin with `http` but not `https` are
looked for by the scheduler and never stored; schedulers look back 14 days only.

Of stock and quota: goods of a billed TikTok package are never given back; a delivery may
be negative; a list refused half-way keeps the goods it gave back; the quota set in the
last second of the day never expires; overlapping cancellations forget one of the
amounts.

Of prices: a customer can be quoted the prices of another one, or without any, when two
requests calculate at once, because all of them set one field of one object; a table put
into Redis just after its promotion ended stays there until the next change of its status,
without expiry; a change of the general prices deletes a key nobody reads, and is not
seen before the server restarts; two forms, or a form and an activation, put a customer
into two promotions, of which he is then quoted the older.

## 7. Not modelled

The search in a price table, volumes and surcharges (sequential arithmetic in floating
point; a price is a constant or a table here), drawing of
labels and invoices, HTTP routing, validation of addresses, lists and statistics, log-in:
no state that several steps share. Half of the repository's lines (81 of 161 thousand) are tables of
bytes: the fonts of labels and invoices (`pkg/label/font`, `pkg/invoice/font`). Of the rest, most handlers list, validate and format. Reshipping and orders are in the plan, not started. Nothing calls the manager of tickets. Of weighing, the rows of `checkin_packages` (a report), packages of the service FBA
and the surcharges of a check-in (peak season, batteries, outsize) are left out, and so are
the refunds of a promotion that follow a difference (`PromotionExtras`), the prices of the
services TebprintHub, LABEL and CN in ScanWeight (the difference is computed before the
price of the first two is replaced, and CN has a price of 0), packages that are over the limit when
they are created, and the statement with which a check-in of the service ACTUS takes a mark away. Of refunds, types of fees that are switched on or off while packages have fees of them
(no code writes their table) and the daily limit (which is in `Stock`). Of stock, the
services without refund, which a cancellation does not count. Of `Freight`, delivery events of
staff (they only add log rows: every caller passes `delivered` as false), the pages of a
round of the tracking scheduler (one is read after the other is done, which is the order
their mutex gives them), the hubs abroad (the
functions of the managers that would change the rows modelled here have no caller) and
the shipments customers make for themselves are left out. A cancellation or a return of
a package that lies in a container is not composed with `Freight` yet: its properties speak
of packages that only staff of containers and shipments move. The carriers are external: a label
is bought or refused. MySQL transactions are taken as atomic and isolated as far as
single statements go; values read *before* a transaction begins are separate
steps, which is where the handlers' races are.
