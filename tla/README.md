# IDURAR ERP/CRM in TLA+

A verification project for the IDURAR ERP/CRM application: a Node.js server
(Express, Mongoose, MongoDB) under `src/backend` and a single-page client
(React 18, react-redux, antd) under `src/frontend`. The modules here model the
parts of it whose correctness depends on the order in which things happen: the
handlers of the server run concurrently over a database that offers no more
than atomic operations on single documents, and the client renders answers that
arrive late, out of order or not at all.

Paths below are relative to `src/backend/src` (server) and `src/frontend/src`
(client).

## 1. The system

### How it runs

*Server.* Every route ends in an async handler wrapped in `catchErrors`
(`handlers/errorHandlers.js`), which turns a rejected promise into a 400 or 500
answer and undoes nothing. Node.js runs a handler up to its next `await`, so a
handler is a sequence of steps with one database operation each, and the steps
of concurrent requests interleave. No code uses a MongoDB transaction or a
version check, and the process may stop between any two steps.

*Client.* One task runs at a time. A click, or the arrival of an answer, makes
dispatches; React flushes the rendering and the effects they cause before the
next task. Requests go through `request/request.js`, whose `errorHandler`
answers in place of a server that does not.

### Components

| Component | State | Operations | Modelled in |
|---|---|---|---|
| Invoices (`appControllers/invoiceController`) | the `Invoice` collection: total, credit, paymentStatus, list of payments, removed | create, update, remove; reads | `Ledger`, `Numbering`, `Figures` |
| Payments (`appControllers/paymentController`) | the `Payment` collection: amount, invoice, removed | create, update, remove, each followed by a write to the invoice | `Ledger` |
| Taxes, payment modes (`taxesController`, `paymentModeController`) | a collection with the flags `enabled`, `isDefault` | create, update; delete always refuses | `DefaultEntry` |
| Quotes (`quoteController`) | the `Quote` collection | create, update, as invoices without payments | `Numbering`, `Figures` |
| Generic CRUD, clients (`middlewaresControllers/createCRUDController`) | any other collection | one database operation per handler | the server's half of `CrudPanel`; summary of clients: `Figures` |
| Dashboard (`*/summary.js`, `modules/DashboardModule`) | none on the server; a table of recent invoices in the browser | read-only aggregations | `Dashboard`, `Figures`, `ErpPages` |
| Settings (`settingController`, `middlewares/settings`, `redux/settings`) | key/value documents, among them the counters `last_invoice_number` and so on; each browser's copy of them | list, update many, increase | `Numbering` |
| Sessions (`createAuthMiddleware`, `createUserController`, `redux/auth`, `storePersist`) | the list of tokens of each user; the localStorage its tabs share; store and header of each tab | login, check, logout, reset of the password, profile | `Sessions` |
| PDF download (`handlers/downloadHandler`, `controllers/pdfController`) | one file per document | remove, render, send | `ServerProcess` |
| Setup, reset (`setup/`) | the first documents | run from the command line | `ServerProcess`; what a setup leaves is `Init` of `DefaultEntry` |
| Table page in the browser (`modules/CrudModule`, `redux/crud`, `context/crud`, `components/SearchItem`) | the redux store `crud`, the panel, the forms, the search field, the dialog, calls in flight | list, show, edit, search, create, delete and their answers | `CrudPanel` |
| Invoice, quote and payment pages in the browser (`modules/ErpPanelModule`, `redux/erp`) | the redux store `erp`, the page of the URL, calls in flight | list, read, create, update, delete, record a payment | `ErpPages` |
| Uploads, mail, locale, formats, layout | none that others read | I/O and presentation | not modelled |

How they interact: the payment handlers write the invoice of the payment
(`$push`, `$inc` and `$set` in one update); the removal of an invoice removes its
payments by `updateMany`; the create handlers of invoices, quotes and payments
increase a counter in the settings without awaiting it; every client page calls
the server through `request`; the components of a client page share one slice of
the redux store, in which each kind of call (list, create, read, update, delete)
has a single slot with a single loading flag.

### What is hard

* **Two documents, two writes.** A payment handler writes the payment, then the
  invoice. Other requests, failures and stops fall in between.
* **Read, decide, write.** Limits and statuses are computed from an invoice that
  was read before the last write, while the credit is moved by `$inc`. The credit
  is thus immune to interleaving and the status is not.
* **Flags moved between documents.** A tax that becomes the default takes the
  flag from the others first and sets its own last.
* **Soft deletion.** Some updates filter on `removed: false`, others do not.
* **Late answers.** The stores of the client do not know which call an answer
  belongs to: a slot can be emptied by the answer to a call that was left behind.
* **State that several actors share without knowing.** The tabs of a browser share
  one stored login; two downloads of a document share one file; two browsers
  propose numbers from one counter, which is counted on by a call that nobody
  waits for.
* **Two computations of one figure.** Browser and server both compute the totals
  of a document, with roundings of their own; the dashboard sums up by three
  scans what the payment handlers keep in step.
* **Effects that depend on changes.** `useEffect(..., [isSuccess, current])` runs
  only if one of the two changed, so two successes in a row count as one.

### What makes each component correct

* Invoices and payments: the credit is the sum of the live payments; the status
  follows from total and credit; the list names the live payments; a removed
  invoice has none; removed documents stay as they are; no payment exceeds what
  is open; alone, each handler is one atomic operation of an account book.
* Taxes and payment modes: exactly one default, and the one that was asked for.
* Table page: what is shown is what is stored, what is sent is what is shown,
  and no spinner stays.
* Invoice pages: an answer never changes a page it is not for; a form that is
  saved was filled from the document it is saved to.
* Settings: a proposed number is new, a save changes what its user changed, the
  copy of a browser does not go back, and the app comes back to the screen.
* Sessions: a tab acts for the user it shows; what is stored as the login can be
  used; after a logout its token does not pass; a link resets a password once.
* Figures: what the form shows is what the server stores and the page shows
  afterwards; shares add up; the amounts of the dashboard tell one story.
* PDF: a file that is sent is whole and of the document; every request is
  answered. Setup: a database it has left is whole.

## 2. Modules

| Module | Role |
|---|---|
| `Sums` | sums of integer functions over `1..n`, by a recursive function |
| `Ledger` | the server's invoices and payments |
| `AccountBook` | abstract: what the invoice and payment routes promise a user who works alone |
| `LedgerSerial` | `Ledger` restricted to one request at a time, and its mapping to `AccountBook` |
| `LedgerProofs` | type correctness, conservation of money and the other safety properties of `Ledger`; that the amounts of `Dashboard` add up; what `Figures` guarantees for every input; lemmas about sums |
| `LedgerSerialProofs` | what one request at a time guarantees, and the refinement of `AccountBook` |
| `DefaultEntry`, `DefaultEntryProofs` | the default tax or payment mode, and the proofs about it |
| `Figures` | the totals of a document and the shares of the dashboard, as operators |
| `Dashboard` | the amounts of the dashboard over the collections of `Ledger` |
| `Numbering`, `NumberingProofs` | the numbers of documents: counters, copies in browsers, the settings store |
| `Sessions`, `SessionsProofs` | who is logged in: server, localStorage, tabs |
| `ServerProcess`, `ServerProcessProofs` | the one process of the server: downloads, stops, setup and reset |
| `CrudPanel`, `CrudPanelProofs` | the table page of the browser |
| `ErpPages`, `ErpPagesProofs` | the pages of invoices and payments of the browser, and the dashboard's table |
| `MCLedger`, `MCLedgerSerial`, `MCDefaultEntry`, `MCNumbering`, `MCSessions`, `MCServerProcess`, `MCCrudPanel`, `MCErpPages` | instances for TLC |

`LedgerSerial` composes `Ledger` with `AccountBook`, `Dashboard` composes `Ledger`
with `Figures`; `Sessions`, `Numbering`, `CrudPanel` and `ErpPages` each hold both
halves of their part, the server's and the browser's.

Lines that begin with `Mutant:` introduce a deliberately wrong variant of the
definition that follows it. `PROJECT.json` says which property catches it.

### Ledger

State: `invoice` and `payment` are the two collections, with a `state` of
`absent`, `live` or `removed` for the existence of the document and its
`removed` flag. `request` holds the requests in flight, one per slot: the step a
handler is at (the database operation it awaits next) and the values it keeps in
its local variables. `flaws` and `fresh` are history variables, which no guard
reads: the first records what an interleaving or a failure did to the books of an
invoice, the second whether the last handler that wrote the status had read the
values it replaced.

One action is one database operation with the code around it up to the next:

| Handler | Actions, in order |
|---|---|
| `invoiceController/create.js` | `CreateInvoice` |
| `invoiceController/update.js` | `ReadInvoiceToUpdate`, `WriteInvoice` |
| `invoiceController/remove.js` | `RemoveInvoice`, `Cascade` |
| `paymentController/create.js` | `ReadInvoiceToPay`, `InsertPayment`, `BookPayment` |
| `paymentController/update.js` | `ReadPaymentToUpdate`, `PopulateToUpdate`, `WritePayment`, `BookAmendment` |
| `paymentController/remove.js` | `ReadPaymentToRemove`, `PopulateToRemove`, `RemovePayment`, `BookRemoval` |
| `catchErrors`, a stop of the process | `Fail`, once for each request that is cut off |

The payment schema populates the invoice by a plugin, with a query of its own
after that of the payment; hence the separate `Populate` actions. Requests that
are refused before they write leave no trace and are not actions, and neither are
reads. `updateMany` in `Cascade` is one step, although MongoDB guarantees
atomicity only for each document it writes. Money is counted
in cents, so the difference between `$inc` on binary fractions and the rounding
in `helpers.js` is outside the model. Totals are given rather than computed from
the items.

`AccountBook` has an account per invoice and an entry per payment, and atomic
operations. The mapping in `LedgerSerial` lets a payment handler take effect at
its write to the payment: the balance of an account is the credit plus what the
request in flight still owes to it.

### DefaultEntry

`entry` is the collection of taxes, `request` the requests in flight, each with the
entries that `others` have made default meanwhile, `mishaps` the history of overlaps
and failures. `create` is `ReceiveCreate`, `Clear` (only
if the body asks for the default), `CountDefaults`, `Insert`. `update` is
`ReadEntry`, then `Demote` or `Promote` depending on whether the entry will be
enabled and default, then `CountAll` and `WriteEntry`. A field of the body may be
`Unset`. Which other entry `findOneAndUpdate` picks is left open. Both
controllers follow this protocol; the lines of `taxesController` are the ones
mapped, except where `paymentModeController` shows the same step more plainly.

### CrudPanel

`doc` is the collection on the server, `store` the slice `crud` of the redux
store, `view` the components' state (dialog, box of the side panel, what the form
and the dialog hold), `call` the calls in flight. Three kinds of action: the
user's (`LoadTable`, `ShowRow`, `Edit`, `CancelEdit`, `AskToDelete`,
`ConfirmDelete`, `CancelDelete`, `SubmitCreate`, `SubmitUpdate`), the server's
(`Serve...`), and the arrival of answers (`Answer...`, `Lose`), which includes the
effects of the components. Those of `CreateForm` and `UpdateForm` reset the slot
and load the table; that of `DeleteModal` loads the table and leaves the slot as
it is, and runs only when `isSuccess` or `current` changed. The fields of a
document are its revision. A page or a search of the table is the set of
documents it selects.

The search field of the panel (`Type`, `Pause`, `Select`, `AnswerSearch`) has a
text that waits to be sent, the text sent last, the options it offers and the
result it finds the chosen one in, which is the store's. A text stands for the
set of documents it finds. Typing the text sent last again within the pause
empties the options and sends nothing (`SearchItem/index.jsx:34-67`).

Left out: which parts of the side panel are folded away, the form for passwords,
the `read` slot (no component of this page reads it), and other users.

### ErpPages

`doc` is the server's collections, `b` the browser: the page of the URL, the slots
and the list of the store, the current item, the dialog, the dashboard's table,
and the bag of calls in flight. A document is its id. What a page shows is defined
from the store (`Shown`, `Form`, `FormOpen`, `PageOpen`), since the components
refresh their copies by effects in the task that changes the store. An action is a
task: a click (`ShowRow`, `EditRow`, `PayRow`, `DeleteRow`, `NewInvoice`,
`EditShown`, `SaveInvoice`, `SavePayment`, `SaveNew`, `Pay`, `ShowInvoice`,
`ConfirmDelete`, `CancelDelete`, `GoToList`, `GoToDashboard`, `ShowRecent`,
`EditRecent`, `LoadTable`), what the server does (`Serve...`), or an answer
(`Answer...`, `Lose`), each with the effects that follow. The dashboard does not
reset the store, the list page does; that tells its pages apart.

`b.mishaps` records which of the known disorders have happened, and the
properties say that only those do harm. TLC goes on after `MaxMishaps` kinds.

Left out: pages reached by the URL or the buttons Back and Forward of the browser,
mail, conversion and the search key, and what becomes of payments that `Pay`
makes or that a removed invoice had. The pages of quotes are the same components.

### Numbering

`setting` is the counters with the number of their changes, `doc` the documents
and the handlers that create them, `web` the browsers, `call` the settings calls.
A create handler is `Save` (the form is sent), `SaveDoc`, `NamePdf`, and
`IncreaseBySettingKey`, which runs behind the answer and may fail unseen
(`FailDoc`). A form proposes what its copy says when it is mounted (`Proposal`);
it is mounted anew when the app leaves the screen and returns, for the app is
shown only after a settings call that succeeded. The settings page sends the
counters it has copied (`SaveCounters`), `updateManySetting` writes them one by
one (`ServeKey`), and the browser lists them again (`AfterSave`).

### Sessions

`server` has the open sessions, the links that were mailed and the second;
`storage` the localStorage, `tab` a store and an Authorization header per tab,
`call` the calls in flight. A token is a user and a second, as it is signed. The
user's actions are `Login`, `ResetPassword`, `ForgetPassword`, `Request`,
`SaveProfile`, `Logout`, `Reload`. The check of a token and what it admits are
`Admit`, a logout is two operations (`Admit`, `Pull`), and so is a reset
(`MatchLink`, `ServeReset`). The answers (`Answer...`) change store and
localStorage, as `errorHandler` does for those that are refused. What a password
is, is left out: a login with a wrong one is `Fail`. A change of the password by a
user who is logged in closes no session and touches nothing of the model.

### ServerProcess

`file` has the one PDF of each document, `req` the downloads: `Ask` reads the
document, `Unlink` removes the file, `Write` and `Finish` make it anew, `Send` and
`Sent` deliver it. A writer truncates a file that another download is sending.
`disturbed` is the history of a download whose file another one has removed or opened
while it `Needs` it. `PdfError` (the callback throws), `SendError` (the file cannot be
read on, or the browser goes away while it is being sent: the callback answers a second
time, after the headers, which throws) and `LoginWithoutPassword` (a rejection nobody
waits for) stop the process and lose all downloads; `Restart` starts it again. A
browser that goes away earlier only gets an answer that nobody reads. A
script that runs beside it (`RunSetup`, `RunReset`, `Step`, `Exit`) may be
interrupted. Left out: the browser process that renders the page and may outlive
the server.

### Figures and Dashboard

`Figures` has no state. Prices, quantities and rates are integers in thousandths,
amounts in cents; each operator rounds where `currency.js` does. `DocumentTotals`
is what the server stores, `FormTotals` what the form adds up, `ShownTotals`,
`ReadTotals` and `ReadItem` what form and page show with the decimals the settings
ask for; `StatusCounts` and the like are the groups of the summaries. `Dashboard`
sums the collections of `Ledger` as the pipelines do: a scan meets each document once,
in an order nobody knows (`InvoiceScan`, any bijection), and `Matched` says what each
of them adds.

## 3. What is checked

| Run | Question | Properties | Bounds |
|---|---|---|---|
| `ledger` | what holds under any overlap and failure | `TypeOK`, `BooksBalance`, `StatusIsCurrent`, `ListNamesLivePayments`, `NoOrphanPayments`, `RemovedStaysAsItWas`, `DashboardAddsUp` | 2 invoices, 2 payments, 3 requests in flight, 5 in all; amounts 0 to 2, totals 0 and 2 |
| `ledger_live` | does a removal reach the payments | `RemovalReachesPayments` | 1 invoice, 2 payments, 2 in flight, 4 in all |
| `ledger_serial` | what a user who works alone can rely on | `SerialIsFlawless`, `ImplementsAccountBook`, `OverpaidOnlyByEdit` | 2 invoices, 2 payments, 6 requests one after the other; totals 0, 2 and 3 |
| `ledger_overpaid` | does the limit of the amount survive an overlap (no) | `OverpaidOnlyByEdit` | 1 invoice, 2 payments, 2 in flight, 3 requests in all; 2 is the only total, so that no edit can change it |
| `default_entry` | what holds of the default under overlap and failure | `TypeOK`, `OnlyEntryIsDefault`, `DefaultAmongSeveral`, `DefaultAsRequested` | 3 entries, 2 in flight, 4 in all |
| `default_entry_replaced` | is a default that steps down replaced (not always) | `ReplacedAsDefault` | 3 entries, 1 at a time |
| `crud_panel` | what the page shows and its buttons act on | `TypeOK`, `TableIsCurrent`, `ActsOnWhatIsShown` | 3 documents, 2 of them stored at first, 2 calls in flight, 2 clicks that call beside the call at mount and the reloads; 2 texts |
| `crud_panel_live` | does every spinner stop | `LoadersStop` | 2 documents, 2 calls in flight, 2 clicks that call; 1 text |
| `erp_pages` | do pages show, save and close what they are for | `TypeOK`, `EditsItsDocument`, `ShowsItsDocument`, `ActsOnWhatIsShown`, `RowsOfItsEntity`, `RemovedLeaveTheTable`, `ClosedBySave` | 2 invoices, 1 payment, one of each stored at first; clicks while at most 2 calls are in flight and 1 kind of mishap has happened |
| `numbering` | are proposed numbers new, and copies and saves harmless | `TypeOK`, `FreshProposalIsNew`, `LoadersHaveACause`, `CopyNeverOlder`, `SaveKeepsTheRest` | 2 browsers, 2 kinds, 2 documents, 2 settings calls, 5 clicks, 1 failure |
| `sessions` | who may act as whom | `TypeOK`, `ActsAsShown`, `StoredLoginIsUsable`, `LinkIsUsedOnce`, `NoEntryAfterLogout` | 2 users, 2 tabs, 2 calls, 2 seconds, 1 link, 5 clicks, 1 failure that need not be |
| `server_process` | what downloads send, and what scripts leave | `TypeOK`, `SendsItsDocument`, `SetupIsWhole`, `DownloadEnds` | 2 documents, one without template, 2 downloads, 1 edit, 3 runs of a script, 1 fault |

What they show:

* **The money is conserved.** The credit and what is still to be booked always
  make up the live payments, unless a handler wrote a payment that had changed
  since it read it (`stale`) or was cut off between its two writes (`lost`).
  No other interleaving loses money.
* **A wrong status is repaired** by the next write that reads current values.
  `StatusIsCurrent` says so for every order in which racing requests end.
* **The payment list** can go wrong in one more way: a payment removed before
  its creation was booked stays listed (`overtaken`).
* **A removed invoice** keeps a live payment only through a cut-off removal or a
  payment whose handler had read the invoice before it was removed (`orphan`).
* **Alone, the handlers are an account book.** Every flaw takes an overlap or a
  failure (`SerialIsFlawless`), and `Ledger` implements `AccountBook`.
* **The limit does not survive an overlap** (violation): both payments are
  checked against the credit before either is booked. The run has a single total
  and three requests, one of which creates the invoice, so the other two are what
  makes it overpaid.
* **The default entry.** With one entry it stays default. A request that asks for
  the default leaves no other entry default but those that requests beside it have
  made so after it cleared the flags: this is how two updates, each for its own
  entry, both end as default, and why nothing worse can come of it. It gets the
  default itself, unless it is a creation before whose count another request took
  it. An entry that steps
  down is not replaced when no other is enabled (violation). More than one
  default can be reached even by requests that run one after the other (an
  update that disables an entry which is not the default promotes another one
  in addition to it), so "at most one" is not among the properties.
* **The table page.** What is confirmed or saved is what the dialog or the form
  shows, even though late answers empty the slots behind them. The table is
  current once all calls are answered, with three exceptions the property names:
  a lost call, two list answers that changed places, and deletions that overlap.
  The last is a matter of the effect in `DeleteModal`: a second success after a
  first changes neither `isSuccess` nor `current`, and the table is not loaded
  again.

* **Invoice and payment pages.** A form is saved to the document it was filled
  from unless a page was left while it was being read; a page closes by itself
  only for its own save unless an earlier save was left behind. The exceptions are
  real: the store does not know which call an answer belongs to. TLC found one
  that had been missed: a payment is saved, its button *Show invoice* opens a page
  for a wrong id, the failure of that read hides the form, and the success of the
  save, which nobody took, closes the next edit page that the dashboard opens,
  because the dashboard does not reset the store.
* **Numbers.** Two documents with proposed numbers share one only if the later
  proposal came from a copy that did not count the earlier document, or a save of
  the settings has put the counter back, which any save of the finance settings
  does when its copy is old (`SaveKeepsTheRest`).
* **The app disappears** whenever a settings call fails, and with it an unsaved
  form, until a call succeeds; no loader stays without a cause.
* **Sessions.** A tab may act for another user than it shows, after a login in
  another tab. A logout that fails leaves a login without token in the
  localStorage; if the tab had been left logged in by the logout of another tab it
  leaves a `null` there, after which no page can make a call. Two logins in one
  second share a token, and one logout closes both.
* **Downloads.** Downloads of one document may overlap and each still sends the whole
  file of the document as it has read it, unless another removes or opens the file
  between the moments at which it opens it to write and to send, or opens it to write
  while it is being sent: then what is sent may be missing, cut or of the other
  request. A file that is removed under its sender is sent whole. All downloads end,
  with an answer or with the process, but those of a kind without template.
* **Setup.** Only an interrupted setup leaves an account without a password, at
  which a login stops the server; nothing keeps a second run from doubling all.
* **The dashboard's amounts add up** whenever the books are in order.

Seen while modelling, and outside of the properties:

* `UpdatePaymentModule/components/Payment.jsx:26` and `UpdatePayment.jsx:35-39`
  spread the invoice over the payment, so the form to edit a payment is filled
  with number and date of the invoice; `UpdatePayment.jsx:46` resets the key
  `recordPayment` where the effect waits for `update`.
* `invoiceController/summary.js:148-163` takes the first entry it finds under a
  name: the share of the overdue invoices is that of one status only.
* `clientController/summary.js` counts active customers who are removed or
  disabled: their share may exceed 100 per cent (`NewCustomersInRange` holds for
  the new ones).
* `ItemRow.jsx` multiplies price by quantity, the server quantity by price, and
  `currency.js` rounds the first factor: with more than two decimals the row
  shows another total than is stored (`RowShowsItem` has the condition).
* The quotes are rounded by `$round`, halves to even, the invoices by
  `Math.round`.
* `useFetch` fetches twice, its effect depending on what it sets.
* `pages/Taxes/index.jsx:13-19` names the field of its search and its dialog
  `name`, which a tax does not have.
* `AutoCompleteAsync` keeps the document it was mounted with as its value: a
  client that is chosen in an edit form is stored and not shown; a search that
  finds nothing leaves the options of the search before.

**Why the bounds are enough.** Every flaw of `Ledger` is the work of two requests
on one invoice, and three in flight leave one to observe or repair it; two
payments let one be booked around the other; a second invoice shows that nothing
spills over. The totals 0 and 2 with amounts 0 to 2 reach each status, a partial
payment, a full one, and an invoice paid from the start; 3 allows a change of the
total to a value other than the credit. `CHECK_DEADLOCK FALSE` stands in every
configuration because the users may stop and what they start is bounded
(`MaxRequests`, `MaxCalls`, `MaxClicks`, `MaxFailures`, `MaxRefusals`,
`MaxLinks`, `MaxSecond`, `MaxEdits`, `MaxRuns`, `MaxFaults`). The other bounds are
`NPayments`, `NEntries`, `NItems`, `Ids`, `Requests`, the identifiers a database
would never run out of; `NSlots`, `Slots`, `NCalls` and `MaxInFlight`; `Typed` and
`Texts`, what users type. Slots are names only: the first idle one is taken, or
they are symmetric. The symmetric sets are in runs that check no liveness.

The disorders of the browser take two calls: one that was left behind and one of
the page that is open. `ErpPages` bounds the clicks by the calls in flight and not
by a number, so its histories are as long as they need to be; a second kind of
mishap only adds to the exceptions. In `Numbering` five clicks are two pages, two
forms and one save of the settings by two browsers; in `Sessions`, two logins,
a logout and two more calls in two tabs. The theorems of section 4 have no bounds:
there the runs only show that what is proved is about something that happens.

**Fairness.** `Ledger!FairSpec` has weak fairness of the steps of each request in
flight: the event loop runs a handler on when its database operation is answered,
and Mongoose ends every operation with a result or an error (`Fail`, which needs
no fairness). There is none for requests, which are the users' choice.
`CrudPanel!FairSpec` has weak fairness of serving and answering each call: axios
settles its promises, with the server's answer or, if it is lost, with an error.
`ServerProcess!Spec` has weak fairness of the steps of each download while the
process runs; there is none for the restart.

## 4. What is proved

TLAPS checks the following for all values of the constants that the assumptions
of the modules allow. These say no more than that the bounds are numbers and that
the several kinds of nothing (`None` and the like) are not among the things they
stand beside; `DashboardAssumption` adds that a collection that is scanned is
finite, which only `DashboardCorrect` uses; `SerialAssumption` adds one request in flight and no failures, which is
what `LedgerSerial` is about.

| Theorem | Statement | For |
|---|---|---|
| `LedgerProofs!TypeCorrect` | `Spec => []TypeOK` | any finite number of payments and requests, any invoices, any integers as amounts and totals |
| `LedgerProofs!Conservation` | `Spec => []BooksBalance` | |
| `LedgerProofs!StatusCorrect` | `Spec => []StatusIsCurrent` | |
| `LedgerProofs!NoOrphans` | `Spec => []NoOrphanPayments` | |
| `LedgerProofs!RemovedIsFinal` | `Spec => RemovedStaysAsItWas` | |
| `LedgerProofs!ListCorrect` | `Spec => []ListNamesLivePayments` | |
| `LedgerProofs!DashboardCorrect` | `Spec => []DashboardAddsUp` | a finite number of invoices besides |
| `LedgerSerialProofs!SerialFlawless` | `Spec => []SerialIsFlawless` | requests served one at a time, any number of them |
| `LedgerSerialProofs!LimitKept` | `Spec => OverpaidOnlyByEdit` | amounts that are not negative |
| `LedgerSerialProofs!BookImplemented` | `Spec => ImplementsAccountBook` (refinement) | |
| `DefaultEntryProofs!TypeCorrect` | `Spec => []TypeOK` | any number of entries and requests |
| `DefaultEntryProofs!OnlyEntryCorrect` | `Spec => []OnlyEntryIsDefault` | |
| `DefaultEntryProofs!DefaultKept` | `Spec => []DefaultAmongSeveral` | |
| `DefaultEntryProofs!DefaultGranted` | `Spec => DefaultAsRequested` | |
| `NumberingProofs!TypeCorrect` | `Spec => []TypeOK` | any number of browsers, kinds, documents, calls, clicks and failures |
| `NumberingProofs!NumbersCorrect` | `Spec => []FreshProposalIsNew` | |
| `NumberingProofs!LoadersCorrect` | `Spec => []LoadersHaveACause` | |
| `NumberingProofs!CopiesAdvance` | `Spec => CopyNeverOlder` | |
| `NumberingProofs!SavesCorrect` | `Spec => SaveKeepsTheRest` | |
| `SessionsProofs!TypeCorrect` | `Spec => []TypeOK` | any number of users, tabs, calls, seconds, links, clicks and refusals |
| `SessionsProofs!CallsAreAsShown` | `Spec => []ActsAsShown` | |
| `SessionsProofs!StoredLoginCorrect` | `Spec => []StoredLoginIsUsable` | |
| `SessionsProofs!LinkCorrect` | `Spec => []LinkIsUsedOnce` | |
| `SessionsProofs!NoEntry` | `Spec => NoEntryAfterLogout` | |
| `ServerProcessProofs!TypeCorrect` | `Spec => []TypeOK` | any number of documents, downloads, edits, scripts and faults |
| `ServerProcessProofs!DownloadCorrect` | `Spec => []SendsItsDocument` | |
| `ServerProcessProofs!SetupCorrect` | `Spec => []SetupIsWhole` | |
| `CrudPanelProofs!TypeCorrect` | `Spec => []TypeOK` | any number of documents, calls and clicks, any pages, searches and texts |
| `CrudPanelProofs!SentIsShown` | `Spec => []ActsOnWhatIsShown` | |
| `CrudPanelProofs!TableCorrect` | `Spec => []TableIsCurrent` | |
| `ErpPagesProofs!TypeCorrect` | `Spec => []TypeOK` | any number of documents, calls in flight and mishaps |
| `ErpPagesProofs!EditsItsDocumentAlways` | `Spec => []EditsItsDocument` | |
| `ErpPagesProofs!ShowsItsDocumentAlways` | `Spec => []ShowsItsDocument` | |
| `ErpPagesProofs!ActsOnWhatIsShownAlways` | `Spec => []ActsOnWhatIsShown` | |
| `ErpPagesProofs!RowsOfItsEntityAlways` | `Spec => []RowsOfItsEntity` | |
| `ErpPagesProofs!RemovedLeaveTheTableAlways` | `Spec => []RemovedLeaveTheTable` | |
| `ErpPagesProofs!ClosedBySaveAlways` | `Spec => ClosedBySave` | |

and, for documents of any length and any prices, quantities and rates that are not
negative, about `Figures`:

| Theorem | Statement |
|---|---|
| `LedgerProofs!ShownIsStored` | the form adds up what the server will store |
| `LedgerProofs!ReadAsShown` | the page of a saved document shows the totals the form showed, with any number of decimals |
| `LedgerProofs!PartsMakeTotal` | shown sub total and tax make up the shown total but for one of the last digit |
| `LedgerProofs!PageAddsUp` | with two decimals the items, the sub total and the tax add up exactly |
| `LedgerProofs!TotalCoversItems` | the total is at least the sum of the items, and equal to it without tax |
| `LedgerProofs!RowShowsItem` | a row shows the stored total if price and quantity have two decimals at most |
| `LedgerProofs!SharesAddUp` | the shares of the three payment statuses make up 99 to 101 per cent |
| `LedgerProofs!NewCustomersInRange` | the share of the new customers is between 0 and 100, so its ring shows it whole |

Few of the properties are inductive by themselves. Each proof module begins with
the inductive invariant it uses; TLC has checked each of them on the instance of
the component's run before it was proved. What they say:

*Ledger.* The properties rest on `TypeOK /\ Refs`, where `Refs` says what the
record of a request means: `RequestRefs` (a request that is past its first read
names an invoice that exists, and, if it is past the read of a payment, a payment
that exists and belongs to it), `PaymentRefs` (a payment exists if and only if it
has an invoice, which exists) and `NoCreditYet` (an invoice that does not exist has
no credit). `NextRefs` proves that every step keeps it.

Conservation then takes the change of two sums. `LedgerProofs` defines what it is
for a function to be the partial sums of another, proves that they exist (by the
smallest counterexample, `SmallestNat`, as induction over a predicate is not
available to the installed provers), and concludes `SumOfChange`: a function that
differs in one place has a sum that differs by as much. Every step falls into one
of three classes: quiet (neither sum nor credit changes), the write to a payment
(`PaymentBalance`: one summand of `Paid` and one of `Owed` move together), and the
booking (`CreditBalance`: the credit takes over a summand of `Owed`).

`ListCorrect` needs the strengthening `ListInv`: besides the equation for the list
(`ListedAt`), that on an invoice without flaws no two requests are about to book
the same payment (`BookedOnceAt`): a second removal of it is `stale`, and a
removal ahead of the booking of its creation is `overtaken`.

*LedgerSerial.* `SerialInv` says that one request is in flight (`Alone`), that what
it has read is still so (`RequestInv`: the credit, the amount and the limit that
follows from them), and that a live payment is listed on a live invoice but for
what the request has yet to do about it (`PaymentInv`). From it every step is
shown to be a step of `AccountBook` or to change nothing there: `CreateInvoice` is
`Open`, `WriteInvoice` `Reprice`, `RemoveInvoice` `Close`, and the payments are
entered, amended and struck by `InsertPayment`, `WritePayment` and `RemovePayment`.
That the balance of an account does not move when a payment is booked is
`SoleSums`: what is owed to an account is what the one request in flight owes to it.
`LimitKept` supposes amounts that are not negative, which is the `min` of the form
(`forms/PaymentForm.jsx:47`) and not checked by the handlers: to remove a negative
payment adds to the credit, whatever the limit.

*DefaultEntry.* `EntryInv` (the first entry exists, and an entry that does not has no
flag), `RequestInv` (an update that is past its check keeps its entry the default or
has seen another one), `OnlyInv` (a single entry is the default, unless the flags are
cleared for one that is about to be inserted, or was not), `OthersInv` (of
the flags that a request must find cleared at each of its steps, the ones that are set
have been set by others since), and `OrderlyInv` (as long as nothing overlapped or
failed, a request finds the flags as its own steps have left them, and two enabled
entries are without a default only while a request owes it to them). No step is
considered for two requests at once: a step of one extends the `others` of the rest by
exactly what it sets, which is why `OthersInv` is inductive.

*Numbering.* `CopyInv` (a copy is of an earlier time: it has the version of a counter
only if it has its value too, except in a save that is to change it), `OverlapInv` (a
browser that has had one settings call at a time will find in it a copy no older than
its own), `LoadersHaveACause` itself, and `CountInv` (a counter that no save has put
back is at or above the numbers of the documents that were counted, a copy above
those it is new enough for, and a proposal beyond them).

*Sessions.* `ShownInv` (a token is stored for the user it is of; and unless a tab was
switched, what a tab shows, what it sends and what its calls carry are of one user),
`OrphanInv` (a logout that found nothing stored is known), `ClosedInv` (a session that
is open after it was closed has a token that was issued again), `LinkInv` and
`MatchedInv` (a link that is good has not been used; one that was matched is used
once unless it was matched twice). The proof found a hole in what TLC had accepted:
beyond five clicks, the bound of the run, a login or a saved profile may be answered
in a tab that another one has switched, and no mishap said so. `ShowsOther` now
records it where it happens, and the theorem has no bound.

*ServerProcess.* `FileInv` (what a download that was not disturbed finds in the file at
each step, and what it is sending), `PasswordInv` and `ProgressInv` (what a script that was not interrupted has
stored at each step).

*CrudPanel.* `DeletionInv` (unless deletions overlapped one is in flight at most, and
the flag of its slot says that none has succeeded yet), `OrderInv` (of two answers
to list calls one is ahead of the other), and `TableInv`: unless the table will be
loaded anew, because a list call is on its way or a write was made whose answer
loads it, either no list answer waits and the table is current, or the latest of
them is. The dialog and the form need only that an open dialog names a document and
that a field in which nothing was typed offers nothing.

*ErpPages.* The invariant has a part about the calls in flight and one about the page
and the store. `FlightInv`: unless a mishap was recorded, a list call in flight is the
only one and is for the entity of the page, a read is for the document of the path, a
deletion is alone and the table waits for it, and a save is alone, was sent by the
page that is open, whose key is loading, for the document of the path. `PageInv`: the
payment that is prepared is for the current item (`PayInv`); the open dialog is on the
table and names the document of its key (`ModalInv`); a form that is open is not
closed by an old success and holds the document of the path (`FormInv`); and the
success of a save outlives its page only after a mishap (`CreatedInv`, `UpdatedInv`),
which is why a form that is asked for opens. `TableInv`: as long as the answer to a
deletion is not on its way, the table, or the list that is about to fill it, shows
documents that are live. The handlers are chains of small steps on one record, so the
proof first says of each step of the reducer what it changes and what it leaves alone
(`SendIs`, `AtIs`, `RequestSuccessIs` and so on), then of each page that it opens in
order whatever the page before has left in the store (`OpenListGood`, `OpenUpdateGood`
and so on), and then composes these action by action.

*Dashboard.* `DashboardAddsUp` follows from three invariants of `Ledger` at once. When
nothing runs, nothing is owed to a credit, so by `BooksBalance` the credit of a live
invoice is the sum of its live payments; by `StatusIsCurrent` an invoice that the third
scan passes over has a credit equal to its total; by `NoOrphanPayments` a removed
invoice has no live payment that the second scan would count (`InvoiceInOrder`). What
remains is the order of summation: one scan runs over the invoices, another over the
payments. `SumByOwner` proves that the payments of each invoice, added up invoice by
invoice, make up the sum of all, and `SumsAdd` that sums may be added term by term.

*Figures.* The proofs rest on `RoundNear`, a rounding is off by at most a half, from
which the bounds on sums of roundings follow by linear arithmetic once the products
are named; rows that the form skips are worth nothing (`NothingCounts`), so both
sums have the same summands.

*Only model-checked* is liveness (`RemovalReachesPayments`, `LoadersStop`,
`DownloadEnds`): TLAPS has no rule for fairness, so it stays with TLC for good. What
`MCLedger` states about small collections by `ASSUME` (the cards of the invoices,
quotes and customers) is evaluated by TLC and not proved.

## 5. Plan

Done, in this order: `Ledger` with `AccountBook` and their proofs (money comes
first), `DefaultEntry`, `CrudPanel`, `ErpPages`, `Numbering`, `Sessions`,
`ServerProcess`, `Figures` with their proofs, `Dashboard`, the search field; then
the proofs about `DefaultEntry`, `ServerProcess`, `Sessions`, `Numbering`,
`LedgerSerial`, `CrudPanel`, `ErpPages` and `Dashboard`.

### Not modelled

* Uploads, mail, wording, data files (countries, currencies, colours, texts): I/O
  and data, no state that another part reads.
* The two asynchronous select fields (`AutoCompleteAsync`, `SelectAsync`) and the
  layout of forms and tables.
* Routes that no page calls: settings by key, `coreControllers/setup.js`; the
  advanced store, which no page mounts.
* The change of a password by a user who is logged in.
* Binary fractions: money is counted in cents, so the hazard that the status of an
  invoice compares a rounded difference with a sum of `$inc` stays open.

## 6. Running it

`tlc -config MCLedger.cfg MCLedger` and likewise for the other configurations
(`PROJECT.json` lists the module of each run); `tlapm LedgerProofs.tla` and
likewise for the other modules whose names end in `Proofs`. The longest run takes
about two minutes, the proofs of a module between half a minute and five minutes.
