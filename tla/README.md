# Verification of rain.math.float

`rain.math.float` is a decimal floating point library for the EVM. A float is one
256 bit word: a signed 224 bit coefficient beside a signed 32 bit exponent, meaning
coefficient * 10^exponent. Inside an operation the two live on the stack as full
`int256` values, so every operation is *unpack, compute on 256 bit integers, pack*.
There are no infinities, no NaN, no rounding modes: precision is lost by truncation,
and a number that does not fit reverts (or, for the lossy packing, becomes zero).

Around the Solidity library there is a Rust crate that runs its bytecode in an in-memory EVM,
and a JavaScript API compiled from that crate.

This directory holds TLA+ models of that code, the TLC runs that check them on small
integer widths, and proofs checked by TLAPS that hold for every width.

## 1. The system

| part | source | state | operations |
|---|---|---|---|
| Packing | `src/lib/LibDecimalFloat.sol` 122-427 | the locals of the digit-dropping loop | `packLossy`, `packLossless`, `packArithmeticResult`, `fromFixedDecimal*`, `unpack` |
| Maximizing | `src/lib/implementation/LibDecimalFloatImplementation.sol` 969-1015 | the locals of the digit-gaining stages | `maximize`, `maximizeFull` |
| Arithmetic | the same file, 73-750, 1065-1207 | none (pure) | `minus`, `mul`, `div`, `add`, `sub`, `eq`, `inv`, `compareRescale`, `intFrac`, `withTargetExponent` |
| Packed operations | `LibDecimalFloat.sol` 194-708, 845-869; `src/concrete/DecimalFloat.sol` | none: a contract without storage | one external function per operation |
| Logarithms | implementation 756-960, 1209-1323 | none (pure, but for the tables) | `log10`, `pow10` |
| Log tables | `src/lib/table/LibLogTable.sol`; `combinedTables` in `src/lib/deploy/LibDecimalFloatDeploy.sol` | the bytes of a data contract | `toBytes`, `combinedTables`, `lookupLogTableVal`, `lookupAntilogTableY1Y2` |
| Powers | `LibDecimalFloat.sol` 758-838 | the locals of the squaring loop | `pow`, `sqrt` |
| Text | `src/lib/parse`, `src/lib/format` | the scanner's cursor | `parse`, `format` |
| Deployment | `src/lib/deploy`, `script/` | code at two fixed addresses | the suite of the tables, the suite of the contract, in either order |
| Rust crate | `crates/float/src/lib.rs`, `evm.rs`, `error.rs` | per thread an in-memory EVM holding the contract: created by the first call, borrowed by each, destroyed while the thread ends | some forty methods of `Float`, each a call of the contract's bytecode |
| JavaScript API | `crates/float/src/js_api.rs` | none of its own; the realm's EVM | the crate's methods under other names, floats as hex strings and bigints, fixed point values as bigints |

Inside the EVM components interact by plain calls of one execution. `DecimalFloat` calls
`LibDecimalFloat`, which unpacks, calls the implementation and packs the result;
`add` and `div` call `maximize` first; `pow` calls `log10`, `pow10` and `mul`; those
read the tables by `extcodecopy`, so the contract's constructor checks that the tables are there.
A method of the Rust crate encodes its call, borrows its thread's EVM, lets it run, and
makes a `Result` of how the run ended; the JavaScript API calls these methods. Threads share
nothing. The one callback is the destructor of another thread local, which may use floats while
the thread's own EVM may already be gone.

So the hard part is seldom interleaving. It is arithmetic at boundaries, much of it in
`unchecked` blocks: loops whose steps have several sizes, two-stage truncations that
must amount to one, exponents that wrap, scales picked by ladders of thresholds,
flags and zero words that carry meaning between functions, and many representations of
one number. In the crate it is forty hand-written wrappers whose names, argument orders and
decoded fields must all fit, four ways for an EVM run to end, and three layers of errors.
The tests sample these; the models enumerate them.

What makes each part correct:

- **Packing** truncates once and as little as possible, raises the exponent by as many
  places, reports a loss whenever there was one, and never turns a nonzero arithmetic
  result into zero silently.
- **Maximizing** keeps the number and gains every digit that fits.
- **Arithmetic** is exact up to one truncation (multiplication, division), one unit in the
  last place (addition), or exact (comparison, negation, rounding to integers), and its
  internal errors do not escape for packed floats.
- **Packed operations** give equal results for equal numbers.
- **Logarithms** are the linear interpolation of a table and nothing worse: the right entries,
  the right neighbour at the table's end, the right characteristic, monotone across every seam.
- **The tables** are where the lookups look for them, and **deployed** before a contract that reads them.
- **Text** is read as exactly the number written or refused, and what is formatted parses back to
  the number it came from.
- **Powers** are never above the exact ones and below them by no more than the products of the squaring
  loop and the packing cut off, for integer powers; on the right side of one for all others; and they fail
  for five named reasons only, of which not all are that the power has no float (section 3).
- **The Rust crate** tells each caller what the contract answers to that call alone, values, flags,
  errors and selectors; the errors of its own plumbing mean what they say; every call returns.
- **The JavaScript API** keeps the value of every bigint and hex string, or refuses it; one refusal is not in
  the way the method's doc says (`doc_bigint`).

## 2. Modules

    DecimalWidths ──┬── PackContract ──┬── PackSpec
                    │                  └── PackFloat ──┬── MCPackFloat
                    │                                  └── PackFloatProofs
                    ├── MaximizeContract ┬── MaximizeFloat ──┬── MCMaximizeFloat
                    │                    │                   └── MaximizeFloatProofs
                    │                    └── FloatImplementation
                    └── ExactNumbers
    FloatImplementationProofs = FloatImplementation + ExactNumbers and lemmas about them
    DecimalText         = FloatImplementation + PackContract + ExactNumbers
    DecimalCalls        = DecimalText and the results of the contract's functions ── DecimalCallsProofs
    DecimalFloat        = DecimalCalls as atomic calls
    DecimalFloatCorrect = DecimalFloat and its properties ──┬── MCDecimalFloat
                                                            └── DecimalFloatProofs
    FloatClient         = DecimalCalls and the threads that call them
    FloatClientCorrect  = FloatClient and its properties, refining StatelessContract
    JsFloat             = FloatClientCorrect and JavaScript realms ──┬── MCJsFloat
                                                                     └── FloatClientProofs
    StackFloat          = FloatImplementation as atomic calls ──┬── MCStackFloat
                                                                └── StackFloatProofs
    Logarithms          = FloatImplementation + PackContract
    LogFloat            = Logarithms + ExactNumbers ── MCLogFloat (with TwoDigitTables)
    PowFloat            = Logarithms + ExactNumbers ── MCPowFloat (with TwoDigitTables)
    LogTables ──┬── MCLogTables
                └── LogTablesProofs

DecimalCallsProofs and the proofs of packing, maximizing and the stack build on FloatImplementationProofs,
those of the contract and of the crate on DecimalCallsProofs. Neither of the two has a theorem about a specification:
they are lemmas about functions, which the others cite.

- **DecimalWidths**: the integer widths as constants, what the real widths satisfy as
  named assumptions, Solidity's truncating division and two's complement wrap-around; and what it
  means that two pairs are the same number or one the smaller, by powers of ten that the widths have.
- **ExactNumbers**: the reference arithmetic, comparison of coefficient and exponent pairs
  in unbounded integers. It models no code; properties are stated with it.
- **PackContract**: what packing promises, in one step: the fewest digits that have to go,
  the exponent raised by as many, underflow or overflow. It also holds
  what each caller makes of the result (`Finalise`) and `fromFixedDecimalLossy`.
- **PackSpec**: the abstract service: ask, answer as PackContract says, take.
- **PackFloat**: `packLossy` step by step. `pc` is `fit` (the first test), `shift`
  (the loop), `range` (the exponent test), `finish` (the caller), `done`. `c`, `e` and
  `lossless` are the Solidity variables of that meaning; `DropJump` is the division by 1e5
  before the loop, `DropDigit` a round of it, both with the exponent raised in
  wrapping arithmetic. `given` is a history variable: the number the user meant, before
  `fromFixedDecimalLossy` may drop its last digit. It refines PackSpec under
  `request <- call, answer <- result`.
- **MaximizeContract / MaximizeFloat**: the same pair for `maximize`: the one-step promise,
  and the stages 10^38, 10^19, 10^10 (once each), 10^2 (repeated), 10^1 and the trial digit.
- **FloatImplementation**: the arithmetic as functions from coefficients and exponents to a
  number or a named error. It calls `Maximize` of the contract, which the run `maximize`
  shows the stages compute. `mul512` and `mulDiv` are exact integers, with the error of a
  quotient above 256 bits.
- **DecimalText**: `parse` and `format` as functions. A text is what the scanner finds in it: a
  sign, runs of digits (value and length), a point, a mark, and whether characters follow. The scanner's
  cursor only moves forward over these, so `ParseCoefficient`, `ParseFraction`, `ParseExponent` and
  `Parse` are the code from top to bottom, each early return a `Fail`. `Refuse` is an error
  selector that `parse` returns, `Fail` a revert; only packing reverts. `ToScientific` and
  `ToPlain` are the two layouts; zeros are counted by arithmetic on the digits instead of byte loops.
- **DecimalCalls**: the contract's functions as one function from calls to results, `Result`. A call
  is a tuple of the function's name and its arguments; a result is a float, a flag, a text or a
  fixed point value, each with its loss flag where it has one, or the name of an error.
- **DecimalFloat**: the contract. A call is an action that picks an operation and its
  arguments and stores the outcome; taking the result is the next. Calls are atomic because an
  EVM call is; there is no other state, so all arguments can occur in every call.
- **DecimalFloatCorrect**: the properties of its outcomes.
- **StackFloat**: the same arithmetic on any 256 bit coefficient and exponent, as
  Solidity users of the internal library and `pow` use it, with its properties. They are stated
  with the powers of ten of DecimalWidths, so that they can be proved for every width.
- **Logarithms**: `log10` and `pow10` with `mantissa4`, `withTargetExponent` and
  `unitLinearInterpolation`, built from FloatImplementation's operations as the code builds them.
  The tables are constants: a log table that never falls and an antilog table within its
  decade. The code's recursion of `log10` is one level, because the inverse of a number below one is at
  least one; the model has the outcome "Recursion" for the other case, and `LogErrorsAreReal`
  says it never occurs.
- **LogFloat**: the contract's two functions as atomic calls, and their properties.
- **LogTables**: the tables as bytes. An entry is symbolic (table, row, column, byte), so a lookup
  that lands one byte off is seen whatever the numbers are. `EncodeEntry` is a round of the loop of
  `toBytes`, with the 32 byte `mstore` that wipes what lies in front of the entry; `NextTable` and
  `DeployTables` are `combinedTables` and the data contract; `LookUpLog` and `LookUpAntilog`
  are the lookups of `log10` and `pow10` with their neighbours. Logarithms and LogTables meet in the
  constants `LogOf` and `AntilogOf`: the first takes them as given, the second shows that
  reading the contract gives the entry that belongs to the index.
  `tables` and `contract` are the code at the two fixed addresses. `DeployContract` may come at any
  time, but its constructor's check (`CheckLogTablesDeployed`) lets it through only after
  `DeployTables`; there is no other code that could be at the tables' address, since the address is
  made from the code.
- **FloatClient**: the Rust crate. `Api` is its methods, each with the function of the contract it
  calls and the return type it decodes. A call of a method goes through four actions of its thread, which
  correspond to `execute_call` in `evm.rs`: `Invoke` encodes it; `EnterAlive` finds or creates the
  thread's EVM (`LOCAL_EVM.try_with`), `EnterDestroyed` finds it gone; `RunCall` is the
  system call; `Process` turns the EVM's result into the method's `Result`. `Take` returns to the caller
  and `DestroyLocal` is the thread local's destructor, after which the thread may still call.
  `Bytecode` is the contract, DecimalCalls' results by call, and `ContractRun` how its execution
  ends: return, revert or, for a text in `TooLong` whose parsing costs more gas than a system call
  has, halt. An address without code stops.
- **StatelessContract**: the abstract service of the crate: one call after the other, each answered as
  the contract's code answers it alone.
- **FloatClientCorrect**: the properties of the crate. `ImplementsContract` is the refinement of
  StatelessContract as one thread sees it: `OutputTold` reads the contract's output back from the
  `Result` the thread was given, so a flag or selector that is dropped or changed on the way shows.
  `ValueMeant` is what the methods' names and docs say, in exact arithmetic.
- **JsFloat**: realms beside native threads. `page` is the call a page waits for, `shown` what it gets.
  `JsInvoke` and `JsInvokeFixed` start a method of the crate, the latter with a bigint made a uint256,
  `JsRefuse` refuses one that is none, `JsWord` are the calls that need no EVM, `JsFinish` hands over the
  crate's `Result` (some methods throw errors, the others return them), `JsTake` is the page going on.
  Floats are the 32 bytes they are: `Raw` and `FromRaw`, written in digits by `AsHex`.
- **PowFloat**: `pow` step by step. `pc` is `cases` (the early returns, and the recursion for a
  negative power, which comes back to `cases` with both arguments replaced), `loop` (a round of the
  squaring per step), `done`. `a`, `b`, `n`, `fraction`, `power` and `base` are the Solidity
  locals; `call` remembers the caller's arguments. `sqrt` is the power 0.5, which is among the
  powers.

Operators that precede a definition and are announced by "Mutant of" are deliberately wrong
versions of it. Substituting one must make a run fail, and each property of each
run has one: they show that the property can see a plausible mistake in the code.

### Widths

TLC cannot enumerate 256 bits. The algorithms do not depend on the widths but on how the
powers of ten lie between the limits, and that is kept: int256.max = 5.789e76 becomes
5788 = 5.788e3, int224.max = 1.347e67 becomes 13 = 1.3e1 (or 1347), the jump of five
digits becomes two (or one). `ASSUME`s in DecimalWidths list what is needed: 10^D is the last power
of ten below the limit, 10^(D+1) fits the unsigned type and is
beyond both ends of the signed one, a coefficient above the
jump's threshold needs at least `Jump` digits dropped, ten times a packed coefficient fits a stack one,
packed exponents reach below 10^-PackD, and the exponent type is wider than
two packed exponents and the digits an operation moves. `DigitStepsAssumption` says that the
digit count of `mul` has four coarse steps, of any size up to D, `DivRungsAssumption` that the thresholds of the ladder
in `div` are powers of ten that a coefficient can have; `FixedPointFits` that a uint256 has so many digits
more than an int224 that a packed exponent can rise by them; `MaxPlainAssumption` that plain layout reaches beyond
a coefficient's own digits (1000 places against 67). Decimals are numbers that, added to a packed exponent,
stay an exponent: a uint8 in the code. The real widths (D = 76, PackD = 67, Jump = 5, the steps 37, 18, 9 and 4)
satisfy them all.

Narrow models lose one thing: with one packed digit and three stack digits, a product of two
packed coefficients fits the stack, but 67 digits times 67 digits do not fit 77. The run
`wide_floats` uses packed coefficients of three full digits against a stack of four to have
products that need the digit count of `mul`. Full stack coefficients are covered by
`stack_float`. The two logarithm runs use tables of two digits instead of four. The digits of the
table are decimal, as its index arithmetic is, so they can shrink but not change their base; `LogTables`
keeps ten columns and the real marks of the alternative table, and only has fewer rows. With the
real 90 and 100 rows the run passes as well (41904 states, about three minutes).

The run `client` needs a float to be a whole number of bytes: five bits of coefficient and three of
exponent, four hex digits of radix 4, two to the byte. The radix and the number of bytes are
constants of JsFloat, tied to the widths by an assumption (`RealmsAssumption`: all words are numbers of so many digits).

### Fairness

`PackFloat` and `MaximizeFloat` assume weak fairness of their internal steps, and of nothing
else. A call is one EVM execution; once entered it runs until it returns or reverts (gas is
not modelled: running out of it reverts the whole call). Entering a call is never forced.
`LogTables` assumes the same of the steps that build the tables, a script that runs to its end.
`FloatClient` and `JsFloat` assume weak fairness of `Serve(t)`, the four steps of a call, for each
thread, and of `JsFinish` for each realm: a running thread is scheduled, and a realm does nothing
else until the exported function has returned. Nobody has to call, and no thread has to end.
`DecimalFloat`, `StackFloat` and `LogFloat` have atomic calls and need none. `PowFloat` has no liveness
property and assumes none: its loop halves an integer, and evaluating whether a step of
this arithmetic is enabled costs TLC more than the property is worth.

## 3. Runs

| run | question | bounds |
|---|---|---|
| `pack_float` | Does packing truncate once (`TruncatesOnce`), report every loss (`LosslessMeansExact`), never hide a zero (`NoSilentZero`), return (`CallReturns`) and implement the contract (`ImplementsContract`)? | all coefficients within 2 of every limit, both signs; exponents within D + 2 of int32's limits and at the ends of int256, where they wrap |
| `maximize` | Do the stages gain every digit (`ReachesMaximum`) and stop (`CallReturns`)? | seven decimals, so that each stage occurs; headroom from none to plenty |
| `packed_floats` | Are sums, products, quotients and negations what exact arithmetic gives; are errors only the documented ones, and only for numbers really too large or small; do comparisons agree with the order of the numbers; do floor and ceil round to the neighbouring integer, the parts add up, fixed point values survive the round trip? | every pair of all 224 packed floats; fixed point values around every limit, up to the largest unsigned one |
| `wide_floats` | Are products right that exceed the unsigned type (`ProductIsTruncated`); do equal numbers give equal results and equal text (`EqualArgumentsEqualResults`); is a text parsed to exactly the number written (`ParseIsExact`), refused only if its digits or its exponent do not fit (`ParseRefusesWhatItMust`); does every formatted float parse back, in the layout its magnitude asks for (`FormatParsesBack`)? | 84 floats around the thresholds of the digit count and of the scale; 6584 texts: integer parts around int224 and int256 and those whose product wraps into an int224, fractions up to two digits longer than a float's, exponents around int32 and int256, missing digits, characters in excess; six pairs of limits for format |
| `stack_float` | Does the arithmetic hold for full stack coefficients and exponents at the ends of int256? | 21 coefficients, 12 exponents; divisors without headroom at int256.min descend the ladder of `div` and the loop below it |
| `log_tables` | Does every lookup of a deployed contract find its entry and its neighbour (`LookupsFindTheirEntries`), and are the tables built and deployed (`TablesGetDeployed`)? | 18, 10 and 20 rows of ten entries, every index; the two deployments in either order |
| `log_float` | Are `log10` and `pow10` the interpolation of their tables to one unit, with the right integer part, also below one (`LogIsInterpolated`, `PowerIsInterpolated`), monotone (`LogIsMonotone`), failing only where they must (`LogErrorsAreReal`)? | every leading pair of digits, coefficients around each limit, all packed exponents |
| `pow_float` | Is an integer power never above the exact one, and below it by no more than the cuts of its products and one of packing (`IntegerPowerIsClose`); does a power stay on its side of one (`StaysOnItsSideOfOne`), and above its integer part's but for the same cuts (`FractionOnlyAdds`); does pow fail for no other than its five reasons (`PowErrorsAreReal`)? | 1360 bases: every coefficient from -1 to the largest with ten exponents, since powers that are cut visibly are rare; 218 powers: integers, fractions, both signs, around one, too large, the smallest coefficient. Properties that need the exact power compute it up to the sixth |
| `client` | Is what a thread is told what the contract answers to its call (`ImplementsContract`); do the values mean what the method's name and doc say (`MethodsKeepTheirMeaning`); are errors only the expected ones, and those of the plumbing real (`OnlyExpectedErrors`); do bigints and hex strings keep their value (`BigintsKeepTheirValue`); does every call return (`EveryCallReturns`)? | a native thread that ends and calls on meanwhile, beside a realm with all methods; five floats, among them the smallest coefficient and two forms of one; five texts: read, refused, out of range and too long; 18 bigints around every digit count, the word and the uint256, negative ones included; ten hex strings |

The initial state is the only one without a call, so models of pure calls are two steps deep;
their size is in the arguments.

Three runs are expected to be violated. Each checks what a comment, a test or the repository's README
says and shows where the code does something else:

- `doc_lossless`: "True if the conversion was lossless, false otherwise". `packLossy`
  decides its flag before the loop, so 1e68, of which only a trailing zero is dropped, is reported as
  lossy although the float is exact. `packLossless` therefore reverts for such numbers.
- `doc_bigint`: "`Err(FloatError)` - If the conversion fails" (`js_api.rs:178`). `try_from_bigint` of more
  than 32 bytes panics in `left_padding_from`, so the realm traps and the page gets no `Result`. Negative bigints
  are refused as that says. `BigintsKeepTheirValue` only asks that a wider bigint is never taken for a float.
- `doc_log`: "y = y1 + ((x - x1) * (y2 - y1)) / (x2 - x1)". `log10` computes the position x2 of the next
  table entry unchecked. A number starting with 5.789 whose coefficient is maximized to more than
  5.789e76 has its next entry at 5.790e76, above int256.max = 5.7896e76: x2 wraps to a large negative
  number, and the logarithms of 5.7891 to 5.7896 come out slightly below that of 5.789 instead of
  between it and that of 5.790. The error is below one entry of the table.
  `LogIsInterpolated` and `LogIsMonotone` exclude these numbers.

The models also settle smaller points that readers of the code may ask about:

- `packLossy` raises the exponent unchecked; at the end of int256 it wraps, and the result is zero without
  an error. Only Solidity callers that hand in such exponents see it.
- The README says of exponent underflow that "we chose to _lose precision_ by rounding towards zero rather
  than erroring" (`README.md:98`). `packLossy` does, but every arithmetic function ends in `packArithmeticResult`,
  which reverts with `ExponentUnderflow`; the comment there says so.
- A range error does not mean that the result has no float. `mul` goes by the exponent of the product, whose
  coefficient is cut but never extended: mul(1e1, 1e2147483647) overflows, and 10e2147483647 is a float. `div` and
  `inv` fill the coefficient before they pack: inv(1e2147483600) underflows, and 1e-2147483600 is a float.
  `RangeErrorsAreReal` says for each function what its errors do mean.
- An integer power is not always the exact one truncated. In the run 78^4 is 36e6 where 37015056 would be cut
  to 37e6, because 78^2 had to be cut before it was squared; with the real widths the squares have 76 digits and the
  result 67, so such bases are rarer still. `IntegerPowerIsClose` has the bound; with the cuts of the
  loop left out of it the run fails.
- `pow` refuses some powers that have a float: an integer part of the power that does not fit an int256
  fails with `WithTargetExponentOverflow` whatever the base, so 1^(1e77) does; a negative power fails if the
  packed inverse of the base has no float; and the power int224.min loses its last digit when it is negated, or
  overflows with the largest exponent. `PowErrorsAreReal` lists these beside the real range errors.
- The errors of the contract's parser are not among the selectors that the Rust crate names; a refused
  text comes back as a selector of four bytes.
- `ceil`, `log10`, `pow10`, `pow` and `sqrt` have no method in the Rust crate, and its `integer` is not
  exported to JavaScript.
- The square that the last round of `pow` computes and nobody uses cannot make it fail: stack exponents
  are so much wider than packed ones that the power itself has no float long before
  (`PowErrorsAreReal`). Squaring packed floats instead would fail (mutant `RoundPacksSquare`).
- The MaximizeOverflow test of `div` sits inside the branch for divisors below 1e76, so a dividend that
  could not be maximized is truncated silently for a divisor of 77 digits. Only stack
  exponents at int256.min get there; `StackQuotientIsTruncated` asks for a full dividend.
- `pow10` of a zero written with an exponent above 76 reverts with `WithTargetExponentOverflow`, where
  0e0 gives one; and `pow10(-k)` underflows some 67 exponents before 1e-k does, because an inverse
  has a full coefficient. `LogErrorsAreReal` states both limits.
- The antilog table falls by one in four places (indices 839, 889, 959 and 1059), so `pow10` is not
  monotone and no property says so; the small table falls once as well.
- `add` of operands with different signs may be away from zero by up to one unit of the last place,
  so it is "within one unit", not "truncated".
- The comment that `adjustExponent` of `mul` is in [0, 76] is one short: 77 occurs.
- `parse` takes a number as it is written. 1e68 written out in digits is refused with
  `ParseDecimalPrecisionLoss` though a float holds it, and 1e2147483648 makes `parse` revert though
  10e2147483647 is the same number; the parser's comment that such an exponent "has no meaningful
  approximation" overlooks small coefficients. `ParseRefusesWhatItMust` says exactly what is accepted.
- Plain formatting tests the exponent before it strips zeros, so 10e-1001 is refused and 1e-1000 is not.
  Scientific formatting refuses exponents above int32.max after moving the point; the parser, which
  adds the fraction's digits to the exponent before packing, would accept the text.
- `format` chooses the layout by `abs`, which truncates int224.min and overflows for the
  largest exponent.
- The composition of the loss flags in `fromFixedDecimalLossyPacked` is not needed: a value that
  loses a digit before packing always loses more while packing.
- Equal arguments give equal results only if both calls return: one representation may overflow
  where the other does not, since packing does not move magnitude from the exponent into a small
  coefficient or back.

## 4. Proofs

### Packing

`PackFloatProofs` proves three theorems about PackFloat, for all constants that satisfy the
assumptions of DecimalWidths and the input assumption of PackFloat (callers hand in values
of the declared types):

- `TypeCorrect`: `Spec => []TypeOK`. Every variable keeps its Solidity type; in particular
  whatever packing returns fits the 224 and 32 bits it is packed into.
- `ZeroIsNeverSilent`: `Spec => []NoSilentZero`. `packArithmeticResult` takes a zero word from
  `packLossy` as an underflow. That is right only if truncation itself cannot produce zero.
- `LosslessIsExact`: `Spec => []LosslessMeansExact`. A result without loss is the number meant.

`NoSilentZero` is not inductive: it speaks of the result only. The strengthening
`NeverReachesZero` follows the coefficient through the code: in the loop it is not zero and
leaves the loop only when it fits, and a zero float that waits for its caller is either of
a zero argument or the underflow value. It is inductive together with `TypeOK`; the
step that matters is the lemma `DroppingKeepsNonZero`: a coefficient that does not fit has
more than PackD digits, and one above the jump's threshold has more than Jump. The jump taken one digit
early is the mutant `DropJumpTooEarly`, which breaks it.

`LosslessMeansExact` is proved from `FlagsFollowLoss`, which says that the flag is set only while
coefficient and exponent are still the ones handed in, and that these are the user's number
unless a digit was dropped; the type invariant serves as a lemma.

Wrapping is part of both proofs: they use only that `WrapExp` returns a value of the type.

Two more theorems say what packing promises:

- `PackingImplementsContract`: `Spec => ContractSafety`, the refinement of PackSpec without its
  liveness. The loop with its jump drops exactly the digits that `DigitsToDrop` chooses in one step.
- `PackingTruncatesOnce`: `Spec => []TruncatesOnce`. What is returned is the given number divided
  once, whatever the stages were.

The inductive invariant `FewestDropped` follows both variables of the loop by one number k (`Dropped(k)`):
c is the given coefficient divided once by 10^k, e the exponent raised by k and wrapped once, and no
fewer than k digits would do. It rests on four lemmas: dividing twice is dividing once (`QuotTwice`)
and wrapping twice is wrapping once (`WrapTwice`); the jump is not taken before five digits have to go
(`JumpIsNeeded`); the number of digits to drop is unique (`DropsAreUnique`), so the k reached is the
contract's choice. The second theorem also needs that a digit which `fromFixedDecimalLossy` dropped on the
way in is followed by more (`LastDigitGoesFirst`).

### Maximizing

`MaximizeFloatProofs` proves `MaximizeReachesMaximum`: `Spec => []ReachesMaximum`, for all widths and
whatever the tuple of stages is. The invariant `GainsDigits` follows the loop as above, upwards
(`Gained(k)`), and says behind each stage that no room of that size is left (`OneStageLeavesNoRoom`),
which is why stages that run once may. The last product is computed unchecked; `DividingBackFindsWrap` is the
reason that the code's test of it is right: a product that wrapped does not divide back to the coefficient.
`GainIsUnique` makes what the stages gain the contract's choice.

### Stack arithmetic

`StackFloatProofs` proves all four properties of calls on any int256 coefficients and exponents, for all widths:

- `ComparisonOrdersNumbers`: `Spec => []StackComparisonIsExact`. `compareRescale` takes the difference of the
  exponents unchecked and recognises one that wrapped by its sign (`DifferenceWraps`); it multiplies unchecked
  and recognises a wrapped product by dividing back; and where it gives up and compares the larger exponent's
  coefficient with zero, the smaller one's is out of reach (`BeyondAll`). `RescaledPairCompares`
  puts the branches together.
- `SumsAreClose`: `Spec => []StackSumIsClose`. `AlignedSumIsClose` follows `add` from two maximized
  numbers through the truncation of the smaller one and the overflow that is found after it happened and mended by
  dividing both by ten; the two truncations together lose less than two units of the last place.
- `ProductsAreTruncated`: `Spec => []StackProductIsTruncated`. `mul` guesses from the high word of the product how
  many digits have to go, by four coarse steps of which each may or may not be taken. `DigitCountIsExact` shows
  that the guess is the number of digits of the high word whichever steps are taken, because each divides by a power of ten and
  dividing twice is dividing once (`CoarseStepCounts`); `HighWord` what that leaves of the product,
  and `SignCostsOneDigit` that at most one digit more goes when the quotient does not fit the signed type.
- `QuotientsAreTruncated`: `Spec => []StackQuotientIsTruncated`. `ScaleFitsDivisor` says which scale `div` chooses,
  whatever the rungs of its ladder are (the loop below them ends at the largest power of ten below the divisor),
  and `ScaledQuotientFits` that the quotient of 512 by 256 bits fits; `ScaleIsShared` that what is
  taken from one exponent, the other and the coefficient adds up to that scale.

They rest on the lemmas of `FloatImplementationProofs`, which are about the functions of the implementation and
not about a specification, so that the contract's theorems can cite them too.

The sum needs that `maximize` has an answer for every argument: that there is a greatest number of digits to
gain. This is an induction over numbers, which is had from the library's well-foundedness of
finite sets instead (`LeastNumber`: a set of naturals has a least element, so a claim with a first
exception can be refuted at that exception). The same lemma gives the reference
arithmetic its powers of ten: `ten` of ExactNumbers is a recursive function on the naturals. `FirstPowersExist`
shows that its first n values can be chosen and `PowersExist` joins them, for powers of any number, so its equations hold
(`TenUnfolds`), and it multiplies, grows, and agrees with `Pow10` where the widths have it (`TenAdds`, `TenGrows`,
`PowersAreTens`). JsFloat's powers of its radix exist by the same lemmas.

### The contract

`DecimalFloatProofs` proves thirteen properties of calls of the contract, for all widths and whatever floats, values,
decimals, limits and texts callers hold: all that the runs `packed_floats` and `wide_floats` check. What it says of each
function is a lemma of `DecimalCallsProofs`, which knows no calls.

- `ErrorsAreDocumented`: `Spec => []OnlyDocumentedErrors`. `AddIsGood` to `DivIsGood` say that numbers with
  room in their exponents (`Roomy`) give a number of the types or a documented error; packed floats have
  the room, and so have the intermediate results of `inv`, `floor` and `ceil`.
- `ArithmeticTruncates`: `Spec => []ResultsAreTruncated`, and `ProductsAreCutOnce` of `ProductIsTruncated`.
  A product is cut by `mul` and again by
  packing; a quotient is cut by `div`, of maximized operands and with one of two scales, since packed operands leave the ladder alone, and again by packing. `PackTruncates`, `CutAgain`,
  `PackedProduct` and `PackedQuotient` show that the cuts are one, and `ScalesCancel` that what maximizing gained
  is paid back in the exponents.
- `ComparisonOrdersFloats`: `Spec => []ComparisonIsExact`. Less, equal and greater from
  `RescalingComparesExactly`; min and max; and that a difference packs to zero only for equal numbers (`DifferenceIsZero`),
  which needs that aligning loses a digit only where the larger operand is so large that the smaller cannot cancel it.
- `SumsAreClose`: `Spec => []SumIsWithinOneUnit`. A maximized packed coefficient ends in a
  zero (`MaximizedShort`), so the overflow that `add` mends by dividing both operands by ten loses nothing, and
  aligning loses only digits below what is packed (`SumHolds`); `SumPacks` puts aligning and packing together.
- `RoundingFindsIntegers`: `Spec => []RoundsToNextInteger`. The one that floor and ceil add is written 10^D * 10^-D,
  and adding it to whole units is exact (`OneBeside`); a number with a fraction has an integer part short enough for the one to be added or subtracted exactly (`RoundedAnswer`); an
  integer and its fraction add up to the number again (`PartsJoin`).
- `FixedPointTruncates` and `FixedPointComesBack`: `Spec => []FixedDecimalIsTruncated` and `[]FixedDecimalRoundTrip`.
  `ScaledDown` and `ScaledUp` relate the code's limits on the exponent to the exact value; on the way back
  `DroppedUnits` and `LostIsBelowOne` bound what the two conversions lost.
- `RangeErrorsHaveReasons`: `Spec => []RangeErrorsAreReal`. `FateOfPacked` says what an error of packing means for
  the number packed, and `QuotientOutOfRange` carries that back through the truncations to the exact quotient.
  `ProductFate` shows that the two cuts of a product are the least one that makes the exact product fit an int224
  and that the exponent after it decides.

- `ParsingIsExact` and `ParsingRefusesTheRest`: `Spec => []ParseIsExact` and `[]ParseRefusesWhatItMust`. `StripsZeros`
  says that the zeros taken off a fraction are all it ends in, and that the digits left are as many as their value
  has; `JoinReads` that the unchecked product which joins integer and fraction is recognised if it wrapped, and
  that the sum then has the fraction's digits in their places; `ExponentAdds` the same of the wrap test of the exponent. `InlineReads`
  puts them together, and `ReadPacks` adds that packing what was read is lossless, or refused, or an overflow of a
  number beyond any float.
- `FormattingIsReversible`: `Spec => []FormatParsesBack`. `NumberReads` follows the parser through an integer part, a fraction and an
  exponent as the formatter writes them, and each layout is shown to write such texts: `ScientificShown` splits
  the maximized coefficient into one digit and the rest, `PlainShown` strips the zeros, raises the exponent
  and puts zeros in front where the number is below one. `PlainRefuses` and `ScientificReads` relate the limits of each
  layout to what it cannot show, and `StringReads` and `FormatReads` add the choice between the two.
- `RepresentationDoesNotMatter`: `Spec => []EqualArgumentsEqualResults`, for two representations of the first argument. Of two ways to write a number, one is the other
  with zeros at its end (`SameIsLonger`), so both maximize to the same digits (`SameMaximizes`) and the
  sum of these loses the same ones (`SameSums`). Products are cut from factors as they are given and may differ by zeros; but
  what is packed is the least cut that fits, and least cuts of one number are one number
  (`LeastCutsAreSame`, `ProductPacksLeast`). Texts follow from `DigitsAreUnique`: the digits without the zeros at their
  end are a function of the number.

All thirteen follow from one invariant, `Answered`: what the caller sees is the result of the call at hand, and that call is
one of the declared arguments. The work is in what the results are.

The theorems about parsing assume of texts (`CallersAssumption`) what makes them texts: a run of digits is a value with no more digits
than its length, digits behind a point or a mark come with the point or the mark, and no text is longer than
an exponent can say. The last is the code's own reason to do without a check
(`LibParseDecimalFloat.sol:97-99`: a longer string "is physically impossible to exist").

### Log tables

`LogTablesProofs` proves `LookupsAreRight`: `Spec => []LookupsFindTheirEntries`, for any number of rows and any
marked entries, and so for the real 90 and 100. The invariant `TablesInv` says of the encoder that its cursor is
behind as many entries as are left, that all bytes behind it are the right ones and all before it zero, and that
the code so far is the finished tables. `EntryIsStored` is the step that matters: the 32 byte `mstore`
overwrites nothing. `DataContractHoldsTables` derives where each table starts, and `LogLookup` and
`AntilogLookup` that the readers' own sums come to the same.

Lemmas about the powers of ten, truncating division, the wrap-around and their meeting (`Pow10Grows`,
`QuotShrinks`, `WrapIsCongruent`, `DividingBackFindsWrap`) are stated once in `FloatImplementationProofs`
and cited by the proofs of packing, maximizing and arithmetic.

### The Rust crate

`FloatClientProofs` proves that the crate adds nothing to the contract and takes nothing from it, for
all widths, floats, texts, limits, threads and sets of methods:

- `ClientImplementsContract`: `ClientSafe => ImplementsContract`. What a thread is told, read back as the
  contract's output, is a behaviour of StatelessContract, whichever thread is watched.
- `PlumbingIsSafe`: `ClientSafe => []PlumbingErrorsAreReal`, the part of `OnlyExpectedErrors` that
  does not depend on numbers: no empty success, no output that fails to decode, an access error only
  while the thread ends, a halt only of a text that is too long, a selector only from `parse`.
- `ErrorsAreExpected`: `ClientSafe => []OnlyExpectedErrors`. Beside that, no panic of Solidity's comes up, and the eighteen
  methods that no argument can make fail do not fail.
- `MethodsAreMeant`: `ClientSafe => []MethodsKeepTheirMeaning`. `MethodsCallTheirFunctions` reads off `Api` which function
  a method calls, and what that function returns is a fact about the contract: the orders (`OrdersMeant`) from exact
  comparison, the extremes (`ExtremesMeant`, `LeastUnits`, `LargestUnits`) from the constants being at the ends of the
  types, difference and quotient (`SignOfDifference`, `DivisionMeant`), fixed point values and texts from the
  lemmas behind the contract's theorems.

`ClientSafe` is `ClientSpec` without its fairness. The assumptions are those of the constants
(`ClientAssumption`, `WatchedAssumption` and the widths'). The argument has three parts.

1. *Shapes.* Each of the contract's functions returns one shape of output or fails: `ConstantShaped` to
   `TextShaped`, put together in `ResultShape` and `CallShape`. They go down through packing, parsing and
   formatting, for most of what they say only as far as the form of what is returned. For what is expected of errors
   they cite what `DecimalCallsProofs` says of the numbers (`UnaryIsExpected` to `FormatIsExpected`): that packed
   arguments leave the unchecked sums of exponents room, that rounding never fails, that a text which cannot be read is
   refused and not a panic.
2. *Decoding.* Each method decodes the shape its function has (`TablesFit`, `MethodDecodes`), so no output
   is undecodable and `OutputTold` of the decoded `Result` is the output again (`RoundTrip`).
3. *The call.* The properties speak of returned calls only and are not inductive. `ClientInv` says what
   is true at each place of a call: an EVM that is alive has the contract's code, a call that
   entered has an EVM that is alive, a run that ended is the contract's run of this thread's call, and a
   returned `Result` is what that run makes, or the access error of a thread whose local is
   destroyed. Each action preserves it (`ClientInvStep`); the theorems follow, the first with
   `StepRefines`: a step of the crate is an answer, a take or a stutter of the contract.

The module carries the theorems over to the specification with JavaScript realms that the run
`client` checks (`JsImplementsContract`, `JsPlumbingIsSafe`, `JsErrorsAreExpected`): a step of JsFloat is a step of FloatClient or
leaves its variables alone (`JsStepIsAClientStep`), where a bigint that is a uint256 is one of the values
the crate's method takes (`UintCallIsARequest`). `JsMethodsAreMeant` carries over the fourth in the same way.

`BigintsAreKept`, `JsSpec => []BigintsKeepTheirValue`, is about the realms themselves, for any radix, length of words and set of bigints.
`DigitsReadBack` and `ValueHasTheDigits` say that reading a row of digits and writing a number in digits undo
each other; no induction over sequences is needed, because the value of the first k digits is characterised as
the one solution of its two equations (`ReadingExists`, `SolutionReads`) and compared
number by number with `LeastNumber`. `PartComesBack` and `RestComesBack` take a word apart again into coefficient and
exponent, each in two's complement (`FloatOfWord`, `WordOfFloat`). `ShortestDigits`, `ZeroInFront` and `EvenDigitsOfBigint`
follow a bigint through its shortest digits, the zero that makes their number even and the padding. The
invariant is `JsInv`: a page that waits for the crate waits for the call its own thread makes, and what a page
is shown keeps the value. The property alone is not inductive, since it does not say which call an answer belongs to.

### Only model-checked

- Liveness everywhere, and the fairness it rests on: out of the prover's reach. So `CallReturns` of packing
  and maximizing, the liveness part of the refinement of PackSpec, `EveryCallReturns` of the crate and
  `TablesGetDeployed` stay with TLC.
- The logarithms (`LogIsInterpolated`, `LogIsMonotone`, `PowerIsInterpolated`, `LogErrorsAreReal`): an interpolation is a
  chain of six truncated operations over tables known by few properties, and its error is a matter of how they add up. Besides,
  its intermediate exponents go several times D below those of the argument, which the assumptions
  on the widths, made for one operation, do not provide for.
- `pow` (`IntegerPowerIsClose`, `StaysOnItsSideOfOne`, `FractionOnlyAdds`, `PowErrorsAreReal`) rests on the
  logarithms, and is compared with powers that are computed by induction over the power. How far its
  products fall below depends on how many there are and on the digits that the widths leave to spare, not on their
  order alone.

## 5. Not modelled

- Deployment beyond the order of its two suites: networks, keys, and the checks of the deployment library.
- The constant `e` of the contract, a number written down in the source; `ceil` and the logarithms as
  calls through the Rust crate, which has no methods for them (they are modelled in the contract).
- How the string library reads a run of digits, but for its limit, and texts with several signs in
  a row, whose meaning it decides.
- How good the tables are: which number an entry holds is data, and the properties of `log10`, `pow10` and
  `pow` are relative to it.
- The crate's helpers for its own tests (`cfg(test)`: `pack_lossless`, `unpack`, `show_unpacked`, the
  second contract of `evm.rs`), the operations its differential fuzzing lists (`fuzz_ops.rs`), and
  the generators that compute the tables in `f64` and print them as Solidity (`tables.rs`): no state, and
  no caller of the crate reaches them. The WASM crate re-exports the Rust crate.
- `FloatError::EVM`: the database of the EVM is in memory and cannot fail. Messages of errors.
- Texts and words of other types than the methods': wasm-bindgen refuses them before the code runs.
- Generated pointers, build scripts, error declarations: no behaviour.
- Gas, beyond which texts a system call cannot parse. Memory layout. The assembly of `unpack` and packing, beyond what the widths say.
- `mulDiv`'s 512 bit inversion: a well known routine taken over from another library; its result
  is the exact quotient here.

## 6. Plan

What would be added next, in this order:

1. That `log10` fails for nonpositive numbers alone, for every width whose packed exponents reach several times D; then the
   other half of `LogErrorsAreReal`.
2. What of `pow` needs no logarithm: its early returns, and that the squaring loop halves what is left of the power.
3. Liveness of `pow`, on an abstraction of its loop to the integer it halves, if a refinement
   makes it worth stating.
