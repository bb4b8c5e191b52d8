----------------------------- MODULE Catalogue -----------------------------
(***************************************************************************)
(* The catalogue of departures and its seed (prisma/schedule-fixture):     *)
(* fixture files are read and refused as a whole, or loaded over what is   *)
(* there in one transaction.  Functions only.                              *)
(*                                                                         *)
(* A file is a sequence of rows.  `valid` says that every field of a row   *)
(* is well formed by itself: present, a count, a date, a known policy.     *)
(* `at` is the departure in UTC, `service` the operator and its service.   *)
(* Names of places, fares and the policies' versions only ride along with  *)
(* the departure's row and are left out.                                   *)
(***************************************************************************)
EXTENDS Naturals, SequencesExt

ValuesOf(rows, ValueOf(_)) == {ValueOf(rows[i]) : i \in DOMAIN rows}
NoDuplicates(rows, ValueOf(_)) ==
  \A i, j \in DOMAIN rows : i # j => ValueOf(rows[i]) # ValueOf(rows[j])
Valid(rows) == \A i \in DOMAIN rows : rows[i].valid

(* A loader stops at the first row it refuses, and the seed with it. *)
LoadsPickupPointRows(rows) == Valid(rows) /\ NoDuplicates(rows, LAMBDA r : r.code)

LoadsRevenueTwinPolicyRows(rows) == Valid(rows) /\ NoDuplicates(rows, LAMBDA r : r.version)

(* References are only checked against a file that has rows. *)
Refers(value, known) == known = {} \/ value \in known

LoadsTripScheduleRows(rows, pickups, policies) ==
  /\ Valid(rows)
  /\ NoDuplicates(rows, LAMBDA r : r.id)
  /\ NoDuplicates(rows, LAMBDA r : <<r.route, r.at, r.service>>)
  /\ \A i \in DOMAIN rows :
       /\ rows[i].stops # {}
       /\ \A code \in rows[i].stops : Refers(code, ValuesOf(pickups, LAMBDA r : r.code))
       /\ Refers(rows[i].policy, ValuesOf(policies, LAMBDA r : r.version))
       /\ rows[i].capacity > 0

(* Mutant: only the seats that are paid for are held against the capacity. *)
LoadsTripInventoryRowsConfirmedOnly(rows, schedule) ==
  /\ Valid(rows)
  /\ \A i \in DOMAIN rows :
       /\ Refers(rows[i].id, ValuesOf(schedule, LAMBDA r : r.id))
       /\ \A j \in DOMAIN schedule :
            schedule[j].id = rows[i].id => rows[i].confirmed <= schedule[j].capacity

LoadsTripInventoryRows(rows, schedule) ==
  /\ Valid(rows)
  /\ \A i \in DOMAIN rows :
       /\ Refers(rows[i].id, ValuesOf(schedule, LAMBDA r : r.id))
       /\ \A j \in DOMAIN schedule :
            schedule[j].id = rows[i].id =>
              rows[i].confirmed + rows[i].active <= schedule[j].capacity
-----------------------------------------------------------------------------
(***************************************************************************)
(* A catalogue is the rows of trip_departures and of the pickup points,    *)
(* and the seats held by the seed's own bookings, by departure and kind.   *)
(***************************************************************************)
NoRows == <<>>
EmptyCatalogue == [departures |-> NoRows, pickups |-> NoRows, seats |-> NoRows]

(* What is no longer in the files is taken out of sale. *)
RetireDepartures(departures, ids) ==
  [d \in DOMAIN departures |->
     IF d \in ids THEN departures[d] ELSE [departures[d] EXCEPT !.status = "CANCELLED"]]

RetirePickupPoints(pickups, codes) == [c \in DOMAIN pickups |-> c \in codes]

UpsertPickupPoints(pickups, rows) ==
  LET codes == ValuesOf(rows, LAMBDA r : r.code)
  IN  [c \in DOMAIN pickups \cup codes |-> c \in codes \/ pickups[c]]

(* Unique index on the route and the departure time, cancelled rows too. *)
SlotTaken(departures, r) ==
  \E d \in DOMAIN departures \ {r.id} :
    departures[d].route = r.route /\ departures[d].at = r.at

(* The last inventory row of the departure; without one the version stays. *)
VersionOf(departures, id, inventory) ==
  LET of == {i \in DOMAIN inventory : inventory[i].id = id}
  IN  IF of # {} THEN inventory[Max(of)].version
      ELSE IF id \in DOMAIN departures THEN departures[id].version ELSE 1

TripDeparture(r, version) ==
  [route |-> r.route, at |-> r.at, stops |-> r.stops, capacity |-> r.capacity,
   status |-> r.status, version |-> version]

(* The table when the first n rows have been written; no two rows of a     *)
(* schedule have one id.                                                   *)
Upserted(departures, rows, inventory, n) ==
  [d \in DOMAIN departures \cup {rows[i].id : i \in 1 .. n} |->
     LET of == {i \in 1 .. n : rows[i].id = d}
     IN  IF of = {} THEN departures[d]
         ELSE TripDeparture(rows[CHOOSE i \in of : TRUE],
                            VersionOf(departures, d, inventory))]

(* Each row meets the index as the rows before it have left the table. *)
UpsertTripDepartures(departures, rows, inventory) ==
  [ok   |-> \A n \in DOMAIN rows :
              ~SlotTaken(Upserted(departures, rows, inventory, n - 1), rows[n]),
   rows |-> Upserted(departures, rows, inventory, Len(rows))]

Quantity(r, kind) == IF kind = "confirmed" THEN r.confirmed ELSE r.active

(* The rows that hold seats of a kind, key = <<departure, kind>>.  The last *)
(* of them counts, and a quantity of zero leaves what is there.            *)
Holding(rows, key) ==
  {i \in DOMAIN rows : rows[i].id = key[1] /\ Quantity(rows[i], key[2]) > 0}

UpsertInventory(seats, rows) ==
  LET keys == ValuesOf(rows, LAMBDA r : r.id) \X {"confirmed", "active"}
  IN  [key \in DOMAIN seats \cup {k \in keys : Holding(rows, k) # {}} |->
         IF Holding(rows, key) = {} THEN seats[key]
         ELSE Quantity(rows[Max(Holding(rows, key))], key[2])]

(* One transaction: a departure that is not there, or whose slot is taken, *)
(* undoes it all.                                                          *)
Loaded(db, departures, pickups, inventory) ==
  IF departures.ok /\ ValuesOf(inventory, LAMBDA r : r.id) \subseteq DOMAIN departures.rows
  THEN [departures |-> departures.rows,
        pickups |-> UpsertPickupPoints(
          RetirePickupPoints(db.pickups, ValuesOf(pickups, LAMBDA r : r.code)), pickups),
        seats |-> UpsertInventory(db.seats, inventory)]
  ELSE db

(* Mutant: the departures of an earlier load stay on sale. *)
ApplyDemoCatalogueFixturesKeeping(db, schedule, pickups, inventory) ==
  Loaded(db, UpsertTripDepartures(db.departures, schedule, inventory), pickups, inventory)

ApplyDemoCatalogueFixtures(db, schedule, pickups, inventory) ==
  LET retired == RetireDepartures(db.departures, ValuesOf(schedule, LAMBDA r : r.id))
  IN  Loaded(db, UpsertTripDepartures(retired, schedule, inventory), pickups, inventory)

(* The seed: every file is read before anything is written. *)
Readable(files) ==
  /\ LoadsPickupPointRows(files.pickups)
  /\ LoadsRevenueTwinPolicyRows(files.policies)
  /\ LoadsTripScheduleRows(files.schedule, files.pickups, files.policies)
  /\ LoadsTripInventoryRows(files.inventory, files.schedule)

Seed(db, files) ==
  IF Readable(files)
    THEN ApplyDemoCatalogueFixtures(db, files.schedule, files.pickups, files.inventory)
    ELSE db
=============================================================================
