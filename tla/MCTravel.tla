-------------------------------- MODULE MCTravel --------------------------------
\* The journey, its own phase under another name: what the field calls a phase is
\* a different thing, and JourneyProofs is about both.
CONSTANTS MaxDistance, kNoGainForMs, kWalkLimitMs, kMaxExploringStages, MaxJourneys, MaxCarried

VARIABLES travelling, note, stance, planning, lookingOut, bridged, indoors, best, exploring,
          quiet, walk, walked, distance, carried, input, trusted, journeys, carries,
          planHere, legHere

J == INSTANCE Travel WITH phase <- stance

\* Distances, times and stages are numbers, and there is some way to go.
ASSUME TravelAssumption == J!Bounds

JourneySpec == J!FairSpec

\* A journey keeps the promise of travel.hpp (Travel, Trip).
IsATrip == J!IsATrip

\* A journey that is left alone ends (Travel).
EndsInTheOpen == J!EndsInTheOpen
=============================================================================
