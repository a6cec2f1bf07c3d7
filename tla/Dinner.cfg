\* One philosopher and one fork less than in the code, and a dish for each.
CONSTANTS
  PHILO = 4
  SEATS = 3
  FOOD = 5
  Nobody = Nobody
SPECIFICATION Spec
INVARIANTS TypeOK NeighboursTakeTurns SeatsCounted DishServedOnce
PROPERTIES EverythingEaten
