CONSTANTS
  u1 = u1  u2 = u2  w1 = w1  w2 = w2
  Users = {u1}
  Workers = {w1, w2}
  MaxParcels = 2
  ParcelColumns <- WithFullName
  TickSeconds = 300
  Faults = {}
  AfterDelete = "publish"
  BusFaults = {}
  ExchangeExists = FALSE
SPECIFICATION SysSpec
PROPERTY EachPublishIsQueued
