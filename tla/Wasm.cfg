\* Three machines, two cartridges, seven files; the user waits for the end of the
\* initialisation before selecting anything.
SPECIFICATION FairSpec
CONSTANTS
  dragon = dragon
  coco = coco
  mc10 = mc10
  dos = dos
  gmc = gmc
  romD = romD
  romC = romC
  romM = romM
  romDos = romDos
  romGame = romGame
  tape = tape
  disk = disk
  None = None
  Machines = {dragon, coco, mc10}
  Carts = {dos, gmc}
  Files = {romD, romC, romM, romDos, romGame, tape, disk}
  Roms <- MCRoms
  NoPort = {mc10}
  StockRom <- MCStockRom
  StockCart <- MCStockCart
  First = dragon
  Media = {tape}
  Software <- MCSoftware
  Early = FALSE
  MaxQueue = 2
INVARIANTS
  FilesComeFirst
  SelectionTakesEffect
PROPERTIES
  AllSettles
